-------------------------- MODULE NamespaceProofs --------------------------
(***************************************************************************)
(* Proofs about Namespace, for any number of inodes, any names however     *)
(* they are cut, and any sizes of inodes, blocks and disks.                *)
(***************************************************************************)
EXTENDS Namespace, FiniteSetTheorems, SequenceTheorems, TLAPS

\* A set of natural numbers that has an element has a least one.
LEMMA LeastElement ==
    ASSUME NEW T \in SUBSET Nat, T # {}
    PROVE  \E x \in T : \A y \in T : x <= y
<1> DEFINE Below == {0 .. x : x \in T}
           R == StrictSubsetOrdering(Nat)
<1>1. \A x \in T : 0 .. x \in SUBSET Nat /\ IsFiniteSet(0 .. x)
  BY FS_Interval
<1>2. Below \subseteq FiniteSubsetsOf(Nat) /\ Below # {}
  BY <1>1 DEF FiniteSubsetsOf
<1>3. PICK m \in Below : \A y \in Below : ~(<<y, m>> \in R)
  <2>1. IsWellFoundedOn(R, FiniteSubsetsOf(Nat))
    BY FS_StrictSubsetOrderingWellFounded
  <2> HIDE DEF Below, R
  <2> QED
    BY <1>2, <2>1, WFMin
<1>4. PICK x \in T : m = 0 .. x
  OBVIOUS
<1>5. ASSUME NEW y \in T, ~(x <= y)
      PROVE  FALSE
  <2>1. 0 .. y \subseteq 0 .. x /\ 0 .. y # 0 .. x
    <3>1. x \in 0 .. x /\ x \notin 0 .. y
      BY <1>5
    <3> QED
      BY <1>5, <3>1
  <2>2. <<0 .. y, m>> \in R
    BY <1>1, <1>4, <2>1 DEF StrictSubsetOrdering
  <2> QED
    BY <1>3, <2>2
<1> QED
  BY <1>5

\* allocate_inode hands out an inode whose bit is clear.
LEMMA NextInodeFree ==
    ASSUME used \subseteq Inode, used # Inode
    PROVE  NextInode \in Inode \ used
<1>1. Inode \subseteq Nat
  BY NamespaceAssumption DEF Inode
<1>2. \E i \in Inode \ used : \A j \in Inode \ used : i <= j
  <2>1. Inode \ used \in SUBSET Nat /\ Inode \ used # {}
    BY <1>1
  <2> QED
    BY <2>1, LeastElement
<1> QED
  BY <1>2 DEF NextInode
-----------------------------------------------------------------------------
Item(n, i) == [name |-> n, id |-> i]

\* An inode by its fields.
Made(type, storage, links, items) ==
    [type |-> type, storage |-> storage, links |-> links, items |-> items]

\* A new file, and the first two entries of a directory.
NewFile == Made("File", "Inline", 1, <<>>)
Dots(i, p) == <<Item(Dot, i), Item(DotDot, p)>>

\* An inode is its four fields, whichever of them is assigned.
LEMMA MadeOf ==
    ASSUME NEW r \in INode
    PROVE  r = Made(r.type, r.storage, r.links, r.items)
  BY DEF INode, Made

LEMMA MadeType ==
    ASSUME NEW r \in INode, NEW x
    PROVE  [r EXCEPT !.type = x] = Made(x, r.storage, r.links, r.items)
  BY DEF INode, Made

LEMMA MadeStorage ==
    ASSUME NEW r \in INode, NEW x
    PROVE  [r EXCEPT !.storage = x] = Made(r.type, x, r.links, r.items)
  BY DEF INode, Made

LEMMA MadeLinks ==
    ASSUME NEW r \in INode, NEW x
    PROVE  [r EXCEPT !.links = x] = Made(r.type, r.storage, x, r.items)
  BY DEF INode, Made

LEMMA MadeItems ==
    ASSUME NEW r \in INode, NEW x
    PROVE  [r EXCEPT !.items = x] = Made(r.type, r.storage, r.links, x)
  BY DEF INode, Made

LEMMA MadeFilled ==
    ASSUME NEW r \in INode, NEW x, NEW y
    PROVE  [r EXCEPT !.items = x, !.storage = y] = Made(r.type, y, r.links, x)
<1>1. \A a, b, c : [Made(a, b, c, x) EXCEPT !.storage = y] = Made(a, y, c, x)
  BY DEF Made
<1>2. [r EXCEPT !.items = x, !.storage = y] =
        [Made(r.type, r.storage, r.links, x) EXCEPT !.storage = y]
  BY MadeItems
<1> QED
  BY <1>1, <1>2

\* The fields of an inode, and when four values make one.
LEMMA MadeFields ==
    ASSUME NEW t, NEW s, NEW l, NEW e
    PROVE  /\ Made(t, s, l, e).type = t /\ Made(t, s, l, e).storage = s
           /\ Made(t, s, l, e).links = l /\ Made(t, s, l, e).items = e
           /\ (/\ t \in {"File", "Directory"} /\ s \in {"Inline", "Direct"}
               /\ l \in 0 .. MaxLinks + 1 /\ e \in Seq(DirItem)) => Made(t, s, l, e) \in INode
  BY DEF Made, INode

\* The types of an inode's fields.
LEMMA INodeFields ==
    ASSUME NEW r \in INode
    PROVE  /\ r.type \in {"File", "Directory"} /\ r.storage \in {"Inline", "Direct"}
           /\ r.links \in Nat /\ r.links \in 0 .. MaxLinks + 1
           /\ r.items \in Seq(DirItem)
  BY NamespaceAssumption DEF INode

\* What Counted does to the inodes.
LEMMA CountedLinks ==
    ASSUME NEW ns \in [Inode -> INode], NEW d, NEW i \in Inode, d # i
    PROVE  Counted(ns, d, i) = [ns EXCEPT ![i] =
                Made(ns[i].type, ns[i].storage, ns[i].links + 1, ns[i].items)]
<1>1. [ns[i] EXCEPT !.links = @ + 1] = Made(ns[i].type, ns[i].storage, ns[i].links + 1, ns[i].items)
  BY MadeLinks
<1>2. [ns EXCEPT ![i].links = @ + 1] = [ns EXCEPT ![i] = [ns[i] EXCEPT !.links = @ + 1]]
  OBVIOUS
<1> QED
  BY <1>1, <1>2 DEF Counted

\* A directory's entry for itself counts no link.
LEMMA CountedSelf ==
    ASSUME NEW ns, NEW d
    PROVE  Counted(ns, d, d) = ns
  BY DEF Counted
-----------------------------------------------------------------------------
Grows(node) == node.storage = "Inline" /\ Len(node.items) >= InlineItems

\* A directory with a new entry.
Filled(node, item) ==
    Made(node.type, IF Grows(node) THEN "Direct" ELSE node.storage, node.links,
         Append(node.items, item))

\* add_diritem where it is refused.
LEMMA AddDirItemRefused ==
    ASSUME NEW ns, NEW s, NEW d, NEW n, NEW to, ~Accepts(ns[d], n)
    PROVE  AddDirItem([ok |-> TRUE, space |-> s, nodes |-> ns], d, n, to)
             = [ok |-> FALSE, space |-> s, nodes |-> ns]
<1> DEFINE st == [ok |-> TRUE, space |-> s, nodes |-> ns]
<1>1. st.space = s /\ st.nodes = ns
  OBVIOUS
<1> HIDE DEF st
<1>2. AddDirItem(st, d, n, to) = [ok |-> FALSE, space |-> st.space, nodes |-> st.nodes]
  BY <1>1 DEF AddDirItem
<1> QED
  BY <1>1, <1>2 DEF st

\* add_diritem, for a state that is given by its fields.
LEMMA AddDirItemFields ==
    ASSUME NEW ns \in [Inode -> INode], NEW s, NEW d \in Inode, NEW n, NEW to
    PROVE  LET st == [ok |-> TRUE, space |-> s, nodes |-> ns]
               written == Grows(ns[d]) => s > 0
           IN  AddDirItem(st, d, n, to) =
                IF Accepts(ns[d], n)
                THEN [ok |-> TRUE,
                      space |-> IF Grows(ns[d]) /\ written THEN s - 1 ELSE s,
                      nodes |-> Counted(IF written
                                        THEN [ns EXCEPT ![d] = Filled(ns[d], Item(Stored[n], to))]
                                        ELSE ns, d, to)]
                ELSE [ok |-> FALSE, space |-> s, nodes |-> ns]
<1> DEFINE item == Item(Stored[n], to)
           grows == ns[d].storage = "Inline" /\ Len(ns[d].items) >= InlineItems
<1>1. \A x, y : [ns[d] EXCEPT !.items = x, !.storage = y] = Made(ns[d].type, y, ns[d].links, x)
  BY MadeFilled
<1>2. [ns[d] EXCEPT !.items = Append(@, item), !.storage = IF grows THEN "Direct" ELSE @]
        = Filled(ns[d], item)
  <2>1. [ns[d] EXCEPT !.items = Append(@, item), !.storage = IF grows THEN "Direct" ELSE @]
          = [ns[d] EXCEPT !.items = Append(ns[d].items, item),
                          !.storage = IF grows THEN "Direct" ELSE ns[d].storage]
    OBVIOUS
  <2> QED
    BY <1>1, <2>1 DEF Filled, Grows
<1> QED
  BY <1>2 DEF AddDirItem, Grows, Item

-----------------------------------------------------------------------------
\* The parent of a new inode i after add_diritem, from the node it was: the
\* entry is there, in the same storage or the first data block, or it is lost.
Linked(old, new, n, i, before, after) ==
    /\ new.type = "Directory" /\ new.links = old.links
    /\ \/ /\ new.items = old.items
          /\ new.storage = old.storage /\ after = before
       \/ /\ new.items = Append(old.items, Item(Stored[n], i))
          /\ \/ new.storage = old.storage /\ after = before
             \/ /\ old.storage = "Inline" /\ new.storage = "Direct"
                /\ before > 0 /\ after = before - 1

\* Entries are entries, whether or not their names were cut.
LEMMA ItemType ==
    ASSUME NEW n \in AnyName, NEW i \in Inode
    PROVE  Item(Stored[n], i) \in DirItem /\ Item(n, i) \in DirItem
  BY NamespaceAssumption DEF DirItem, Item

\* add_diritem in the directory p, for an inode that has no link yet.
LEMMA EntryEffect ==
    ASSUME NEW ns \in [Inode -> INode], NEW s \in Nat, NEW p \in Inode, NEW i \in Inode, p # i,
           NEW n \in AnyName, ns[i].links = 0, Accepts(ns[p], n)
    PROVE  LET st == AddDirItem([ok |-> TRUE, space |-> s, nodes |-> ns], p, n, i)
           IN  /\ st.ok
               /\ \E parent \in INode :
                    /\ st.nodes = [ns EXCEPT ![i] = Made(ns[i].type, ns[i].storage, 1, ns[i].items),
                                             ![p] = parent]
                    /\ Linked(ns[p], parent, n, i, s, st.space)
<1> DEFINE item == Item(Stored[n], i)
           st == AddDirItem([ok |-> TRUE, space |-> s, nodes |-> ns], p, n, i)
           new == Made(ns[i].type, ns[i].storage, 1, ns[i].items)
           full == Filled(ns[p], item)
<1>1. ns[p] \in INode /\ ns[p].type = "Directory" /\ ns[i] \in INode
  BY DEF Accepts
<1>2. /\ full \in INode /\ full.type = "Directory" /\ full.links = ns[p].links
      /\ full.items = Append(ns[p].items, item)
      /\ full.storage = IF Grows(ns[p]) THEN "Direct" ELSE ns[p].storage
  <2>1. Append(ns[p].items, item) \in Seq(DirItem)
    BY <1>1, ItemType, INodeFields, AppendProperties
  <2> DEFINE storage == IF Grows(ns[p]) THEN "Direct" ELSE ns[p].storage
  <2>2. storage \in {"Inline", "Direct"} /\ ns[p].links \in 0 .. MaxLinks + 1
    BY <1>1, INodeFields
  <2>3. full = Made("Directory", storage, ns[p].links, Append(ns[p].items, item))
    BY <1>1 DEF Filled
  <2> HIDE DEF storage, item, full
  <2>4. full \in INode
    BY <2>1, <2>2, <2>3 DEF Made, INode
  <2>5. /\ full.type = "Directory" /\ full.links = ns[p].links
        /\ full.items = Append(ns[p].items, item) /\ full.storage = storage
    BY <2>3 DEF Made
  <2> QED
    BY <2>4, <2>5 DEF storage
<1>3. ASSUME NEW ms \in [Inode -> INode], ms[i] = ns[i]
      PROVE  Counted(ms, p, i) = [ms EXCEPT ![i] = new]
  BY <1>3, CountedLinks
<1> HIDE DEF full, new
<1>4. st = [ok |-> TRUE,
            space |-> IF Grows(ns[p]) /\ (Grows(ns[p]) => s > 0) THEN s - 1 ELSE s,
            nodes |-> Counted(IF Grows(ns[p]) => s > 0 THEN [ns EXCEPT ![p] = full] ELSE ns, p, i)]
  BY AddDirItemFields DEF full
<1> HIDE DEF st
<1>5. CASE Grows(ns[p]) /\ ~(s > 0)
  <2>1. st = [ok |-> TRUE, space |-> s, nodes |-> [ns EXCEPT ![i] = new]]
    BY <1>3, <1>5, <1>4
  <2>2. [ns EXCEPT ![i] = new] = [ns EXCEPT ![i] = new, ![p] = ns[p]]
    OBVIOUS
  <2>3. st.ok /\ st.space = s /\ st.nodes = [ns EXCEPT ![i] = new, ![p] = ns[p]]
    BY <2>1, <2>2
  <2> QED
    BY <1>1, <2>3 DEF Linked, new, st
<1>6. CASE ~(Grows(ns[p]) /\ ~(s > 0))
  <2> DEFINE ms == [ns EXCEPT ![p] = full]
  <2>1. ms \in [Inode -> INode] /\ ms[i] = ns[i]
    BY <1>2
  <2>2. st = [ok |-> TRUE, space |-> IF Grows(ns[p]) THEN s - 1 ELSE s, nodes |-> Counted(ms, p, i)]
    BY <1>6, <1>4
  <2>3. Counted(ms, p, i) = [ns EXCEPT ![i] = new, ![p] = full]
    <3>1. Counted(ms, p, i) = [ms EXCEPT ![i] = new]
      <4> HIDE DEF ms
      <4> QED
        BY <1>3, <2>1
    <3>2. [ms EXCEPT ![i] = new] = [ns EXCEPT ![i] = new, ![p] = full]
      OBVIOUS
    <3> QED
      BY <3>1, <3>2
  <2>4. /\ st.ok /\ st.space = (IF Grows(ns[p]) THEN s - 1 ELSE s)
        /\ st.nodes = [ns EXCEPT ![i] = new, ![p] = full]
    BY <2>2, <2>3
  <2>5. Grows(ns[p]) => ns[p].storage = "Inline" /\ s > 0
    BY <1>6 DEF Grows
  <2> QED
    BY <1>2, <2>4, <2>5 DEF Linked, new, st
<1> QED
  BY <1>5, <1>6

\* The first two entries of a directory, which fit in its inode: "." counts no
\* link, ".." one of the parent unless the directory is its own.
LEMMA DotsEffect ==
    ASSUME NEW ns \in [Inode -> INode], NEW s \in Nat, NEW i \in Inode, NEW p \in Inode,
           ns[i] = Made("Directory", "Inline", 0, <<>>)
    PROVE  AddDirItem(AddDirItem([ok |-> TRUE, space |-> s, nodes |-> ns], i, Dot, i), i, DotDot, p)
             = [ok |-> TRUE, space |-> s,
                nodes |-> Counted([ns EXCEPT ![i] = Made("Directory", "Inline", 0, Dots(i, p))], i, p)]
<1> DEFINE one == [ns EXCEPT ![i] = Made("Directory", "Inline", 0, <<Item(Dot, i)>>)]
           two == [ns EXCEPT ![i] = Made("Directory", "Inline", 0, Dots(i, p))]
<1>1. /\ Dot \in AnyName /\ DotDot \in AnyName /\ Dot # DotDot
      /\ Stored[Dot] = Dot /\ Stored[DotDot] = DotDot
      /\ InlineItems \in Nat /\ InlineItems >= 2
      /\ Item(Dot, i) \in DirItem /\ Item(DotDot, p) \in DirItem
  BY NamespaceAssumption DEF AnyName, Item, DirItem
<1>2. one \in [Inode -> INode]
  <2>1. <<Item(Dot, i)>> \in Seq(DirItem) /\ 0 \in 0 .. MaxLinks + 1
    BY <1>1, NamespaceAssumption
  <2> QED
    BY <2>1, MadeFields
<1>3. AddDirItem([ok |-> TRUE, space |-> s, nodes |-> ns], i, Dot, i)
        = [ok |-> TRUE, space |-> s, nodes |-> one]
  <2>1. ns[i].type = "Directory" /\ ns[i].storage = "Inline" /\ ns[i].items = <<>> /\ ns[i].links = 0
    BY MadeFields
  <2>2. Accepts(ns[i], Dot)
    BY <2>1 DEF Accepts, Has, Entries
  <2>3. ~Grows(ns[i])
    BY <1>1, <2>1 DEF Grows
  <2>4. Filled(ns[i], Item(Stored[Dot], i)) = Made("Directory", "Inline", 0, <<Item(Dot, i)>>)
    <3>1. Append(<<>>, Item(Dot, i)) = <<Item(Dot, i)>>
      BY <1>1
    <3> QED
      BY <1>1, <2>1, <2>3, <3>1 DEF Filled
  <2>5. ns \in [Inode -> INode] => AddDirItem([ok |-> TRUE, space |-> s, nodes |-> ns], i, Dot, i)
          = [ok |-> TRUE, space |-> s,
             nodes |-> Counted([ns EXCEPT ![i] = Filled(ns[i], Item(Stored[Dot], i))], i, i)]
    BY <2>2, <2>3, AddDirItemFields
  <2> QED
    BY <2>4, <2>5, CountedSelf
<1>4. AddDirItem([ok |-> TRUE, space |-> s, nodes |-> one], i, DotDot, p)
        = [ok |-> TRUE, space |-> s, nodes |-> Counted(two, i, p)]
  <2>1. /\ one[i].type = "Directory" /\ one[i].storage = "Inline"
        /\ one[i].items = <<Item(Dot, i)>> /\ one[i].links = 0
    BY MadeFields
  <2>2. [one EXCEPT ![i] = Made("Directory", "Inline", 0, Dots(i, p))] = two
    OBVIOUS
  <2> HIDE DEF one, two
  <2>3. Accepts(one[i], DotDot)
    BY <1>1, <2>1 DEF Accepts, Has, Entries, Item
  <2>4. ~Grows(one[i])
    BY <1>1, <2>1 DEF Grows
  <2>5. Filled(one[i], Item(Stored[DotDot], p)) = Made("Directory", "Inline", 0, Dots(i, p))
    <3>1. ASSUME NEW x \in DirItem, NEW y \in DirItem
          PROVE  Append(<<x>>, y) = <<x, y>>
      <4>1. <<x>> \in Seq(DirItem) /\ Len(<<x>>) = 1 /\ <<x>>[1] = x
        OBVIOUS
      <4>2. /\ Append(<<x>>, y) \in Seq(DirItem) /\ Len(Append(<<x>>, y)) = 2
            /\ Append(<<x>>, y)[1] = x /\ Append(<<x>>, y)[2] = y
        BY <4>1, AppendProperties
      <4>3. /\ <<x, y>> \in Seq(DirItem) /\ Len(<<x, y>>) = 2
            /\ <<x, y>>[1] = x /\ <<x, y>>[2] = y
        OBVIOUS
      <4>4. \A k \in 1 .. 2 : k = 1 \/ k = 2
        OBVIOUS
      <4> DEFINE left == Append(<<x>>, y)
                 right == <<x, y>>
      <4> HIDE DEF left, right
      <4>5. /\ left \in Seq(DirItem) /\ right \in Seq(DirItem)
            /\ Len(left) = Len(right) /\ Len(left) = 2
            /\ \A k \in 1 .. 2 : left[k] = right[k]
        BY <4>2, <4>3, <4>4 DEF left, right
      <4>6. left = right
        BY <4>5, SeqEqual
      <4> QED
        BY <4>6 DEF left, right
    <3>2. Append(<<Item(Dot, i)>>, Item(DotDot, p)) = Dots(i, p)
      BY <1>1, <3>1 DEF Dots
    <3> QED
      BY <1>1, <2>1, <2>4, <3>2 DEF Filled
  <2>6. AddDirItem([ok |-> TRUE, space |-> s, nodes |-> one], i, DotDot, p)
          = [ok |-> TRUE, space |-> s,
             nodes |-> Counted([one EXCEPT ![i] = Filled(one[i], Item(Stored[DotDot], p))], i, p)]
    BY <1>2, <2>3, <2>4, AddDirItemFields
  <2> QED
    BY <2>2, <2>5, <2>6
<1> QED
  BY <1>3, <1>4

\* create_root_dir leaves a root that is its own parent.
NewRoot == [i \in Inode |-> IF i = Root THEN Made("Directory", "Inline", 0, Dots(Root, Root)) ELSE Blank]

\* What create_root_dir makes, step by step.
LEMMA RootDirIs == RootDir = NewRoot
<1> DEFINE ns == [i \in Inode |-> IF i = Root THEN [Blank EXCEPT !.type = "Directory"] ELSE Blank]
<1>1. Root \in Inode /\ TotalSpace \in Nat /\ 0 \in 0 .. MaxLinks + 1
  BY NamespaceAssumption DEF Inode, Root
<1>2. Blank \in INode /\ Blank = Made("File", "Inline", 0, <<>>)
  <2>1. Blank = Made("File", "Inline", 0, <<>>)
    BY DEF Blank, Made
  <2>2. <<>> \in Seq(DirItem)
    OBVIOUS
  <2> QED
    BY <1>1, <2>1, <2>2, MadeFields
<1>3. [Blank EXCEPT !.type = "Directory"] = Made("Directory", "Inline", 0, <<>>)
  <2>1. [Blank EXCEPT !.type = "Directory"]
          = Made("Directory", Blank.storage, Blank.links, Blank.items)
    BY <1>2, MadeType
  <2>2. Blank.storage = "Inline" /\ Blank.links = 0 /\ Blank.items = <<>>
    BY DEF Blank
  <2> QED
    BY <2>1, <2>2
<1>4. Made("Directory", "Inline", 0, <<>>) \in INode
  <2>1. <<>> \in Seq(DirItem)
    OBVIOUS
  <2> QED
    BY <1>1, <2>1, MadeFields
<1>5. ns \in [Inode -> INode] /\ ns[Root] = Made("Directory", "Inline", 0, <<>>)
  BY <1>1, <1>2, <1>3, <1>4
<1>6. RootDir = [ns EXCEPT ![Root] = Made("Directory", "Inline", 0, Dots(Root, Root))]
  <2> HIDE DEF ns
  <2> DEFINE st == AddDirItem(AddDirItem([ok |-> TRUE, space |-> TotalSpace, nodes |-> ns],
                                         Root, Dot, Root), Root, DotDot, Root)
  <2>1. st.nodes = [ns EXCEPT ![Root] = Made("Directory", "Inline", 0, Dots(Root, Root))]
    <3>1. st = [ok |-> TRUE, space |-> TotalSpace,
               nodes |-> Counted([ns EXCEPT ![Root] = Made("Directory", "Inline", 0, Dots(Root, Root))],
                                 Root, Root)]
      BY <1>1, <1>5, DotsEffect
    <3> HIDE DEF st
    <3>2. Counted([ns EXCEPT ![Root] = Made("Directory", "Inline", 0, Dots(Root, Root))], Root, Root)
            = [ns EXCEPT ![Root] = Made("Directory", "Inline", 0, Dots(Root, Root))]
      BY CountedSelf
    <3> QED
      BY <3>1, <3>2
  <2> QED
    BY <2>1 DEF RootDir, ns
<1> QED
  BY <1>1, <1>6 DEF NewRoot

-----------------------------------------------------------------------------
\* The bounds of the state the handlers' effects are computed from.
Typed ==
    /\ used \subseteq Inode /\ nodes \in [Inode -> INode] /\ space \in Nat
    /\ free_inodes \in Nat

Raised(r, more) == Made(r.type, r.storage, r.links + more, r.items)

\* What create_file and create_dir do: the new inode i becomes the node new, and
\* its parent gets so many more links and the new entry, unless that was lost;
Created(p, n, i, new, more) ==
    /\ i \in Inode \ used /\ nodes[p].type = "Directory"
    /\ ~Has(nodes[p], n) /\ ~Has(nodes[p], Stored[n])
    /\ Len(nodes[p].items) < BlockItems
    /\ used' = used \cup {i} /\ free_inodes' = free_inodes - 1
    /\ \E parent \in INode :
        /\ nodes' = [nodes EXCEPT ![i] = new, ![p] = parent]
        /\ Linked(Raised(nodes[p], more), parent, n, i, space, space')

\* or nothing is left of the attempt but the parent's links.
NotCreated(p, more) ==
    /\ Raised(nodes[p], more) \in INode
    /\ nodes' = [nodes EXCEPT ![p] = Raised(nodes[p], more)]
    /\ ret' = "failed"
    /\ UNCHANGED <<used, free_inodes, space>>

\* Both handlers once the new inode i is as it is entered in its parent: ns are
\* the inodes then.
LEMMA CommitOrUndo ==
    ASSUME Typed, used # Inode, FreeInodesBlank,
           NEW p \in used, NEW n \in AnyName, NEW more \in {0, 1}, NEW op,
           NEW type \in {"File", "Directory"}, NEW items \in Seq(DirItem),
           Raised(nodes[p], more) \in INode,
           ~Has(nodes[p], n), Len(nodes[p].items) < BlockItems,
           LET ns == [nodes EXCEPT ![NextInode] = Made(type, "Inline", 0, items),
                                   ![p] = Raised(nodes[p], more)]
               st == AddDirItem([ok |-> TRUE, space |-> space, nodes |-> ns], p, n, NextInode)
           IN  Commit(st, op) \/ Undo(st)
    PROVE  \/ Created(p, n, NextInode, Made(type, "Inline", 1, items), more) /\ ret' = op
           \/ NotCreated(p, more)
<1> DEFINE i == NextInode
           start == Made(type, "Inline", 0, items)
           parent == Raised(nodes[p], more)
           ns == [nodes EXCEPT ![i] = start, ![p] = parent]
           st == AddDirItem([ok |-> TRUE, space |-> space, nodes |-> ns], p, n, i)
<1>1. /\ i \in Inode \ used /\ p \in Inode /\ p # i
      /\ nodes \in [Inode -> INode] /\ nodes[i] = Blank /\ space \in Nat
  BY NextInodeFree DEF Typed, FreeInodesBlank
<1> HIDE DEF i
<1>2. start \in INode /\ start.type = type /\ start.storage = "Inline" /\ start.links = 0
      /\ start.items = items
  <2>1. 0 \in 0 .. MaxLinks + 1
    BY NamespaceAssumption
  <2> QED
    BY <2>1 DEF Made, INode
<1>3. /\ parent.type = nodes[p].type /\ parent.storage = nodes[p].storage
      /\ parent.links = nodes[p].links + more /\ parent.items = nodes[p].items
  BY DEF Raised, Made
<1> HIDE DEF start, parent
<1>4. /\ ns \in [Inode -> INode] /\ ns[i] = start /\ ns[p] = parent
  BY <1>1, <1>2 DEF parent
<1>5. Accepts(ns[p], n) <=> nodes[p].type = "Directory" /\ ~Has(nodes[p], Stored[n])
  BY <1>3, <1>4 DEF Accepts, Has, Entries
<1>6. CASE Accepts(ns[p], n)
  <2> HIDE DEF ns
  <2>1. st.ok /\ \E q \in INode :
            /\ st.nodes = [ns EXCEPT ![i] = Made(ns[i].type, ns[i].storage, 1, ns[i].items), ![p] = q]
            /\ Linked(ns[p], q, n, i, space, st.space)
    BY <1>1, <1>2, <1>4, <1>6, EntryEffect
  <2>2. PICK q \in INode :
            /\ st.nodes = [ns EXCEPT ![i] = Made(type, "Inline", 1, items), ![p] = q]
            /\ Linked(parent, q, n, i, space, st.space)
    BY <1>2, <1>4, <2>1
  <2>3. st.nodes = [nodes EXCEPT ![i] = Made(type, "Inline", 1, items), ![p] = q]
    BY <1>1, <2>2 DEF ns
  <2> HIDE DEF st
  <2>4. Commit(st, op)
    BY <2>1 DEF Undo, st, ns, i, start, parent
  <2> QED
    BY <1>1, <1>5, <1>6, <2>2, <2>3, <2>4 DEF Commit, Created, parent, i
<1>7. CASE ~Accepts(ns[p], n)
  <2> HIDE DEF ns
  <2>1. st = [ok |-> FALSE, space |-> space, nodes |-> ns]
    BY <1>7, AddDirItemRefused
  <2>2. ~st.ok /\ st.space = space /\ st.nodes = ns
    BY <2>1
  <2> HIDE DEF st
  <2>3. Undo(st)
    BY <2>2 DEF Commit, st, ns, i, start, parent
  <2>4. Freed(st, i).space = space
    BY <1>2, <1>4, <2>2 DEF Freed
  <2>5. Freed(st, i).nodes = [ns EXCEPT ![i] = Blank]
    BY <2>2 DEF Freed
  <2>6. [ns EXCEPT ![i] = Blank] = [nodes EXCEPT ![p] = parent]
    BY <1>1 DEF ns
  <2> QED
    BY <2>3, <2>4, <2>5, <2>6 DEF Undo, NotCreated, parent, i
<1> QED
  BY <1>6, <1>7

\* create_file and create_dir, each as one step on the inodes.
LEMMA CreateFileEffect ==
    ASSUME Typed, FreeInodesBlank, NEW p \in used, NEW n \in AnyName, CreateFile(p, n)
    PROVE  \/ Created(p, n, NextInode, NewFile, 0) /\ ret' = "touch"
           \/ NotCreated(p, 0)
<1> DEFINE i == NextInode
           start == Made("File", "Inline", 0, <<>>)
           ns == [nodes EXCEPT ![i] = start, ![p] = Raised(nodes[p], 0)]
<1>1. used # Inode /\ ~Has(nodes[p], n) /\ Len(nodes[p].items) < BlockItems
  BY DEF CreateFile
<1>2. /\ i \in Inode \ used /\ p \in Inode /\ p # i /\ nodes \in [Inode -> INode]
      /\ nodes[i] = Blank /\ nodes[p] \in INode /\ nodes[i] \in INode
  BY <1>1, NextInodeFree DEF Typed, FreeInodesBlank
<1> HIDE DEF i
<1>3. Raised(nodes[p], 0) = nodes[p]
  <2>1. nodes[p].links + 0 = nodes[p].links
    BY <1>2, INodeFields
  <2> QED
    BY <1>2, <2>1, MadeOf DEF Raised
<1>4. [nodes[i] EXCEPT !.type = "File"] = start
  <2>1. [nodes[i] EXCEPT !.type = "File"]
          = Made("File", nodes[i].storage, nodes[i].links, nodes[i].items)
    BY <1>2, MadeType
  <2>2. nodes[i].storage = "Inline" /\ nodes[i].links = 0 /\ nodes[i].items = <<>>
    BY <1>2 DEF Blank
  <2> QED
    BY <2>1, <2>2
<1> HIDE DEF start
<1>5. [nodes EXCEPT ![i].type = "File"] = ns
  <2>1. [nodes EXCEPT ![i].type = "File"] = [nodes EXCEPT ![i] = [nodes[i] EXCEPT !.type = "File"]]
    OBVIOUS
  <2> QED
    BY <1>2, <1>3, <1>4, <2>1
<1> HIDE DEF ns
<1>6. Allocated("File") = [ok |-> TRUE, space |-> space, nodes |-> ns]
  BY <1>5 DEF Allocated, i
<1>7. LET st == AddDirItem([ok |-> TRUE, space |-> space, nodes |-> ns], p, n, i)
      IN  Commit(st, "touch") \/ Undo(st)
  BY <1>6 DEF CreateFile, i
<1>8. <<>> \in Seq(DirItem) /\ 0 \in {0, 1} /\ "File" \in {"File", "Directory"}
  OBVIOUS
<1> QED
  BY <1>1, <1>2, <1>3, <1>7, <1>8, CommitOrUndo DEF ns, start, i, NewFile

\* create_dir enters the new directory's dots first.
LEMMA CreateDirEffect ==
    ASSUME Typed, FreeInodesBlank, NEW p \in used, NEW n \in AnyName, CreateDir(p, n)
    PROVE  \/ /\ Created(p, n, NextInode, Made("Directory", "Inline", 1, Dots(NextInode, p)), 1)
              /\ ret' = "mkdir"
           \/ NotCreated(p, 1)
<1> DEFINE i == NextInode
           start == Made("Directory", "Inline", 0, <<>>)
           full == Made("Directory", "Inline", 0, Dots(i, p))
           first == [nodes EXCEPT ![i] = start]
           ns == [nodes EXCEPT ![i] = full, ![p] = Raised(nodes[p], 1)]
<1>1. /\ used # Inode /\ ~Has(nodes[p], n) /\ Len(nodes[p].items) < BlockItems
      /\ nodes[p].links < MaxLinks
  BY DEF CreateDir
<1>2. /\ i \in Inode \ used /\ p \in Inode /\ p # i /\ nodes \in [Inode -> INode]
      /\ nodes[i] = Blank /\ nodes[p] \in INode /\ nodes[i] \in INode /\ space \in Nat
  BY <1>1, NextInodeFree DEF Typed, FreeInodesBlank
<1> HIDE DEF i
<1>3. Dots(i, p) \in Seq(DirItem) /\ <<>> \in Seq(DirItem) /\ 0 \in 0 .. MaxLinks + 1
  <2>1. Item(Dot, i) \in DirItem /\ Item(DotDot, p) \in DirItem
    <3>1. Dot \in AnyName /\ DotDot \in AnyName
      BY DEF AnyName
    <3> QED
      BY <1>2, <3>1, ItemType
  <2> QED
    BY <2>1, NamespaceAssumption DEF Dots
<1>4. Raised(nodes[p], 1) \in INode
  <2>1. nodes[p].links + 1 \in 0 .. MaxLinks + 1
    BY <1>1, <1>2, INodeFields, NamespaceAssumption
  <2> QED
    BY <1>2, <2>1, INodeFields DEF Raised, Made, INode
<1>5. [nodes[i] EXCEPT !.type = "Directory"] = start
  <2>1. [nodes[i] EXCEPT !.type = "Directory"]
          = Made("Directory", nodes[i].storage, nodes[i].links, nodes[i].items)
    BY <1>2, MadeType
  <2>2. nodes[i].storage = "Inline" /\ nodes[i].links = 0 /\ nodes[i].items = <<>>
    BY <1>2 DEF Blank
  <2> QED
    BY <2>1, <2>2
<1>6. start \in INode /\ full \in INode
  BY <1>3, MadeFields
<1>7. Allocated("Directory") = [ok |-> TRUE, space |-> space, nodes |-> first]
  <2>1. [nodes EXCEPT ![i].type = "Directory"]
          = [nodes EXCEPT ![i] = [nodes[i] EXCEPT !.type = "Directory"]]
    OBVIOUS
  <2>2. [nodes EXCEPT ![i].type = "Directory"] = first
    BY <1>5, <2>1
  <2> QED
    BY <2>2 DEF Allocated, i
<1>8. first \in [Inode -> INode] /\ first[i] = start
  BY <1>2, <1>6
<1>9. AddDirItem(AddDirItem(Allocated("Directory"), i, Dot, i), i, DotDot, p)
        = [ok |-> TRUE, space |-> space, nodes |-> ns]
  <2> HIDE DEF first
  <2>1. AddDirItem(AddDirItem(Allocated("Directory"), i, Dot, i), i, DotDot, p)
          = [ok |-> TRUE, space |-> space, nodes |-> Counted([first EXCEPT ![i] = full], i, p)]
    <3>1. AddDirItem(AddDirItem([ok |-> TRUE, space |-> space, nodes |-> first],
                                i, Dot, i), i, DotDot, p)
            = [ok |-> TRUE, space |-> space,
               nodes |-> Counted([first EXCEPT ![i] = Made("Directory", "Inline", 0, Dots(i, p))], i, p)]
      BY <1>2, <1>8, DotsEffect
    <3> QED
      BY <1>7, <3>1
  <2>2. Counted([first EXCEPT ![i] = full], i, p) = ns
    <3> DEFINE second == [first EXCEPT ![i] = full]
    <3> HIDE DEF full, start
    <3>1. second \in [Inode -> INode] /\ second[p] = nodes[p]
      BY <1>2, <1>6, <1>8 DEF first
    <3>2. [second EXCEPT ![p] = Raised(nodes[p], 1)] = ns
      BY <1>2 DEF first
    <3> HIDE DEF second, ns
    <3>3. Counted(second, i, p) = [second EXCEPT ![p] = Raised(second[p], 1)]
      BY <1>2, <3>1, CountedLinks DEF Raised
    <3> QED
      BY <3>1, <3>2, <3>3 DEF second
  <2> QED
    BY <2>1, <2>2
<1> HIDE DEF ns
<1>10. LET st == AddDirItem([ok |-> TRUE, space |-> space, nodes |-> ns], p, n, i)
       IN  Commit(st, "mkdir") \/ Undo(st)
  BY <1>9 DEF CreateDir, NewDir, i
<1>11. 1 \in {0, 1} /\ "Directory" \in {"File", "Directory"}
  OBVIOUS
<1> QED
  BY <1>1, <1>2, <1>3, <1>4, <1>10, <1>11, CommitOrUndo DEF ns, full, i

-----------------------------------------------------------------------------
\* The inductive invariant, by positions: a directory starts with its dots, and
\* the entries after them form a tree.
Rooted == Root \in used /\ nodes[Root].type = "Directory"

DirShape ==
    \A d \in used :
        IF nodes[d].type = "Directory"
        THEN /\ Len(nodes[d].items) >= 2
             /\ nodes[d].items[1] = Item(Dot, d) /\ nodes[d].items[2].name = DotDot
        ELSE nodes[d].items = <<>>

\* The positions of a node's entries other than the dots.
Below(d) == 3 .. Len(nodes[d].items)

OneParent ==
    \A d \in used : \A k \in Below(d) :
        LET i == nodes[d].items[k].id
        IN  /\ i # Root
            /\ nodes[i].type = "Directory" => nodes[i].items[2].id = d
            /\ \A e \in used : \A j \in Below(e) : nodes[e].items[j].id = i => e = d /\ j = k

Inv ==
    /\ CountersConserved /\ FreeInodesBlank /\ NamesUnique /\ NoDanglingEntry
    /\ Rooted /\ DirShape /\ OneParent

-----------------------------------------------------------------------------
\* find_inode_by_name returns an entry of that name.
LEMMA FirstEntryIs ==
    ASSUME NEW node \in INode, NEW n, Has(node, n)
    PROVE  FirstEntry(node, n) \in DOMAIN node.items /\ node.items[FirstEntry(node, n)].name = n
<1>1. DOMAIN node.items = 1 .. Len(node.items) /\ Len(node.items) \in Nat
  BY INodeFields
<1>2. Entries(node, n) \in SUBSET Nat /\ Entries(node, n) # {}
  BY <1>1 DEF Entries, Has
<1>3. \E i \in Entries(node, n) : \A j \in Entries(node, n) : i <= j
  BY <1>2, LeastElement
<1>4. FirstEntry(node, n) \in Entries(node, n)
  BY <1>3 DEF FirstEntry
<1> QED
  BY <1>4 DEF Entries

\* A directory's entries with position k gone: where the others are.
LEMMA WithoutEntryIs ==
    ASSUME NEW items \in Seq(DirItem), NEW k \in 1 .. Len(items)
    PROVE  /\ WithoutEntry(items, k) \in Seq(DirItem)
           /\ Len(WithoutEntry(items, k)) = Len(items) - 1
           /\ \A j \in 1 .. Len(items) - 1 :
                WithoutEntry(items, k)[j] = items[IF j = k THEN Len(items) ELSE j]
<1> DEFINE len == Len(items)
           moved == [items EXCEPT ![k] = items[len]]
           cut == SubSeq(moved, 1, len - 1)
<1>1. len \in Nat /\ DOMAIN items = 1 .. len /\ \A j \in 1 .. len : items[j] \in DirItem
  OBVIOUS
<1>2. /\ moved \in Seq(DirItem) /\ Len(moved) = len
      /\ \A j \in 1 .. len : moved[j] = items[IF j = k THEN len ELSE j]
  <2>1. moved \in [1 .. len -> DirItem]
    BY <1>1
  <2>2. \A j \in 1 .. len : moved[j] = items[IF j = k THEN len ELSE j]
    BY <1>1
  <2> HIDE DEF moved
  <2>3. moved \in Seq(DirItem) /\ Len(moved) = len
    BY <1>1, <2>1
  <2> QED
    BY <2>2, <2>3
<1> HIDE DEF moved
<1>3. /\ cut \in Seq(DirItem) /\ Len(cut) = len - 1
      /\ \A j \in 1 .. len - 1 : cut[j] = moved[j]
  <2>1. k \in 1 .. len /\ len - 1 \in Nat /\ 1 \in Nat
    BY <1>1
  <2>2. \A j \in 1 .. len - 1 : moved[j] \in DirItem
    BY <1>1, <1>2
  <2>3. /\ cut \in Seq(DirItem)
        /\ Len(cut) = IF 1 <= len - 1 THEN (len - 1) - 1 + 1 ELSE 0
        /\ \A j \in 1 .. (len - 1) - 1 + 1 : cut[j] = moved[1 + j - 1]
    BY <1>1, <1>2, <2>1, <2>2, SubSeqProperties
  <2> HIDE DEF cut, len
  <2>4. (len - 1) - 1 + 1 = len - 1 /\ \A j \in 1 .. len - 1 : 1 + j - 1 = j
    BY <2>1
  <2>5. Len(cut) = len - 1
    BY <2>1, <2>3, <2>4
  <2> QED
    BY <2>3, <2>4, <2>5
<1> QED
  <2>1. WithoutEntry(items, k) = cut
    BY DEF WithoutEntry, moved
  <2> HIDE DEF cut
  <2>2. \A j \in 1 .. len - 1 : cut[j] = items[IF j = k THEN len ELSE j]
    BY <1>1, <1>2, <1>3
  <2> QED
    BY <1>3, <2>1, <2>2

-----------------------------------------------------------------------------
\* The entries that name inode i, its own "." left out.
RefSet(i) == {x \in Places : EntryAt(x).id = i /\ x[1] # i}

\* Refs counts these entries.
LEMMA RefsIs == \A i : Refs(i) = Cardinality(RefSet(i))
  BY DEF Refs, RefSet

\* What TypeOK says of single inodes and entries.
LEMMA Bounds ==
    ASSUME TypeOK
    PROVE  /\ Typed /\ IsFiniteSet(Inode) /\ IsFiniteSet(used) /\ Root \in Inode
           /\ \A d \in Inode : /\ nodes[d] \in INode /\ nodes[d].items \in Seq(DirItem)
                               /\ Len(nodes[d].items) \in 0 .. BlockItems
                               /\ DOMAIN nodes[d].items = 1 .. Len(nodes[d].items)
                               /\ \A k \in 1 .. Len(nodes[d].items) :
                                    /\ nodes[d].items[k].id \in Inode
                                    /\ nodes[d].items[k].name \in AnyName
<1>1. InodeCount \in Nat \ {0} /\ BlockItems \in Nat /\ TotalSpace \in Nat
  BY NamespaceAssumption
<1>2. IsFiniteSet(Inode) /\ Root \in Inode
  BY <1>1, FS_Interval DEF Inode, Root
<1>3. IsFiniteSet(used) /\ Typed
  BY <1>1, <1>2, FS_Subset DEF TypeOK, Typed
<1>4. ASSUME NEW d \in Inode
      PROVE  /\ nodes[d] \in INode /\ nodes[d].items \in Seq(DirItem)
             /\ Len(nodes[d].items) \in 0 .. BlockItems
             /\ DOMAIN nodes[d].items = 1 .. Len(nodes[d].items)
             /\ \A k \in 1 .. Len(nodes[d].items) :
                    /\ nodes[d].items[k].id \in Inode /\ nodes[d].items[k].name \in AnyName
  <2>1. nodes[d] \in INode /\ Len(nodes[d].items) <= BlockItems
    BY DEF TypeOK
  <2>2. nodes[d].items \in Seq(DirItem)
    BY <2>1, INodeFields
  <2>3. Len(nodes[d].items) \in Nat /\ DOMAIN nodes[d].items = 1 .. Len(nodes[d].items)
        /\ \A k \in 1 .. Len(nodes[d].items) : nodes[d].items[k] \in DirItem
    BY <2>2
  <2>4. \A x \in DirItem : x.id \in Inode /\ x.name \in AnyName
    BY DEF DirItem
  <2> QED
    BY <1>1, <2>1, <2>2, <2>3, <2>4
<1> QED
  BY <1>2, <1>3, <1>4

\* The places of entries are finitely many, and these.
LEMMA PlacesAre ==
    ASSUME TypeOK
    PROVE  /\ IsFiniteSet(Places)
           /\ \A d, k : <<d, k>> \in Places <=> d \in used /\ k \in 1 .. Len(nodes[d].items)
           /\ \A x \in Places : x = <<x[1], x[2]>>
<1>1. BlockItems \in Nat
  BY NamespaceAssumption
<1>2. IsFiniteSet(used \X (1 .. BlockItems))
  <2>1. IsFiniteSet(used)
    BY Bounds
  <2>2. IsFiniteSet(1 .. BlockItems)
    BY <1>1, FS_Interval
  <2> QED
    BY <2>1, <2>2, FS_Product
<1>3. Places \subseteq used \X (1 .. BlockItems)
  BY DEF Places
<1>4. ASSUME NEW d, NEW k
      PROVE  <<d, k>> \in Places <=> d \in used /\ k \in 1 .. Len(nodes[d].items)
  <2>1. d \in used => /\ DOMAIN nodes[d].items = 1 .. Len(nodes[d].items)
                      /\ Len(nodes[d].items) \in 0 .. BlockItems
    BY Bounds DEF Typed
  <2>2. d \in used => (k \in 1 .. Len(nodes[d].items) => k \in 1 .. BlockItems)
    BY <1>1, <2>1
  <2>3. <<d, k>> \in Places <=> d \in used /\ k \in 1 .. BlockItems /\ k \in DOMAIN nodes[d].items
    BY DEF Places
  <2> QED
    BY <2>1, <2>2, <2>3
<1> QED
  BY <1>2, <1>3, <1>4, FS_Subset

\* What the invariant says of single entries.
LEMMA EntryFacts ==
    ASSUME Inv
    PROVE  /\ TypeOK /\ Typed
           /\ \A d \in used : \A k \in 1 .. Len(nodes[d].items) :
                /\ nodes[d].items[k].id \in used
                /\ k >= 3 <=> nodes[d].items[k].name \in Name
                /\ Len(nodes[d].items) >= 2 /\ nodes[d].type = "Directory"
           /\ \A i \in used : nodes[i].links >= Refs(i)
<1>1. TypeOK /\ Typed
  BY Bounds DEF Inv, CountersConserved
<1>2. ASSUME NEW d \in used, NEW k \in 1 .. Len(nodes[d].items)
      PROVE  /\ nodes[d].items[k].id \in used
             /\ k >= 3 <=> nodes[d].items[k].name \in Name
             /\ Len(nodes[d].items) >= 2 /\ nodes[d].type = "Directory"
  <2>1. /\ nodes[d].items \in Seq(DirItem) /\ DOMAIN nodes[d].items = 1 .. Len(nodes[d].items)
        /\ nodes[d].items[k].name \in AnyName /\ Len(nodes[d].items) \in Nat
    BY <1>1, Bounds DEF Typed
  <2>2. nodes[d].items[k].id \in used
    BY <2>1 DEF Inv, NoDanglingEntry
  <2>3. nodes[d].type = "Directory"
    BY <2>1 DEF Inv, DirShape
  <2>4. /\ Len(nodes[d].items) >= 2 /\ nodes[d].items[1].name = Dot
        /\ nodes[d].items[2].name = DotDot
    <3>1. /\ Len(nodes[d].items) >= 2 /\ nodes[d].items[1] = Item(Dot, d)
          /\ nodes[d].items[2].name = DotDot
      BY <2>3 DEF Inv, DirShape
    <3>2. Item(Dot, d).name = Dot
      BY DEF Item
    <3> QED
      BY <3>1, <3>2
  <2>5. \A j, m \in 1 .. Len(nodes[d].items) :
            nodes[d].items[j].name = nodes[d].items[m].name => j = m
    BY <2>1 DEF Inv, NamesUnique
  <2>6. 1 \in 1 .. Len(nodes[d].items) /\ 2 \in 1 .. Len(nodes[d].items)
    BY <2>1, <2>4
  <2>7. k = 1 \/ k = 2 <=> nodes[d].items[k].name \in {Dot, DotDot}
    BY <2>4, <2>5, <2>6
  <2>8. nodes[d].items[k].name \in Name <=> nodes[d].items[k].name \notin {Dot, DotDot}
    BY <2>1, NamespaceAssumption DEF AnyName
  <2>9. k >= 3 <=> ~(k = 1 \/ k = 2)
    BY <2>1
  <2> QED
    BY <2>2, <2>3, <2>4, <2>7, <2>8, <2>9
<1>3. ASSUME NEW i \in used
      PROVE  nodes[i].links >= Refs(i)
  <2>1. nodes[i].links \in Nat
    BY <1>1, INodeFields DEF Typed
  <2>2. CASE RefSet(i) = {}
    BY <2>1, <2>2, RefsIs, FS_EmptySet
  <2>3. CASE RefSet(i) # {}
    <3>1. PICK x \in RefSet(i) : TRUE
      BY <2>3
    <3>2. x \in Places /\ EntryAt(x).id = i
      BY <3>1 DEF RefSet
    <3>3. x[1] \in used /\ x[2] \in DOMAIN nodes[x[1]].items /\ nodes[x[1]].items[x[2]].id = i
      BY <3>2 DEF Places, EntryAt
    <3> QED
      BY <3>3 DEF Inv, NoDanglingEntry
  <2> QED
    BY <2>2, <2>3
<1> QED
  BY <1>1, <1>2, <1>3

-----------------------------------------------------------------------------
\* Paths end in allocated inodes.
LEMMA ResolvableUsed ==
    ASSUME Inv
    PROVE  Resolvable \subseteq used
<1>1. used \in SUBSET Inode /\ Root \in used
  BY EntryFacts DEF Typed, Inv, Rooted
<1>2. \A d \in used : \A k \in DOMAIN nodes[d].items : nodes[d].items[k].id \in used
  BY DEF Inv, NoDanglingEntry
<1> QED
  BY <1>1, <1>2 DEF Resolvable

\* What remove_diritem does to the entry at position k of p: the inode it names
\* is freed with its last link, or loses one, and the entry goes.
Shorter(p, k) ==
    Made(nodes[p].type, nodes[p].storage, nodes[p].links, WithoutEntry(nodes[p].items, k))

Unlinked(p, k) ==
    LET i == nodes[p].items[k].id
    IN  \/ /\ nodes[i].links = 1
           /\ used' = used \ {i} /\ free_inodes' = free_inodes + 1
           /\ nodes' = [nodes EXCEPT ![i] = Blank, ![p] = Shorter(p, k)]
           /\ space' = IF nodes[i].storage = "Direct" THEN space + 1 ELSE space
        \/ /\ nodes[i].links > 1
           /\ UNCHANGED <<used, free_inodes, space>>
           /\ nodes' = [nodes EXCEPT ![i] = Raised(nodes[i], -1), ![p] = Shorter(p, k)]

Removed(p, k) ==
    LET i == nodes[p].items[k].id
    IN  /\ i \in used /\ i # Root /\ i # p
        /\ nodes[i].type = "Directory" => Len(nodes[i].items) = 2
        /\ Unlinked(p, k)

\* What remove_diritem leaves of two inodes, whatever else the tree is.
LEMMA RemovalIs ==
    ASSUME Typed, NEW p \in Inode, NEW n, NEW op, RemoveDirItem(p, n, op),
           NEW k, k = FirstEntry(nodes[p], n), NEW i \in Inode, i = nodes[p].items[k].id,
           i # p, nodes[i].links # 0
    PROVE  ret' = op /\ Unlinked(p, k)
<1> DEFINE unlinked == [ok |-> TRUE, space |-> space, nodes |-> [nodes EXCEPT ![i].links = @ - 1]]
           last == unlinked.nodes[i].links = 0
           st == IF last THEN Freed(unlinked, i) ELSE unlinked
<1>1. /\ nodes \in [Inode -> INode] /\ nodes[p] \in INode /\ nodes[i] \in INode
      /\ nodes[i].links \in Nat \ {0}
  BY INodeFields DEF Typed
<1>2. /\ used' = IF last THEN used \ {i} ELSE used
      /\ free_inodes' = IF last THEN free_inodes + 1 ELSE free_inodes
      /\ nodes' = [st.nodes EXCEPT ![p].items = WithoutEntry(@, k)]
      /\ space' = st.space
      /\ ret' = op
  BY DEF RemoveDirItem, Target
<1> DEFINE ms == [nodes EXCEPT ![i] = Raised(nodes[i], -1)]
<1>3. unlinked.nodes = ms /\ unlinked.space = space
  <2>1. [nodes[i] EXCEPT !.links = nodes[i].links - 1]
          = Made(nodes[i].type, nodes[i].storage, nodes[i].links - 1, nodes[i].items)
    BY <1>1, MadeLinks
  <2>2. [nodes EXCEPT ![i].links = @ - 1]
          = [nodes EXCEPT ![i] = [nodes[i] EXCEPT !.links = nodes[i].links - 1]]
    OBVIOUS
  <2>3. nodes[i].links - 1 = nodes[i].links + (-1)
    BY <1>1
  <2> QED
    BY <2>1, <2>2, <2>3 DEF Raised
<1> HIDE DEF unlinked
<1>4. ms[i].links = nodes[i].links - 1 /\ ms[i].storage = nodes[i].storage /\ ms[p] = nodes[p]
  BY <1>1 DEF Raised, Made
<1>5. last <=> nodes[i].links = 1
  BY <1>1, <1>3, <1>4
<1>6. \A ns : ns[p] = nodes[p] =>
        [ns EXCEPT ![p].items = WithoutEntry(@, k)] = [ns EXCEPT ![p] = Shorter(p, k)]
  <2>1. [nodes[p] EXCEPT !.items = WithoutEntry(nodes[p].items, k)] = Shorter(p, k)
    BY <1>1, MadeItems DEF Shorter
  <2>2. ASSUME NEW ns, ns[p] = nodes[p]
        PROVE  [ns EXCEPT ![p].items = WithoutEntry(@, k)]
                 = [ns EXCEPT ![p] = [nodes[p] EXCEPT !.items = WithoutEntry(nodes[p].items, k)]]
    BY <2>2
  <2> QED
    BY <2>1, <2>2
<1>7. CASE nodes[i].links = 1
  <2>1. st.nodes = [ms EXCEPT ![i] = Blank]
        /\ st.space = IF nodes[i].storage = "Direct" THEN space + 1 ELSE space
    BY <1>3, <1>4, <1>5, <1>7 DEF Freed
  <2>2. [ms EXCEPT ![i] = Blank] = [nodes EXCEPT ![i] = Blank]
    OBVIOUS
  <2> HIDE DEF st, ms, last
  <2>3. nodes' = [nodes EXCEPT ![i] = Blank, ![p] = Shorter(p, k)]
    <3>1. [nodes EXCEPT ![i] = Blank][p] = nodes[p]
      BY <1>1
    <3> QED
      BY <1>2, <1>6, <2>1, <2>2, <3>1
  <2> QED
    BY <1>2, <1>5, <1>7, <2>1, <2>3 DEF Unlinked
<1>8. CASE nodes[i].links # 1
  <2>1. st.nodes = ms /\ st.space = space
    BY <1>3, <1>5, <1>8
  <2> HIDE DEF st, last
  <2>2. nodes' = [nodes EXCEPT ![i] = Raised(nodes[i], -1), ![p] = Shorter(p, k)]
    <3> HIDE DEF ms
    <3>1. nodes' = [ms EXCEPT ![p] = Shorter(p, k)]
      BY <1>2, <1>4, <1>6, <2>1
    <3> QED
      BY <3>1 DEF ms
  <2>3. nodes[i].links > 1
    BY <1>1, <1>8
  <2> QED
    BY <1>2, <1>5, <1>8, <2>1, <2>2, <2>3 DEF Unlinked
<1> QED
  BY <1>2, <1>7, <1>8

\* An inode that another names has a link.
LEMMA NamedHasLink ==
    ASSUME Inv, NEW p \in used, NEW k \in 1 .. Len(nodes[p].items),
           NEW i, i = nodes[p].items[k].id, i # p
    PROVE  nodes[i].links # 0
<1>1. i \in used /\ TypeOK /\ nodes[i].links >= Refs(i)
  BY EntryFacts
<1>2. <<p, k>> \in RefSet(i)
  BY <1>1, PlacesAre DEF RefSet, EntryAt
<1>3. IsFiniteSet(RefSet(i)) /\ Cardinality(RefSet(i)) \in Nat
  BY <1>1, PlacesAre, FS_Subset, FS_CardinalityType DEF RefSet
<1>4. Cardinality(RefSet(i)) # 0
  BY <1>2, <1>3, FS_EmptySet
<1> QED
  BY <1>1, <1>3, <1>4, RefsIs

\* remove_diritem that is not refused has this effect, on an entry that is no dot.
LEMMA RemovalEffect ==
    ASSUME Inv, NEW p \in used, NEW n \in AnyName, NEW op, RemoveDirItem(p, n, op)
    PROVE  ret' = op /\ \E k \in Below(p) : Removed(p, k)
<1> DEFINE k == FirstEntry(nodes[p], n)
           i == nodes[p].items[k].id
<1>1. /\ Typed /\ TypeOK /\ nodes \in [Inode -> INode] /\ p \in Inode /\ nodes[p] \in INode
      /\ DOMAIN nodes[p].items = 1 .. Len(nodes[p].items) /\ Len(nodes[p].items) \in Nat
  BY EntryFacts, Bounds DEF Typed
<1>2. /\ n \notin {Dot, DotDot} /\ Has(nodes[p], n)
      /\ nodes[i].type = "Directory" => Len(nodes[i].items) = 2
  BY DEF RemoveDirItem, Removable, Target, IsDirEmpty
<1>3. k \in 1 .. Len(nodes[p].items) /\ nodes[p].items[k].name = n
  BY <1>1, <1>2, FirstEntryIs
<1>4. k \in Below(p) /\ i \in used /\ i # Root /\ nodes[p].type = "Directory"
  <2>1. n \in Name
    BY <1>2 DEF AnyName
  <2>2. k >= 3 /\ i \in used /\ nodes[p].type = "Directory"
    BY <1>3, <2>1, EntryFacts
  <2>3. k \in Below(p)
    BY <1>1, <1>3, <2>2 DEF Below
  <2> QED
    BY <2>2, <2>3 DEF Inv, OneParent
<1>5. i # p
  BY <1>1, <1>2, <1>3, <1>4 DEF Below
<1>6. i \in Inode /\ nodes[i].links # 0
  <2>1. i \in Inode
    BY <1>1, <1>4 DEF Typed
  <2>2. nodes[i].links # 0
    BY <1>3, <1>5, NamedHasLink
  <2> QED
    BY <2>1, <2>2
<1>7. ret' = op /\ Unlinked(p, k)
  <2>1. p \in Inode /\ i # p /\ nodes[i].links # 0 /\ i \in Inode
    BY <1>1, <1>5, <1>6
  <2> QED
    BY <1>1, <2>1, RemovalIs
<1>8. Removed(p, k)
  BY <1>2, <1>4, <1>5, <1>7 DEF Removed
<1> QED
  BY <1>4, <1>7, <1>8

-----------------------------------------------------------------------------
\* A new file system.
Fresh ==
    /\ used = {Root} /\ nodes = NewRoot
    /\ free_inodes = InodeCount - 1 /\ space = TotalSpace

\* A step that leaves every entry where it is: an operation that is refused, a
\* directory that could not be entered, or a file that moves to a data block.
Kept ==
    /\ UNCHANGED <<used, free_inodes>> /\ nodes' \in [Inode -> INode]
    /\ \A i \in Inode :
        /\ nodes'[i].type = nodes[i].type /\ nodes'[i].items = nodes[i].items
        /\ nodes'[i].links >= nodes[i].links
        /\ i \notin used => nodes'[i] = nodes[i]
    /\ \/ space' = space /\ \A i \in Inode : nodes'[i].storage = nodes[i].storage
       \/ /\ space > 0 /\ space' = space - 1 /\ ret' = "write"
          /\ \E f \in Inode :
                /\ nodes[f].storage = "Inline" /\ nodes'[f].storage = "Direct"
                /\ \A i \in Inode \ {f} : nodes'[i].storage = nodes[i].storage

MadeIn(p, n, i) ==
    \/ Created(p, n, i, NewFile, 0)
    \/ Created(p, n, i, Made("Directory", "Inline", 1, Dots(i, p)), 1)

\* One inode changes, and keeps its entries.
LEMMA KeptIs ==
    ASSUME Typed, NEW f \in used, NEW node \in INode, UNCHANGED <<used, free_inodes>>,
           node.type = nodes[f].type, node.items = nodes[f].items,
           node.links >= nodes[f].links,
           nodes' = [nodes EXCEPT ![f] = node],
           \/ space' = space /\ node.storage = nodes[f].storage
           \/ /\ space > 0 /\ space' = space - 1 /\ ret' = "write"
              /\ nodes[f].storage = "Inline" /\ node.storage = "Direct"
    PROVE  Kept
<1>1. nodes \in [Inode -> INode] /\ f \in Inode /\ used \subseteq Inode
  BY DEF Typed
<1>2. nodes' \in [Inode -> INode] /\ nodes'[f] = node
      /\ \A i \in Inode \ {f} : nodes'[i] = nodes[i]
  BY <1>1
<1>3. \A i \in Inode : nodes[i].links \in Nat
  BY <1>1, INodeFields
<1>4. \A i \in Inode :
        /\ nodes'[i].type = nodes[i].type /\ nodes'[i].items = nodes[i].items
        /\ nodes'[i].links >= nodes[i].links
        /\ i \notin used => nodes'[i] = nodes[i]
  BY <1>2, <1>3
<1>5. \/ space' = space /\ \A i \in Inode : nodes'[i].storage = nodes[i].storage
      \/ /\ space > 0 /\ space' = space - 1 /\ ret' = "write"
         /\ nodes[f].storage = "Inline" /\ nodes'[f].storage = "Direct"
         /\ \A i \in Inode \ {f} : nodes'[i].storage = nodes[i].storage
  BY <1>2
<1> QED
  BY <1>1, <1>2, <1>4, <1>5 DEF Kept

\* A refused operation keeps everything,
LEMMA UnchangedKept ==
    ASSUME Typed, UNCHANGED <<used, nodes, free_inodes, space>>
    PROVE  Kept
<1>1. \A i \in Inode : nodes[i].links \in Nat
  BY INodeFields DEF Typed
<1> QED
  BY <1>1 DEF Kept, Typed

\* a creation that was undone all but a link of the parent,
LEMMA NotCreatedKept ==
    ASSUME Typed, NEW p \in used, NEW more \in {0, 1}, NotCreated(p, more)
    PROVE  Kept
<1>1. nodes[p].links \in Nat /\ more \in Nat
  BY INodeFields DEF Typed
<1>2. /\ Raised(nodes[p], more) \in INode /\ UNCHANGED <<used, free_inodes, space>>
      /\ nodes' = [nodes EXCEPT ![p] = Raised(nodes[p], more)]
  BY DEF NotCreated
<1>3. /\ Raised(nodes[p], more).type = nodes[p].type
      /\ Raised(nodes[p], more).items = nodes[p].items
      /\ Raised(nodes[p], more).storage = nodes[p].storage
      /\ Raised(nodes[p], more).links >= nodes[p].links
  BY <1>1 DEF Raised, Made
<1> QED
  BY <1>2, <1>3, KeptIs

\* and a growing file its place in the tree.
LEMMA GrowFileKept ==
    ASSUME Typed, NEW f \in used, GrowFile(f)
    PROVE  Kept
<1>1. nodes[f] \in INode /\ nodes[f].links \in Nat
  BY INodeFields DEF Typed
<1>2. CASE space > 0
  <2> DEFINE node == Made(nodes[f].type, "Direct", nodes[f].links, nodes[f].items)
  <2>1. [nodes EXCEPT ![f].storage = "Direct"]
          = [nodes EXCEPT ![f] = [nodes[f] EXCEPT !.storage = "Direct"]]
    OBVIOUS
  <2>2. [nodes[f] EXCEPT !.storage = "Direct"] = node
    BY <1>1, MadeStorage
  <2>3. nodes' = [nodes EXCEPT ![f] = node]
    BY <1>2, <2>1, <2>2 DEF GrowFile
  <2>4. /\ node.type = nodes[f].type /\ node.items = nodes[f].items
        /\ node.links >= nodes[f].links /\ node.storage = "Direct"
    BY <1>1 DEF Made
  <2>5. node \in INode
    BY <1>1, INodeFields DEF Made, INode
  <2>6. /\ UNCHANGED <<used, free_inodes>> /\ space' = space - 1 /\ ret' = "write"
        /\ nodes[f].storage = "Inline"
    BY <1>2 DEF GrowFile
  <2> HIDE DEF node
  <2> QED
    BY <1>1, <1>2, <2>3, <2>4, <2>5, <2>6, KeptIs
<1>3. CASE ~(space > 0)
  BY <1>3, UnchangedKept DEF GrowFile
<1> QED
  BY <1>2, <1>3

\* The four kinds of steps.
LEMMA StepEffect ==
    ASSUME Inv, [Next]_vars
    PROVE  \/ Fresh' /\ ret' = "format"
           \/ Kept
           \/ /\ ret' \in {"touch", "mkdir"}
              /\ \E p \in used, n \in AnyName, i \in Inode : MadeIn(p, n, i)
           \/ /\ ret' \in {"rm", "rmdir"}
              /\ \E p \in used : \E k \in Below(p) : Removed(p, k)
<1>1. Typed /\ FreeInodesBlank
  BY EntryFacts DEF Inv
<1>2. CASE UNCHANGED vars
  BY <1>1, <1>2, UnchangedKept DEF vars
<1>3. CASE Format
  BY <1>3, RootDirIs DEF Format, Fresh
<1>4. ASSUME NEW f \in Resolvable, GrowFile(f)
      PROVE  Kept
  BY <1>1, <1>4, ResolvableUsed, GrowFileKept
<1>5. ASSUME NEW p \in Resolvable, NEW n \in AnyName,
             CreateRefused(p, n) \/ RemoveRefused(p, n)
      PROVE  Kept
  BY <1>1, <1>5, UnchangedKept DEF CreateRefused, RemoveRefused
<1>6. ASSUME NEW p \in Resolvable, NEW n \in AnyName, CreateFile(p, n)
      PROVE  \/ ret' \in {"touch", "mkdir"} /\ \E i \in Inode : MadeIn(p, n, i)
             \/ Kept
  <2>1. p \in used
    BY ResolvableUsed
  <2>2. \/ Created(p, n, NextInode, NewFile, 0) /\ ret' = "touch"
        \/ NotCreated(p, 0)
    BY <1>1, <1>6, <2>1, CreateFileEffect
  <2>3. NotCreated(p, 0) => Kept
    BY <1>1, <2>1, NotCreatedKept
  <2> QED
    BY <2>2, <2>3 DEF MadeIn, Created
<1>7. ASSUME NEW p \in Resolvable, NEW n \in AnyName, CreateDir(p, n)
      PROVE  \/ ret' \in {"touch", "mkdir"} /\ \E i \in Inode : MadeIn(p, n, i)
             \/ Kept
  <2>1. p \in used
    BY ResolvableUsed
  <2>2. \/ /\ Created(p, n, NextInode, Made("Directory", "Inline", 1, Dots(NextInode, p)), 1)
           /\ ret' = "mkdir"
        \/ NotCreated(p, 1)
    BY <1>1, <1>7, <2>1, CreateDirEffect
  <2>3. NotCreated(p, 1) => Kept
    BY <1>1, <2>1, NotCreatedKept
  <2> QED
    BY <2>2, <2>3 DEF MadeIn, Created
<1>8. ASSUME NEW p \in Resolvable, NEW n \in AnyName, RemoveFile(p, n) \/ RemoveDir(p, n)
      PROVE  ret' \in {"rm", "rmdir"} /\ \E k \in Below(p) : Removed(p, k)
  <2>1. RemoveDirItem(p, n, "rm") \/ RemoveDirItem(p, n, "rmdir")
    BY <1>8 DEF RemoveFile, RemoveDir
  <2> QED
    BY <2>1, ResolvableUsed, RemovalEffect
<1> QED
  BY <1>2, <1>3, <1>4, <1>5, <1>6, <1>7, <1>8, ResolvableUsed DEF Next

-----------------------------------------------------------------------------
\* A new file system satisfies the invariant.
LEMMA FreshInv == Fresh => Inv
<1> SUFFICES ASSUME Fresh PROVE Inv
  OBVIOUS
<1> DEFINE root == Made("Directory", "Inline", 0, Dots(Root, Root))
<1>1. /\ InodeCount \in Nat \ {0} /\ TotalSpace \in Nat /\ MaxLinks \in Nat
      /\ BlockItems \in Nat /\ BlockItems >= 2 /\ Dot # DotDot
      /\ Dot \in AnyName /\ DotDot \in AnyName
  BY NamespaceAssumption DEF AnyName
<1>2. Root \in Inode /\ IsFiniteSet(Inode) /\ 0 \in 0 .. MaxLinks + 1
  BY <1>1, FS_Interval DEF Inode, Root
<1>3. /\ root.type = "Directory" /\ root.storage = "Inline" /\ root.links = 0
      /\ root.items = Dots(Root, Root)
  BY DEF Made
<1>4. /\ Blank.type = "File" /\ Blank.storage = "Inline" /\ Blank.links = 0 /\ Blank.items = <<>>
  BY DEF Blank
<1>5. /\ Item(Dot, Root) \in DirItem /\ Item(DotDot, Root) \in DirItem
      /\ Item(Dot, Root).name = Dot /\ Item(DotDot, Root).name = DotDot
      /\ Item(Dot, Root).id = Root /\ Item(DotDot, Root).id = Root
  BY <1>1, <1>2, ItemType DEF Item
<1>6. /\ Dots(Root, Root) \in Seq(DirItem) /\ Len(Dots(Root, Root)) = 2
      /\ Dots(Root, Root)[1] = Item(Dot, Root) /\ Dots(Root, Root)[2] = Item(DotDot, Root)
      /\ DOMAIN Dots(Root, Root) = {1, 2}
  BY <1>5 DEF Dots
<1>7. root \in INode
  BY <1>2, <1>6 DEF Made, INode
<1>8. Blank \in INode
  <2>1. <<>> \in Seq(DirItem)
    OBVIOUS
  <2> QED
    BY <1>2, <2>1 DEF Blank, INode
<1> HIDE DEF root
<1>9. /\ nodes \in [Inode -> INode] /\ nodes[Root] = root
      /\ \A i \in Inode \ {Root} : nodes[i] = Blank
  BY <1>2, <1>7, <1>8 DEF Fresh, NewRoot, root
<1>10. used = {Root}
  BY DEF Fresh
<1>11. TypeOK
  <2>1. \A i \in Inode : Len(nodes[i].items) <= BlockItems
    <3>1. Len(nodes[Root].items) = 2
      BY <1>3, <1>6, <1>9
    <3>2. \A i \in Inode \ {Root} : nodes[i].items = <<>>
      BY <1>4, <1>9
    <3>3. \A i \in Inode \ {Root} : Len(nodes[i].items) = 0
      BY <3>2
    <3>4. 2 <= BlockItems /\ 0 <= BlockItems
      BY <1>1
    <3> QED
      BY <3>1, <3>3, <3>4
  <2>2. free_inodes \in 0 .. InodeCount /\ space \in 0 .. TotalSpace
    BY <1>1 DEF Fresh
  <2> QED
    BY <1>2, <1>9, <1>10, <2>1, <2>2 DEF TypeOK
<1>12. CountersConserved
  <2>1. Cardinality(used) = 1
    BY <1>10, FS_Singleton
  <2>2. {i \in Inode : nodes[i].storage = "Direct"} = {}
    BY <1>3, <1>4, <1>9
  <2>3. Cardinality({i \in Inode : nodes[i].storage = "Direct"}) = 0
    BY <2>2, FS_EmptySet
  <2> QED
    BY <1>1, <1>11, <2>1, <2>3 DEF CountersConserved, Fresh
<1>13. FreeInodesBlank
  BY <1>9, <1>10 DEF FreeInodesBlank
<1>14. NamesUnique
  BY <1>1, <1>3, <1>5, <1>6, <1>9, <1>10 DEF NamesUnique
<1>15. NoDanglingEntry
  <2>1. \A x \in Places : x[1] = Root
    BY <1>10 DEF Places
  <2>2. RefSet(Root) = {}
    BY <2>1 DEF RefSet
  <2>3. Refs(Root) = 0
    BY <2>2, RefsIs, FS_EmptySet
  <2> QED
    BY <1>3, <1>5, <1>6, <1>9, <1>10, <2>3 DEF NoDanglingEntry
<1>16. Rooted /\ DirShape
  <2>1. /\ nodes[Root].type = "Directory" /\ Len(nodes[Root].items) = 2
        /\ nodes[Root].items[1] = Item(Dot, Root) /\ nodes[Root].items[2].name = DotDot
    BY <1>3, <1>5, <1>6, <1>9
  <2> QED
    BY <1>10, <2>1 DEF Rooted, DirShape
<1>17. OneParent
  BY <1>3, <1>6, <1>9, <1>10 DEF OneParent, Below
<1> QED
  BY <1>12, <1>13, <1>14, <1>15, <1>16, <1>17 DEF Inv

\* ... and so does what a step that moves no entry leaves.
LEMMA KeptInv ==
    ASSUME Inv, Kept
    PROVE  Inv'
<1>1. TypeOK /\ Typed
  BY EntryFacts
<1>2. /\ used \subseteq Inode /\ used' = used /\ Root \in Inode /\ IsFiniteSet(Inode)
      /\ \A i \in Inode : /\ nodes'[i].type = nodes[i].type /\ nodes'[i].items = nodes[i].items
                          /\ nodes[i].links \in Nat /\ nodes'[i].links >= nodes[i].links
                          /\ DOMAIN nodes[i].items = 1 .. Len(nodes[i].items)
                          /\ nodes'[i].links \in Nat
                          /\ \A k \in 1 .. Len(nodes[i].items) : nodes[i].items[k].id \in Inode
  BY <1>1, Bounds, INodeFields DEF Kept, Typed
<1>3. CountersConserved'
  <2> DEFINE D == {i \in Inode : nodes[i].storage = "Direct"}
  <2>1. IsFiniteSet(D) /\ Cardinality(D) \in Nat
    BY <1>2, FS_Subset, FS_CardinalityType
  <2>2. space + Cardinality(D) = TotalSpace /\ free_inodes + Cardinality(used) = InodeCount
    BY DEF Inv, CountersConserved
  <2>3. space' + Cardinality(D') = TotalSpace /\ space' \in 0 .. TotalSpace
    <3>1. CASE space' = space /\ \A i \in Inode : nodes'[i].storage = nodes[i].storage
      <4>1. D' = D
        BY <3>1
      <4> QED
        BY <1>1, <2>2, <3>1, <4>1 DEF TypeOK
    <3>2. CASE /\ space > 0 /\ space' = space - 1
               /\ \E f \in Inode :
                    /\ nodes[f].storage = "Inline" /\ nodes'[f].storage = "Direct"
                    /\ \A i \in Inode \ {f} : nodes'[i].storage = nodes[i].storage
      <4>1. PICK f \in Inode :
                /\ nodes[f].storage = "Inline" /\ nodes'[f].storage = "Direct"
                /\ \A i \in Inode \ {f} : nodes'[i].storage = nodes[i].storage
        BY <3>2
      <4>2. D' = D \cup {f} /\ f \notin D
        BY <4>1
      <4>3. Cardinality(D') = Cardinality(D) + 1
        BY <2>1, <4>2, FS_AddElement
      <4> QED
        BY <1>1, <2>1, <2>2, <3>2, <4>3, NamespaceAssumption DEF TypeOK
    <3> QED
      BY <3>1, <3>2 DEF Kept
  <2>4. free_inodes' = free_inodes /\ used' = used /\ nodes' \in [Inode -> INode]
    BY DEF Kept
  <2>5. TypeOK'
    BY <1>1, <1>2, <2>3, <2>4 DEF TypeOK
  <2> QED
    BY <2>2, <2>3, <2>4, <2>5 DEF CountersConserved
<1>4. FreeInodesBlank'
  BY DEF Inv, FreeInodesBlank, Kept
<1>5. NamesUnique'
  BY <1>2 DEF Inv, NamesUnique
<1>6. NoDanglingEntry'
  <2>1. \A x \in used \X (1 .. BlockItems) :
            x[1] \in used /\ nodes'[x[1]].items = nodes[x[1]].items
    BY <1>2
  <2>2. Places' = Places
    BY <1>2, <2>1 DEF Places
  <2>3. \A x \in Places : EntryAt(x)' = EntryAt(x)
    BY <2>1 DEF Places, EntryAt
  <2>4. \A i : RefSet(i)' = RefSet(i)
    BY <2>2, <2>3 DEF RefSet
  <2>5. \A i : Refs(i)' = Cardinality(RefSet(i)') /\ Refs(i) = Cardinality(RefSet(i))
    BY DEF Refs, RefSet
  <2>6. \A i : Refs(i)' = Refs(i)
    BY <2>4, <2>5
  <2>7. \A i : IsFiniteSet(RefSet(i)) /\ Refs(i) \in Nat
    BY <1>1, <2>5, PlacesAre, FS_Subset, FS_CardinalityType DEF RefSet
  <2>8. ASSUME NEW d \in used, NEW k \in 1 .. Len(nodes[d].items)
        PROVE  LET i == nodes[d].items[k].id IN i \in used /\ nodes'[i].links >= Refs(i)
    <3>1. nodes[d].items[k].id \in used
      BY EntryFacts
    <3>2. nodes[nodes[d].items[k].id].links >= Refs(nodes[d].items[k].id)
      BY <3>1, EntryFacts
    <3> QED
      BY <1>2, <2>7, <3>1, <3>2
  <2> QED
    BY <1>2, <2>6, <2>8 DEF NoDanglingEntry
<1>7. Rooted' /\ DirShape'
  BY <1>2 DEF Inv, Rooted, DirShape
<1>8. OneParent'
  <2>1. \A d \in used : Below(d)' = Below(d)
    BY <1>2 DEF Below
  <2>2. ASSUME NEW d \in used, NEW k \in Below(d)
        PROVE  /\ nodes'[d].items[k].id = nodes[d].items[k].id
               /\ nodes[d].items[k].id \in Inode
    BY <1>2, EntryFacts DEF Below
  <2>3. ASSUME NEW d \in used, NEW k \in Below(d)
        PROVE  LET i == nodes[d].items[k].id
               IN  /\ i # Root
                   /\ nodes'[i].type = "Directory" => nodes'[i].items[2].id = d
                   /\ \A e \in used : \A j \in Below(e) :
                        nodes[e].items[j].id = i => e = d /\ j = k
    <3> DEFINE i == nodes[d].items[k].id
    <3>1. /\ i # Root
          /\ nodes[i].type = "Directory" => nodes[i].items[2].id = d
          /\ \A e \in used : \A j \in Below(e) : nodes[e].items[j].id = i => e = d /\ j = k
      BY DEF Inv, OneParent
    <3>2. i \in Inode /\ nodes'[i].type = nodes[i].type /\ nodes'[i].items = nodes[i].items
      BY <1>2, <2>2
    <3> QED
      BY <3>1, <3>2
  <2> QED
    BY <1>2, <2>1, <2>2, <2>3 DEF OneParent
<1> QED
  BY <1>3, <1>4, <1>5, <1>6, <1>7, <1>8 DEF Inv

-----------------------------------------------------------------------------
\* A creation by positions: the new inode i, its parent p, and the name m the
\* entry got, if it got one.
Grown(p, i, m) ==
    /\ p \in used /\ i \in Inode \ used /\ i # p /\ i # Root
    /\ nodes[i] = Blank /\ m \in Name
    /\ used' = used \cup {i} /\ free_inodes' = free_inodes - 1
    /\ nodes' \in [Inode -> INode]
    /\ \A d \in Inode \ {i, p} : nodes'[d] = nodes[d]
    /\ nodes[p].type = "Directory" /\ nodes'[p].type = "Directory"
    /\ Len(nodes[p].items) \in Nat /\ Len(nodes[p].items) < BlockItems
    /\ \A k \in 1 .. Len(nodes[p].items) :
        nodes[p].items[k].name # m /\ nodes'[p].items[k] = nodes[p].items[k]
    /\ \/ Len(nodes'[p].items) = Len(nodes[p].items)
       \/ /\ Len(nodes'[p].items) = Len(nodes[p].items) + 1
          /\ nodes'[p].items[Len(nodes[p].items) + 1] = Item(m, i)
    /\ nodes'[i].storage = "Inline" /\ nodes'[i].links = 1
    /\ \/ /\ nodes'[i].type = "File" /\ nodes'[i].items = <<>>
          /\ nodes'[p].links = nodes[p].links
       \/ /\ nodes'[i].type = "Directory" /\ nodes'[i].items = Dots(i, p)
          /\ nodes'[p].links = nodes[p].links + 1
    /\ \/ space' = space /\ nodes'[p].storage = nodes[p].storage
       \/ /\ space > 0 /\ space' = space - 1
          /\ nodes[p].storage = "Inline" /\ nodes'[p].storage = "Direct"

\* The first two entries of a directory.
LEMMA DotsAre ==
    ASSUME NEW i \in Inode, NEW p \in Inode
    PROVE  /\ Dots(i, p) \in Seq(DirItem) /\ Len(Dots(i, p)) = 2
           /\ DOMAIN Dots(i, p) = {1, 2}
           /\ Dots(i, p)[1] = Item(Dot, i) /\ Dots(i, p)[2] = Item(DotDot, p)
<1>1. Item(Dot, i) \in DirItem /\ Item(DotDot, p) \in DirItem
  BY ItemType DEF AnyName
<1> QED
  BY <1>1 DEF Dots

\* The fields of an entry.
LEMMA ItemFields ==
    ASSUME NEW n, NEW i
    PROVE  Item(n, i).name = n /\ Item(n, i).id = i
  BY DEF Item

\* Every creation has this form: the stored name is new in the directory.
LEMMA CreatedGrown ==
    ASSUME Inv, NEW p \in used, NEW n \in AnyName, NEW i \in Inode, MadeIn(p, n, i)
    PROVE  Grown(p, i, Stored[n])
<1> DEFINE m == Stored[n]
           L == Len(nodes[p].items)
<1>1. /\ Typed /\ TypeOK /\ used \subseteq Inode /\ nodes \in [Inode -> INode] /\ p \in Inode
      /\ DOMAIN nodes[p].items = 1 .. L /\ L \in Nat /\ nodes[p].items \in Seq(DirItem)
      /\ 1 \in 0 .. MaxLinks + 1
  BY EntryFacts, Bounds, NamespaceAssumption DEF Typed
<1> DEFINE dir == Made("Directory", "Inline", 1, Dots(i, p))
<1> HIDE DEF dir
<1>2. PICK new \in {NewFile, dir}, more \in {0, 1} :
        /\ (new = NewFile /\ more = 0) \/ (new = dir /\ more = 1)
        /\ Created(p, n, i, new, more)
  <2>1. Created(p, n, i, NewFile, 0) \/ Created(p, n, i, dir, 1)
    BY DEF MadeIn, dir
  <2> QED
    BY <2>1
<1>3. /\ i \in Inode \ used /\ i # p /\ i # Root /\ nodes[i] = Blank
      /\ nodes[p].type = "Directory" /\ L < BlockItems
      /\ used' = used \cup {i} /\ free_inodes' = free_inodes - 1
  BY <1>2 DEF Created, Inv, Rooted, FreeInodesBlank
<1>4. \A k \in 1 .. L : nodes[p].items[k].name # n /\ nodes[p].items[k].name # m
  BY <1>1, <1>2 DEF Created, Has, Entries
<1>5. m \in Name
  <2>1. /\ L >= 2 /\ nodes[p].items[1] = Item(Dot, p) /\ nodes[p].items[2].name = DotDot
    BY <1>3 DEF Inv, DirShape
  <2>2. n # Dot /\ n # DotDot
    BY <1>1, <1>4, <2>1, ItemFields
  <2> QED
    BY <2>2, NamespaceAssumption DEF AnyName
<1>6. new \in INode /\ new.storage = "Inline" /\ new.links = 1
  <2>1. Dots(i, p) \in Seq(DirItem) /\ <<>> \in Seq(DirItem)
    BY <1>1, DotsAre
  <2>2. CASE new = NewFile
    BY <1>1, <2>1, <2>2 DEF NewFile, Made, INode
  <2>3. CASE new = Made("Directory", "Inline", 1, Dots(i, p))
    BY <1>1, <2>1, <2>3 DEF Made, INode
  <2> QED
    BY <1>2, <2>2, <2>3 DEF dir
<1>7. \/ new.type = "File" /\ new.items = <<>> /\ more = 0
      \/ new.type = "Directory" /\ new.items = Dots(i, p) /\ more = 1
  BY <1>2 DEF NewFile, Made, dir
<1>8. PICK parent \in INode :
        /\ nodes' = [nodes EXCEPT ![i] = new, ![p] = parent]
        /\ Linked(Raised(nodes[p], more), parent, n, i, space, space')
  BY <1>2 DEF Created
<1>9. /\ nodes' \in [Inode -> INode] /\ nodes'[i] = new /\ nodes'[p] = parent
      /\ \A d \in Inode \ {i, p} : nodes'[d] = nodes[d]
  BY <1>1, <1>3, <1>6, <1>8
<1>10. /\ Raised(nodes[p], more).items = nodes[p].items
       /\ Raised(nodes[p], more).storage = nodes[p].storage
       /\ Raised(nodes[p], more).links = nodes[p].links + more
  BY DEF Raised, Made
<1>11. parent.type = "Directory" /\ parent.links = nodes[p].links + more
  BY <1>8, <1>10 DEF Linked
<1>12. /\ \/ Len(parent.items) = L
          \/ Len(parent.items) = L + 1 /\ parent.items[L + 1] = Item(m, i)
       /\ \A k \in 1 .. L : parent.items[k] = nodes[p].items[k]
  <2>1. CASE parent.items = nodes[p].items
    BY <2>1
  <2>2. CASE parent.items = Append(nodes[p].items, Item(m, i))
    <3>1. Item(m, i) \in DirItem
      BY ItemType
    <3>2. /\ Len(Append(nodes[p].items, Item(m, i))) = L + 1
          /\ \A k \in 1 .. L : Append(nodes[p].items, Item(m, i))[k] = nodes[p].items[k]
          /\ Append(nodes[p].items, Item(m, i))[L + 1] = Item(m, i)
      BY <1>1, <3>1, AppendProperties
    <3> QED
      BY <2>2, <3>2
  <2> QED
    BY <1>8, <1>10, <2>1, <2>2 DEF Linked
<1>13. \/ space' = space /\ parent.storage = nodes[p].storage
       \/ /\ space > 0 /\ space' = space - 1
          /\ nodes[p].storage = "Inline" /\ parent.storage = "Direct"
  BY <1>8, <1>10 DEF Linked
<1>14. nodes[p].links + 0 = nodes[p].links
  BY <1>1, INodeFields
<1> QED
  BY <1>1, <1>3, <1>4, <1>5, <1>6, <1>7, <1>9, <1>11, <1>12, <1>13, <1>14 DEF Grown


\* A creation takes an inode and at most one block, and counts both.
LEMMA GrownCounters ==
    ASSUME Inv, NEW p, NEW i, NEW m, Grown(p, i, m)
    PROVE  CountersConserved'
<1> DEFINE D == {j \in Inode : nodes[j].storage = "Direct"}
<1>1. /\ TypeOK /\ Typed /\ IsFiniteSet(Inode) /\ IsFiniteSet(used) /\ p \in Inode /\ i \in Inode
      /\ i # p /\ i \notin used /\ used \subseteq Inode
  BY EntryFacts, Bounds DEF Typed, Grown
<1>2. /\ IsFiniteSet(D) /\ Cardinality(D) \in Nat /\ Cardinality(used) \in Nat
  BY <1>1, FS_Subset, FS_CardinalityType
<1>3. /\ free_inodes + Cardinality(used) = InodeCount
      /\ space + Cardinality(D) = TotalSpace
      /\ InodeCount \in Nat /\ TotalSpace \in Nat
      /\ space \in 0 .. TotalSpace /\ free_inodes \in 0 .. InodeCount
  BY <1>1, NamespaceAssumption DEF Inv, CountersConserved, TypeOK
<1>4. /\ IsFiniteSet(used') /\ Cardinality(used') = Cardinality(used) + 1
      /\ Cardinality(used') <= Cardinality(Inode)
  <2>1. used' = used \cup {i} /\ used' \subseteq Inode
    BY <1>1 DEF Grown
  <2> QED
    BY <1>1, <2>1, FS_AddElement, FS_Subset
<1>5. free_inodes' + Cardinality(used') = InodeCount /\ free_inodes' \in 0 .. InodeCount
  <2>1. Cardinality(Inode) = InodeCount
    BY <1>3, NamespaceAssumption, FS_Interval DEF Inode
  <2> QED
    BY <1>2, <1>3, <1>4, <2>1 DEF Grown
<1>6. space' + Cardinality(D') = TotalSpace /\ space' \in 0 .. TotalSpace
  <2>1. /\ nodes[i].storage = "Inline" /\ nodes'[i].storage = "Inline"
        /\ \A d \in Inode \ {i, p} : nodes'[d].storage = nodes[d].storage
    BY DEF Grown, Blank
  <2>2. CASE space' = space /\ nodes'[p].storage = nodes[p].storage
    <3>1. D' = D
      BY <1>1, <2>1, <2>2
    <3> QED
      BY <1>3, <2>2, <3>1
  <2>3. CASE /\ space > 0 /\ space' = space - 1
             /\ nodes[p].storage = "Inline" /\ nodes'[p].storage = "Direct"
    <3>1. D' = D \cup {p} /\ p \notin D
      BY <1>1, <2>1, <2>3
    <3>2. Cardinality(D') = Cardinality(D) + 1
      BY <1>2, <3>1, FS_AddElement
    <3> QED
      BY <1>2, <1>3, <2>3, <3>2
  <2> QED
    BY <2>2, <2>3 DEF Grown
<1>7. TypeOK'
  <2>1. nodes' \in [Inode -> INode] /\ used' \subseteq Inode
    BY <1>1 DEF Grown
  <2>2. Len(nodes'[p].items) <= BlockItems
    BY NamespaceAssumption DEF Grown
  <2>3. Len(nodes'[i].items) <= BlockItems
    <3>1. nodes'[i].items = <<>> \/ nodes'[i].items = Dots(i, p)
      BY DEF Grown
    <3>2. Len(<<>>) = 0 /\ Len(Dots(i, p)) = 2
      BY <1>1, DotsAre
    <3>3. 0 <= BlockItems /\ 2 <= BlockItems
      BY NamespaceAssumption
    <3> QED
      BY <3>1, <3>2, <3>3
  <2>4. \A d \in Inode \ {i, p} : Len(nodes'[d].items) <= BlockItems
    BY <1>1 DEF TypeOK, Grown
  <2> QED
    BY <1>5, <1>6, <2>1, <2>2, <2>3, <2>4 DEF TypeOK
<1> QED
  BY <1>5, <1>6, <1>7 DEF CountersConserved

\* Where the entries are after a creation: the old ones, the one for i, and the
\* dots of i.
LEMMA GrownEntries ==
    ASSUME Inv, NEW p, NEW i, NEW m, Grown(p, i, m), NEW d \in used', NEW k \in DOMAIN nodes'[d].items
    PROVE  /\ k \in 1 .. Len(nodes'[d].items) /\ k \in Nat
           /\ \/ /\ d \in used /\ k \in 1 .. Len(nodes[d].items)
                 /\ nodes'[d].items[k] = nodes[d].items[k]
              \/ /\ d = p /\ k = Len(nodes[p].items) + 1 /\ k >= 3
                 /\ nodes'[d].items[k] = Item(m, i)
              \/ /\ d = i /\ nodes'[i].type = "Directory" /\ k = 1
                 /\ nodes'[d].items[k] = Item(Dot, i)
              \/ /\ d = i /\ nodes'[i].type = "Directory" /\ k = 2
                 /\ nodes'[d].items[k] = Item(DotDot, p)
                 /\ nodes'[p].links = nodes[p].links + 1
<1>1. /\ TypeOK /\ Typed /\ p \in used /\ p \in Inode /\ i \in Inode /\ i # p /\ i \notin used
      /\ used \subseteq Inode /\ used' = used \cup {i} /\ d \in Inode
  BY EntryFacts DEF Typed, Grown
<1>2. nodes'[d].items \in Seq(DirItem)
  BY <1>1, INodeFields DEF Grown
<1>3. k \in 1 .. Len(nodes'[d].items) /\ k \in Nat
  BY <1>2
<1>4. CASE d = i
  <2>1. nodes'[i].items # <<>>
    BY <1>3, <1>4
  <2>2. /\ nodes'[i].items = Dots(i, p) /\ nodes'[i].type = "Directory"
        /\ nodes'[p].links = nodes[p].links + 1
    BY <2>1 DEF Grown
  <2>3. k = 1 \/ k = 2
    BY <1>1, <1>4, <2>2, DotsAre
  <2> QED
    BY <1>1, <1>3, <1>4, <2>2, <2>3, DotsAre
<1>5. CASE d = p
  <2>1. Len(nodes[p].items) >= 2 /\ Len(nodes[p].items) \in Nat
    BY <1>1 DEF Inv, DirShape, Grown
  <2>2. CASE k \in 1 .. Len(nodes[p].items)
    BY <1>1, <1>3, <1>5, <2>2 DEF Grown
  <2>3. CASE k \notin 1 .. Len(nodes[p].items)
    BY <1>3, <1>5, <2>1, <2>3 DEF Grown
  <2> QED
    BY <2>2, <2>3
<1>6. CASE d # i /\ d # p
  BY <1>1, <1>3, <1>6 DEF Grown
<1> QED
  BY <1>4, <1>5, <1>6

\* A creation leaves free inodes blank and names unique.
LEMMA GrownNames ==
    ASSUME Inv, NEW p, NEW i, NEW m, Grown(p, i, m)
    PROVE  FreeInodesBlank' /\ NamesUnique'
<1>1. /\ TypeOK /\ p \in used /\ p \in Inode /\ i \in Inode /\ i # p /\ i \notin used
      /\ used \subseteq Inode /\ used' = used \cup {i}
      /\ \A d \in used : DOMAIN nodes[d].items = 1 .. Len(nodes[d].items)
  BY EntryFacts, Bounds DEF Typed, Grown
<1>2. FreeInodesBlank'
  BY <1>1 DEF Inv, FreeInodesBlank, Grown
<1>3. ASSUME NEW d \in used', NEW j \in DOMAIN nodes'[d].items, NEW k \in DOMAIN nodes'[d].items,
             nodes'[d].items[j].name = nodes'[d].items[k].name
      PROVE  j = k
  <2>1. Dot # DotDot
    BY NamespaceAssumption
  <2>2. CASE d = i
    BY <1>1, <1>3, <2>1, <2>2, GrownEntries, ItemFields
  <2>3. CASE d # i
    <3>1. \A l \in DOMAIN nodes'[d].items :
            \/ /\ l \in DOMAIN nodes[d].items
               /\ nodes'[d].items[l] = nodes[d].items[l]
            \/ /\ d = p /\ l = Len(nodes[p].items) + 1 /\ nodes'[d].items[l].name = m
      BY <1>1, <2>3, GrownEntries, ItemFields
    <3>2. d = p => \A l \in DOMAIN nodes[d].items : nodes[d].items[l].name # m
      BY <1>1 DEF Grown
    <3>3. \A x, y \in DOMAIN nodes[d].items : nodes[d].items[x].name = nodes[d].items[y].name => x = y
      BY <1>1, <2>3 DEF Inv, NamesUnique
    <3> QED
      BY <1>3, <3>1, <3>2, <3>3
  <2> QED
    BY <2>2, <2>3
<1> QED
  BY <1>2, <1>3 DEF NamesUnique


\* A new entry is covered by a link: i has its first, p one more for "..".
LEMMA GrownRefs ==
    ASSUME Inv, NEW p, NEW i, NEW m, Grown(p, i, m), NEW j \in used'
    PROVE  nodes'[j].links >= Refs(j)'
<1>1. /\ TypeOK /\ p \in used /\ p \in Inode /\ i \in Inode /\ i # p /\ i \notin used
      /\ used \subseteq Inode /\ used' = used \cup {i} /\ j \in Inode
      /\ \A d \in used : DOMAIN nodes[d].items = 1 .. Len(nodes[d].items)
      /\ nodes[j] \in INode /\ TypeOK'
  BY EntryFacts, Bounds, GrownCounters DEF Typed, Grown, CountersConserved
<1>2. Refs(j)' = Cardinality(RefSet(j)') /\ Refs(j) = Cardinality(RefSet(j))
  BY DEF Refs, RefSet
<1>3. IsFiniteSet(RefSet(j)) /\ Cardinality(RefSet(j)) \in Nat
  BY <1>1, PlacesAre, FS_Subset, FS_CardinalityType DEF RefSet
<1>4. ASSUME NEW x \in RefSet(j)'
      PROVE  LET d == x[1]
                 k == x[2]
             IN  /\ x = <<d, k>> /\ d \in used' /\ k \in DOMAIN nodes'[d].items
                 /\ nodes'[d].items[k].id = j /\ d # j
  BY DEF RefSet, Places, EntryAt
<1>5. CASE j = i
  <2>1. RefSet(j)' \subseteq {<<p, Len(nodes[p].items) + 1>>}
    <3> SUFFICES ASSUME NEW x \in RefSet(j)'
                 PROVE  x = <<p, Len(nodes[p].items) + 1>>
      OBVIOUS
    <3> DEFINE d == x[1]
               k == x[2]
    <3>1. /\ x = <<d, k>> /\ d \in used' /\ k \in DOMAIN nodes'[d].items
          /\ nodes'[d].items[k].id = j /\ d # j
      BY <1>4
    <3> HIDE DEF d, k
    <3>2. \A l \in 1 .. Len(nodes[d].items) : d \in used => nodes[d].items[l].id \in used
      BY EntryFacts
    <3>3. d = p /\ k = Len(nodes[p].items) + 1
      BY <1>1, <1>5, <3>1, <3>2, GrownEntries, ItemFields
    <3> QED
      BY <3>1, <3>3
  <2>2. Cardinality(RefSet(j)') <= 1
    <3> DEFINE one == <<p, Len(nodes[p].items) + 1>>
    <3> HIDE DEF one
    <3>1. IsFiniteSet({one}) /\ Cardinality({one}) = 1 /\ RefSet(j)' \subseteq {one}
      BY <2>1, FS_Singleton DEF one
    <3>2. Cardinality(RefSet(j)') <= Cardinality({one})
      BY <3>1, FS_Subset
    <3> QED
      BY <3>1, <3>2
  <2> QED
    BY <1>2, <1>5, <2>2 DEF Grown
<1>6. CASE j # i
  <2> DEFINE up == nodes'[p].links = nodes[p].links + 1
  <2>1. ASSUME NEW x \in RefSet(j)'
        PROVE  x \in RefSet(j) \/ (j = p /\ up /\ x = <<i, 2>>)
    <3> DEFINE d == x[1]
               k == x[2]
    <3>1. /\ x = <<d, k>> /\ d \in used' /\ k \in DOMAIN nodes'[d].items
          /\ nodes'[d].items[k].id = j /\ d # j
      BY <1>4
    <3> HIDE DEF d, k
    <3>2. \/ d \in used /\ k \in 1 .. Len(nodes[d].items) /\ nodes[d].items[k].id = j
          \/ d = i /\ k = 2 /\ j = p /\ up
      BY <1>1, <1>6, <3>1, GrownEntries, ItemFields
    <3>3. CASE d \in used /\ k \in 1 .. Len(nodes[d].items) /\ nodes[d].items[k].id = j
      <4>1. <<d, k>> \in Places
        BY <1>1, <3>3, PlacesAre
      <4> QED
        BY <3>1, <3>3, <4>1 DEF RefSet, EntryAt
    <3> QED
      BY <3>1, <3>2, <3>3
  <2>2. nodes[j].links \in Nat /\ nodes[j].links >= Refs(j)
    BY <1>1, <1>6, EntryFacts, INodeFields
  <2>3. CASE j = p /\ up
    <3>1. RefSet(j)' \subseteq RefSet(j) \cup {<<i, 2>>}
      BY <2>1
    <3>2. /\ IsFiniteSet(RefSet(j) \cup {<<i, 2>>})
          /\ Cardinality(RefSet(j) \cup {<<i, 2>>}) <= Cardinality(RefSet(j)) + 1
          /\ Cardinality(RefSet(j) \cup {<<i, 2>>}) \in Nat
      <4> DEFINE one == <<i, 2>>
      <4> HIDE DEF one
      <4>1. /\ IsFiniteSet(RefSet(j) \cup {one})
            /\ Cardinality(RefSet(j) \cup {one})
                 = IF one \in RefSet(j) THEN Cardinality(RefSet(j)) ELSE Cardinality(RefSet(j)) + 1
        BY <1>3, FS_AddElement
      <4>2. /\ Cardinality(RefSet(j) \cup {one}) <= Cardinality(RefSet(j)) + 1
            /\ Cardinality(RefSet(j) \cup {one}) \in Nat
        BY <1>3, <4>1
      <4> QED
        BY <4>1, <4>2 DEF one
    <3>3. /\ Cardinality(RefSet(j)') <= Cardinality(RefSet(j) \cup {<<i, 2>>})
          /\ Cardinality(RefSet(j)') \in Nat
      BY <3>1, <3>2, FS_Subset, FS_CardinalityType
    <3> QED
      BY <1>2, <1>3, <2>2, <2>3, <3>2, <3>3
  <2>4. CASE ~(j = p /\ up)
    <3>1. RefSet(j)' \subseteq RefSet(j)
      BY <2>1, <2>4
    <3>2. Cardinality(RefSet(j)') <= Cardinality(RefSet(j)) /\ Cardinality(RefSet(j)') \in Nat
      BY <1>3, <3>1, FS_Subset, FS_CardinalityType
    <3>3. nodes'[j].links = nodes[j].links
      BY <1>1, <1>6, <2>4 DEF Grown
    <3> QED
      BY <1>2, <1>3, <2>2, <3>2, <3>3
  <2> QED
    BY <2>3, <2>4
<1> QED
  BY <1>5, <1>6

\* The links after a creation: the old ones, and at most the one to i.
LEMMA GrownBelow ==
    ASSUME Inv, NEW p, NEW i, NEW m, Grown(p, i, m), NEW d \in used', NEW k \in Below(d)'
    PROVE  \/ d \in used /\ k \in Below(d) /\ nodes'[d].items[k] = nodes[d].items[k]
           \/ d = p /\ k = Len(nodes[p].items) + 1 /\ nodes'[d].items[k] = Item(m, i)
<1>1. /\ i \in Inode /\ used \subseteq Inode /\ used' = used \cup {i}
      /\ nodes' \in [Inode -> INode]
      /\ \A e \in used : Len(nodes[e].items) \in Nat
  BY EntryFacts, Bounds DEF Typed, Grown
<1>2. k \in DOMAIN nodes'[d].items /\ k >= 3
  <2>1. nodes'[d] \in INode
    BY <1>1
  <2>2. nodes'[d].items \in Seq(DirItem)
    BY <2>1, INodeFields
  <2> QED
    BY <2>2 DEF Below
<1> QED
  BY <1>1, <1>2, GrownEntries DEF Below

\* A creation keeps the invariant.
LEMMA GrownInv ==
    ASSUME Inv, NEW p, NEW i, NEW m, Grown(p, i, m)
    PROVE  Inv'
<1>1. /\ TypeOK /\ p \in used /\ p \in Inode /\ i \in Inode /\ i # p /\ i \notin used
      /\ used \subseteq Inode /\ used' = used \cup {i} /\ i # Root
      /\ \A d \in used : DOMAIN nodes[d].items = 1 .. Len(nodes[d].items)
      /\ \A d \in used : Len(nodes[d].items) \in Nat
  BY EntryFacts, Bounds DEF Typed, Grown
<1>2. NoDanglingEntry'
  <2>1. ASSUME NEW d \in used', NEW k \in DOMAIN nodes'[d].items
        PROVE  nodes'[d].items[k].id \in used'
    BY <1>1, <2>1, GrownEntries, EntryFacts, ItemFields
  <2> QED
    BY <2>1, GrownRefs DEF NoDanglingEntry
<1>3. \A d \in used \ {p} : nodes'[d] = nodes[d]
  BY <1>1 DEF Grown
<1>4. Rooted'
  BY <1>1, <1>3 DEF Inv, Rooted, Grown
<1>5. DirShape'
  <2>1. ASSUME NEW d \in used'
        PROVE  IF nodes'[d].type = "Directory"
               THEN /\ Len(nodes'[d].items) >= 2
                    /\ nodes'[d].items[1] = Item(Dot, d) /\ nodes'[d].items[2].name = DotDot
               ELSE nodes'[d].items = <<>>
    <3>1. CASE d = i
      BY <1>1, <3>1, DotsAre, ItemFields DEF Grown
    <3>2. CASE d = p
      <4>1. /\ Len(nodes[p].items) >= 2
            /\ nodes[p].items[1] = Item(Dot, p) /\ nodes[p].items[2].name = DotDot
        BY <1>1 DEF Inv, DirShape, Grown
      <4>2. 1 \in 1 .. Len(nodes[p].items) /\ 2 \in 1 .. Len(nodes[p].items)
        BY <1>1, <4>1
      <4>3. /\ nodes'[p].items[1] = nodes[p].items[1] /\ nodes'[p].items[2] = nodes[p].items[2]
            /\ nodes'[p].type = "Directory" /\ Len(nodes'[p].items) >= 2
        BY <1>1, <4>1, <4>2 DEF Grown
      <4> QED
        BY <3>2, <4>1, <4>3
    <3>3. CASE d \in used \ {p}
      BY <1>3, <3>3 DEF Inv, DirShape
    <3> QED
      BY <1>1, <3>1, <3>2, <3>3
  <2> QED
    BY <2>1 DEF DirShape
<1>6. ASSUME NEW d \in used', NEW k \in Below(d)'
      PROVE  \/ d \in used /\ k \in Below(d) /\ nodes'[d].items[k] = nodes[d].items[k]
             \/ d = p /\ k = Len(nodes[p].items) + 1 /\ nodes'[d].items[k].id = i
  BY GrownBelow, ItemFields
<1>7. OneParent'
  <2>1. ASSUME NEW d \in used', NEW k \in Below(d)'
        PROVE  LET t == nodes'[d].items[k].id
               IN  /\ t # Root
                   /\ nodes'[t].type = "Directory" => nodes'[t].items[2].id = d
                   /\ \A e \in used' : \A j \in Below(e)' :
                        nodes'[e].items[j].id = t => e = d /\ j = k
    <3> DEFINE t == nodes'[d].items[k].id
    <3>1. CASE d \in used /\ k \in Below(d) /\ nodes'[d].items[k] = nodes[d].items[k]
      <4>1. t \in used /\ t # i
        <5>1. k \in 1 .. Len(nodes[d].items)
          BY <1>1, <3>1 DEF Below
        <5> QED
          BY <1>1, <3>1, <5>1, EntryFacts
      <4>2. /\ t # Root /\ (nodes[t].type = "Directory" => nodes[t].items[2].id = d)
            /\ \A e \in used : \A j \in Below(e) : nodes[e].items[j].id = t => e = d /\ j = k
        BY <3>1 DEF Inv, OneParent
      <4>3. nodes'[t].type = nodes[t].type
            /\ (nodes[t].type = "Directory" => nodes'[t].items[2] = nodes[t].items[2])
        <5>1. CASE t = p
          <6>1. Len(nodes[p].items) >= 2 /\ Len(nodes[p].items) \in Nat
            BY <1>1 DEF Inv, DirShape, Grown
          <6>2. 2 \in 1 .. Len(nodes[p].items)
            BY <6>1
          <6> QED
            BY <5>1, <6>2 DEF Grown
        <5>2. CASE t # p
          BY <1>3, <4>1, <5>2
        <5> QED
          BY <5>1, <5>2
      <4> QED
        BY <1>6, <4>1, <4>2, <4>3
    <3>2. CASE d = p /\ k = Len(nodes[p].items) + 1 /\ t = i
      <4>1. nodes'[i].type = "Directory" => nodes'[i].items[2].id = p
        BY <1>1, DotsAre, ItemFields DEF Grown
      <4>2. \A e \in used : \A j \in Below(e) : nodes[e].items[j].id # i
        <5>1. \A e \in used : \A j \in Below(e) : j \in 1 .. Len(nodes[e].items)
          BY <1>1 DEF Below
        <5> QED
          BY <1>1, <5>1, EntryFacts
      <4> QED
        BY <1>1, <1>6, <3>2, <4>1, <4>2
    <3> QED
      BY <1>6, <3>1, <3>2
  <2> QED
    BY <2>1 DEF OneParent
<1> QED
  BY <1>2, <1>4, <1>5, <1>7, GrownCounters, GrownNames DEF Inv

-----------------------------------------------------------------------------
\* A removal by positions: the entry k of p, which names i, is gone, and the
\* last entry of p is in its place.
Cut(p, k, i) ==
    /\ p \in used /\ k \in Below(p) /\ i = nodes[p].items[k].id
    /\ i \in used /\ i # Root /\ i # p
    /\ nodes[i].type = "Directory" => Len(nodes[i].items) = 2
    /\ nodes' \in [Inode -> INode]
    /\ \A d \in Inode \ {i, p} : nodes'[d] = nodes[d]
    /\ nodes'[p].type = nodes[p].type /\ nodes'[p].storage = nodes[p].storage
    /\ nodes'[p].links = nodes[p].links
    /\ Len(nodes'[p].items) = Len(nodes[p].items) - 1
    /\ \A j \in 1 .. Len(nodes[p].items) - 1 :
        nodes'[p].items[j] = nodes[p].items[IF j = k THEN Len(nodes[p].items) ELSE j]
    /\ \/ /\ nodes[i].links = 1 /\ used' = used \ {i} /\ free_inodes' = free_inodes + 1
          /\ nodes'[i] = Blank
          /\ space' = IF nodes[i].storage = "Direct" THEN space + 1 ELSE space
       \/ /\ nodes[i].links > 1 /\ UNCHANGED <<used, free_inodes, space>>
          /\ nodes'[i].type = nodes[i].type /\ nodes'[i].items = nodes[i].items
          /\ nodes'[i].storage = nodes[i].storage /\ nodes'[i].links = nodes[i].links - 1

\* Every removal has this form.
LEMMA RemovedCut ==
    ASSUME Inv, NEW p \in used, NEW k \in Below(p), Removed(p, k)
    PROVE  Cut(p, k, nodes[p].items[k].id)
<1> DEFINE i == nodes[p].items[k].id
           L == Len(nodes[p].items)
<1>1. /\ nodes \in [Inode -> INode] /\ used \subseteq Inode /\ p \in Inode
      /\ nodes[p].items \in Seq(DirItem) /\ L \in Nat /\ k \in 1 .. L
  BY EntryFacts, Bounds DEF Typed, Below
<1>2. /\ i \in used /\ i # Root /\ i # p
      /\ nodes[i].type = "Directory" => Len(nodes[i].items) = 2
  BY DEF Removed
<1>3. /\ WithoutEntry(nodes[p].items, k) \in Seq(DirItem)
      /\ Len(WithoutEntry(nodes[p].items, k)) = L - 1
      /\ \A j \in 1 .. L - 1 :
            WithoutEntry(nodes[p].items, k)[j] = nodes[p].items[IF j = k THEN L ELSE j]
  BY <1>1, WithoutEntryIs
<1>4. /\ Shorter(p, k).type = nodes[p].type /\ Shorter(p, k).storage = nodes[p].storage
      /\ Shorter(p, k).links = nodes[p].links
      /\ Shorter(p, k).items = WithoutEntry(nodes[p].items, k)
  BY DEF Shorter, Made
<1>5. Shorter(p, k) \in INode
  BY <1>1, <1>3, INodeFields DEF Shorter, Made, INode
<1>6. Blank \in INode
  <2>1. <<>> \in Seq(DirItem) /\ 0 \in 0 .. MaxLinks + 1
    BY NamespaceAssumption
  <2> QED
    BY <2>1 DEF Blank, INode
<1> HIDE DEF i, L
<1>7. CASE /\ nodes[i].links = 1
           /\ used' = used \ {i} /\ free_inodes' = free_inodes + 1
           /\ nodes' = [nodes EXCEPT ![i] = Blank, ![p] = Shorter(p, k)]
           /\ space' = IF nodes[i].storage = "Direct" THEN space + 1 ELSE space
  <2>1. /\ nodes' \in [Inode -> INode] /\ nodes'[i] = Blank /\ nodes'[p] = Shorter(p, k)
        /\ \A d \in Inode \ {i, p} : nodes'[d] = nodes[d]
    BY <1>1, <1>2, <1>5, <1>6, <1>7
  <2> QED
    BY <1>2, <1>3, <1>4, <1>7, <2>1 DEF Cut, i, L
<1>8. CASE /\ nodes[i].links > 1
           /\ UNCHANGED <<used, free_inodes, space>>
           /\ nodes' = [nodes EXCEPT ![i] = Raised(nodes[i], -1), ![p] = Shorter(p, k)]
  <2>1. i \in Inode /\ nodes[i] \in INode /\ nodes[i].links \in 0 .. MaxLinks + 1
        /\ MaxLinks \in Nat
    BY <1>1, <1>2, INodeFields, NamespaceAssumption
  <2>2. nodes[i].links + (-1) = nodes[i].links - 1 /\ nodes[i].links + (-1) \in 0 .. MaxLinks + 1
    BY <1>8, <2>1
  <2>3. /\ Raised(nodes[i], -1).type = nodes[i].type
        /\ Raised(nodes[i], -1).storage = nodes[i].storage
        /\ Raised(nodes[i], -1).items = nodes[i].items
        /\ Raised(nodes[i], -1).links = nodes[i].links - 1
    BY <2>2 DEF Raised, Made
  <2>4. Raised(nodes[i], -1) \in INode
    BY <2>1, <2>2, INodeFields DEF Raised, Made, INode
  <2>5. /\ nodes' \in [Inode -> INode] /\ nodes'[i] = Raised(nodes[i], -1)
        /\ nodes'[p] = Shorter(p, k)
        /\ \A d \in Inode \ {i, p} : nodes'[d] = nodes[d]
    BY <1>1, <1>2, <1>5, <1>8, <2>1, <2>4
  <2> QED
    BY <1>2, <1>3, <1>4, <1>8, <2>3, <2>5 DEF Cut, i, L
<1> QED
  BY <1>7, <1>8 DEF Removed, Unlinked, i

\* Where an entry was before the removal.
From(p, k, d, j) == IF d = p /\ j = k THEN Len(nodes[p].items) ELSE j

\* An entry that is left was in the same directory, each at a place of its own.
LEMMA CutEntries ==
    ASSUME Inv, NEW p, NEW k, NEW i, Cut(p, k, i)
    PROVE  /\ used' \subseteq used /\ i \in used /\ p \in used' /\ Root \in used'
           /\ \A d \in used' :
                /\ d \in used /\ nodes'[d].type = nodes[d].type
                /\ DOMAIN nodes'[d].items = 1 .. Len(nodes'[d].items)
                /\ Len(nodes'[d].items) \in Nat
                /\ d # p => nodes'[d].items = nodes[d].items
                /\ \A j \in 1 .. Len(nodes'[d].items) :
                    /\ From(p, k, d, j) \in 1 .. Len(nodes[d].items)
                    /\ nodes'[d].items[j] = nodes[d].items[From(p, k, d, j)]
                    /\ ~(d = p /\ From(p, k, d, j) = k)
                    /\ j >= 3 => From(p, k, d, j) >= 3
                    /\ j < 3 => From(p, k, d, j) = j
                    /\ \A l \in 1 .. Len(nodes'[d].items) :
                        From(p, k, d, j) = From(p, k, d, l) => j = l
<1>1. /\ nodes \in [Inode -> INode] /\ used \subseteq Inode /\ p \in used /\ p \in Inode
      /\ i \in used /\ i # p /\ i # Root /\ Root \in used
      /\ k \in Nat /\ Len(nodes[p].items) \in Nat /\ k \in 3 .. Len(nodes[p].items)
      /\ nodes' \in [Inode -> INode]
      /\ \A d \in used : Len(nodes[d].items) \in Nat
  <2>1. nodes \in [Inode -> INode] /\ used \subseteq Inode /\ TypeOK /\ Root \in used
    BY EntryFacts DEF Typed, Inv, Rooted
  <2>2. /\ p \in used /\ i \in used /\ i # p /\ i # Root /\ nodes' \in [Inode -> INode]
        /\ k \in 3 .. Len(nodes[p].items)
    BY DEF Cut, Below
  <2>3. \A d \in used : Len(nodes[d].items) \in Nat
    BY <2>1, Bounds
  <2> QED
    BY <2>1, <2>2, <2>3
<1>2. used' \subseteq used /\ p \in used' /\ Root \in used'
  BY <1>1 DEF Cut
<1>3. ASSUME NEW d \in used'
      PROVE  /\ d \in used /\ nodes'[d].type = nodes[d].type
             /\ DOMAIN nodes'[d].items = 1 .. Len(nodes'[d].items)
             /\ Len(nodes'[d].items) \in Nat
             /\ d # p => nodes'[d].items = nodes[d].items
             /\ \A j \in 1 .. Len(nodes'[d].items) :
                    /\ From(p, k, d, j) \in 1 .. Len(nodes[d].items)
                    /\ nodes'[d].items[j] = nodes[d].items[From(p, k, d, j)]
                    /\ ~(d = p /\ From(p, k, d, j) = k)
                    /\ j >= 3 => From(p, k, d, j) >= 3
                    /\ j < 3 => From(p, k, d, j) = j
                    /\ \A l \in 1 .. Len(nodes'[d].items) :
                        From(p, k, d, j) = From(p, k, d, l) => j = l
  <2>1. d \in used /\ d \in Inode
    BY <1>1, <1>2
  <2>2. nodes'[d] \in INode
    BY <1>1, <2>1
  <2>3. nodes'[d].items \in Seq(DirItem)
    BY <2>2, INodeFields
  <2>4. DOMAIN nodes'[d].items = 1 .. Len(nodes'[d].items) /\ Len(nodes'[d].items) \in Nat
    BY <2>3
  <2>5. CASE d = p
    <3>1. /\ Len(nodes'[p].items) = Len(nodes[p].items) - 1
          /\ \A j \in 1 .. Len(nodes[p].items) - 1 :
                nodes'[p].items[j] = nodes[p].items[IF j = k THEN Len(nodes[p].items) ELSE j]
          /\ nodes'[p].type = nodes[p].type
      BY DEF Cut
    <3> QED
      BY <1>1, <2>1, <2>4, <2>5, <3>1 DEF From
  <2>6. CASE d # p
    <3>1. nodes'[d].items = nodes[d].items /\ nodes'[d].type = nodes[d].type
      <4>1. CASE d = i
        BY <4>1 DEF Cut
      <4>2. CASE d # i
        BY <2>1, <2>6, <4>2 DEF Cut
      <4> QED
        BY <4>1, <4>2
    <3> QED
      BY <2>1, <2>4, <2>6, <3>1 DEF From
  <2> QED
    BY <2>5, <2>6
<1> QED
  BY <1>1, <1>2, <1>3


\* A removal gives back what the freed inode had.
LEMMA CutCounters ==
    ASSUME Inv, NEW p, NEW k, NEW i, Cut(p, k, i)
    PROVE  CountersConserved'
<1> DEFINE D == {j \in Inode : nodes[j].storage = "Direct"}
<1>1. /\ TypeOK /\ IsFiniteSet(Inode) /\ IsFiniteSet(used) /\ p \in Inode /\ i \in Inode
      /\ i # p /\ i \in used /\ used \subseteq Inode /\ nodes' \in [Inode -> INode]
      /\ nodes[i] \in INode
  <2>1. TypeOK /\ used \subseteq Inode /\ i \in used /\ p \in used /\ i # p
        /\ nodes' \in [Inode -> INode]
    BY EntryFacts DEF Typed, Cut
  <2> QED
    BY <2>1, Bounds
<1>2. /\ IsFiniteSet(D) /\ Cardinality(D) \in Nat /\ Cardinality(used) \in Nat
  BY <1>1, FS_Subset, FS_CardinalityType
<1>3. /\ free_inodes + Cardinality(used) = InodeCount
      /\ space + Cardinality(D) = TotalSpace
      /\ InodeCount \in Nat /\ TotalSpace \in Nat
      /\ space \in 0 .. TotalSpace /\ free_inodes \in 0 .. InodeCount
  BY <1>1, NamespaceAssumption DEF Inv, CountersConserved, TypeOK
<1>4. \A d \in Inode \ {i} : nodes'[d].storage = nodes[d].storage
  BY <1>1 DEF Cut
<1>5. /\ free_inodes' + Cardinality(used') = InodeCount /\ free_inodes' \in 0 .. InodeCount
      /\ used' \subseteq Inode
  <2>1. CASE used' = used \ {i} /\ free_inodes' = free_inodes + 1
    <3>1. IsFiniteSet(used') /\ Cardinality(used') = Cardinality(used) - 1
      BY <1>1, <2>1, FS_RemoveElement
    <3>2. Cardinality(used') \in Nat /\ used' \subseteq Inode
      BY <1>1, <2>1, <3>1, FS_CardinalityType
    <3> QED
      BY <1>2, <1>3, <2>1, <3>1, <3>2
  <2>2. CASE UNCHANGED <<used, free_inodes>>
    BY <1>1, <1>3, <2>2
  <2> QED
    BY <2>1, <2>2 DEF Cut
<1>6. space' + Cardinality(D') = TotalSpace /\ space' \in 0 .. TotalSpace
  <2>1. CASE nodes'[i] = Blank /\ space' = IF nodes[i].storage = "Direct" THEN space + 1 ELSE space
    <3>1. nodes'[i].storage = "Inline" /\ nodes[i].storage \in {"Inline", "Direct"}
      BY <1>1, <2>1, INodeFields DEF Blank
    <3>2. D' = D \ {i}
      BY <1>1, <1>4, <3>1
    <3>3. Cardinality(D') = IF i \in D THEN Cardinality(D) - 1 ELSE Cardinality(D)
      BY <1>2, <3>2, FS_RemoveElement
    <3>4. IsFiniteSet(D') /\ Cardinality(D') \in Nat
      BY <1>2, <3>2, FS_Subset, FS_CardinalityType
    <3>5. i \in D <=> nodes[i].storage = "Direct"
      BY <1>1
    <3> HIDE DEF D
    <3> QED
      BY <1>2, <1>3, <2>1, <3>3, <3>4, <3>5
  <2>2. CASE space' = space /\ nodes'[i].storage = nodes[i].storage
    <3>1. D' = D
      BY <1>4, <2>2
    <3> QED
      BY <1>3, <2>2, <3>1
  <2> QED
    BY <2>1, <2>2 DEF Cut
<1>7. TypeOK'
  <2>1. \A d \in Inode \ {i, p} : Len(nodes'[d].items) <= BlockItems
    BY <1>1 DEF TypeOK, Cut
  <2>2. Len(nodes'[p].items) <= BlockItems
    <3>1. Len(nodes[p].items) \in 0 .. BlockItems /\ BlockItems \in Nat
      BY <1>1, Bounds, NamespaceAssumption
    <3> QED
      BY <3>1 DEF Cut
  <2>3. Len(nodes'[i].items) <= BlockItems
    <3>1. CASE nodes'[i] = Blank
      <4>1. nodes'[i].items = <<>>
        BY <3>1 DEF Blank
      <4> QED
        BY <4>1, NamespaceAssumption
    <3>2. CASE nodes'[i].items = nodes[i].items
      BY <1>1, <3>2 DEF TypeOK
    <3> QED
      BY <3>1, <3>2 DEF Cut
  <2> QED
    BY <1>1, <1>5, <1>6, <2>1, <2>2, <2>3 DEF TypeOK
<1> QED
  BY <1>5, <1>6, <1>7 DEF CountersConserved

\* A removal leaves free inodes blank, names unique and the dots in place.
LEMMA CutNames ==
    ASSUME Inv, NEW p, NEW k, NEW i, Cut(p, k, i)
    PROVE  FreeInodesBlank' /\ NamesUnique' /\ Rooted' /\ DirShape'
<1>1. FreeInodesBlank'
  <2>1. p \in used /\ i \in used /\ i # p
    BY DEF Cut
  <2>2. ASSUME NEW d \in Inode \ used'
        PROVE  nodes'[d] = Blank
    <3>1. CASE d = i
      BY <3>1 DEF Cut
    <3>2. CASE d # i
      BY <2>1, <3>2 DEF Cut, Inv, FreeInodesBlank
    <3> QED
      BY <3>1, <3>2
  <2> QED
    BY <2>2 DEF FreeInodesBlank
<1>2. NamesUnique'
  <2>1. ASSUME NEW d \in used', NEW j \in 1 .. Len(nodes'[d].items),
               NEW l \in 1 .. Len(nodes'[d].items),
               nodes'[d].items[j].name = nodes'[d].items[l].name
        PROVE  j = l
    <3> DEFINE fj == From(p, k, d, j)
               fl == From(p, k, d, l)
    <3>1. /\ d \in used /\ fj \in 1 .. Len(nodes[d].items) /\ fl \in 1 .. Len(nodes[d].items)
          /\ nodes'[d].items[j] = nodes[d].items[fj] /\ nodes'[d].items[l] = nodes[d].items[fl]
          /\ fj = fl => j = l
      BY CutEntries
    <3> HIDE DEF fj, fl
    <3>2. DOMAIN nodes[d].items = 1 .. Len(nodes[d].items)
      BY <3>1, EntryFacts, Bounds DEF Typed
    <3> QED
      BY <2>1, <3>1, <3>2 DEF Inv, NamesUnique
  <2>2. \A d \in used' : DOMAIN nodes'[d].items = 1 .. Len(nodes'[d].items)
    BY CutEntries
  <2> QED
    BY <2>1, <2>2 DEF NamesUnique
<1>3. Rooted'
  BY CutEntries DEF Inv, Rooted
<1>4. DirShape'
  <2>1. ASSUME NEW d \in used'
        PROVE  IF nodes'[d].type = "Directory"
               THEN /\ Len(nodes'[d].items) >= 2
                    /\ nodes'[d].items[1] = Item(Dot, d) /\ nodes'[d].items[2].name = DotDot
               ELSE nodes'[d].items = <<>>
    <3>1. /\ d \in used /\ nodes'[d].type = nodes[d].type /\ Len(nodes'[d].items) \in Nat
          /\ d # p => nodes'[d].items = nodes[d].items
      BY CutEntries
    <3>2. CASE d = p
      <4>1. /\ k \in 3 .. Len(nodes[p].items) /\ Len(nodes[p].items) \in Nat
            /\ Len(nodes'[p].items) = Len(nodes[p].items) - 1
        <5>1. Len(nodes[p].items) \in Nat
          BY <3>1, <3>2, EntryFacts, Bounds DEF Typed
        <5> QED
          BY <5>1 DEF Cut, Below
      <4>2. 1 \in 1 .. Len(nodes'[p].items) /\ 2 \in 1 .. Len(nodes'[p].items)
        BY <4>1
      <4>3. nodes'[p].items[1] = nodes[p].items[1] /\ nodes'[p].items[2] = nodes[p].items[2]
        BY <3>2, <4>2, CutEntries
      <4>4. nodes[p].type = "Directory"
        BY <3>1, <3>2, <4>1, EntryFacts
      <4> QED
        BY <3>1, <3>2, <4>2, <4>3, <4>4 DEF Inv, DirShape
    <3>3. CASE d # p
      BY <3>1, <3>3 DEF Inv, DirShape
    <3> QED
      BY <3>2, <3>3
  <2> QED
    BY <2>1 DEF DirShape
<1> QED
  BY <1>1, <1>2, <1>3, <1>4


\* An inode loses no more links than entries that name it.
LEMMA CutRefs ==
    ASSUME Inv, NEW p, NEW k, NEW i, Cut(p, k, i), NEW t \in used
    PROVE  /\ IsFiniteSet(RefSet(t)) /\ IsFiniteSet(RefSet(t)')
           /\ Cardinality(RefSet(t)') \in Nat
           /\ nodes[t].links \in Nat
           /\ Cardinality(RefSet(t)') <= IF t = i THEN nodes[t].links - 1 ELSE nodes[t].links
<1> DEFINE here == <<p, k>>
           move == [x \in RefSet(t)' |-> <<x[1], From(p, k, x[1], x[2])>>]
<1> HIDE DEF here
<1>1. /\ TypeOK /\ used \subseteq Inode /\ nodes[t].links \in Nat /\ nodes[t].links >= Refs(t)
      /\ Refs(t) = Cardinality(RefSet(t)) /\ IsFiniteSet(RefSet(t))
      /\ Cardinality(RefSet(t)) \in Nat
  <2>1. TypeOK /\ used \subseteq Inode /\ nodes[t].links \in Nat /\ nodes[t].links >= Refs(t)
    BY EntryFacts, INodeFields DEF Typed
  <2>2. IsFiniteSet(RefSet(t))
    BY <2>1, PlacesAre, FS_Subset DEF RefSet
  <2> QED
    BY <2>1, <2>2, RefsIs, FS_CardinalityType
<1>2. TypeOK' /\ IsFiniteSet(Places')
  <2>1. TypeOK'
    BY CutCounters DEF CountersConserved
  <2>2. IsFiniteSet(Inode) /\ used' \subseteq Inode
    BY <1>1, <2>1, Bounds DEF TypeOK
  <2>3. IsFiniteSet(used')
    BY <2>2, FS_Subset
  <2>4. IsFiniteSet(1 .. BlockItems)
    BY FS_Interval, NamespaceAssumption
  <2>5. IsFiniteSet(used' \X (1 .. BlockItems))
    BY <2>3, <2>4, FS_Product
  <2>6. Places' \subseteq used' \X (1 .. BlockItems)
    BY DEF Places
  <2> QED
    BY <2>1, <2>5, <2>6, FS_Subset
<1>3. IsFiniteSet(RefSet(t)') /\ Cardinality(RefSet(t)') \in Nat
  BY <1>2, FS_Subset, FS_CardinalityType DEF RefSet
<1>4. ASSUME NEW x \in RefSet(t)'
      PROVE  LET d == x[1]
                 j == x[2]
             IN  /\ x = <<d, j>> /\ d \in used' /\ j \in 1 .. Len(nodes'[d].items)
                 /\ nodes'[d].items[j].id = t /\ d # t
  <2>1. /\ x \in used' \X (1 .. BlockItems) /\ x[2] \in DOMAIN nodes'[x[1]].items
        /\ nodes'[x[1]].items[x[2]].id = t /\ x[1] # t
    BY DEF RefSet, Places, EntryAt
  <2>2. x = <<x[1], x[2]>> /\ x[1] \in used'
    BY <2>1
  <2>3. DOMAIN nodes'[x[1]].items = 1 .. Len(nodes'[x[1]].items)
    BY <2>2, CutEntries
  <2> QED
    BY <2>1, <2>2, <2>3
<1>5. ASSUME NEW x \in RefSet(t)'
      PROVE  move[x] \in RefSet(t) \ {here}
  <2> DEFINE d == x[1]
             j == x[2]
             from == From(p, k, d, j)
  <2>1. /\ d \in used' /\ j \in 1 .. Len(nodes'[d].items)
        /\ nodes'[d].items[j].id = t /\ d # t
    BY <1>4
  <2>2. move[x] = <<d, from>>
    OBVIOUS
  <2> HIDE DEF d, j, from, move
  <2>3. /\ d \in used /\ from \in 1 .. Len(nodes[d].items)
        /\ nodes'[d].items[j] = nodes[d].items[from] /\ ~(d = p /\ from = k)
    BY <2>1, CutEntries DEF from
  <2>4. <<d, from>> \in Places
    BY <1>1, <2>3, PlacesAre
  <2>5. <<d, from>> # here
    BY <2>3 DEF here
  <2> QED
    BY <2>1, <2>2, <2>3, <2>4, <2>5 DEF RefSet, EntryAt
<1>6. ASSUME NEW x \in RefSet(t)', NEW y \in RefSet(t)', move[x] = move[y]
      PROVE  x = y
  <2> DEFINE d == x[1]
             j == x[2]
             l == y[2]
  <2>1. y[1] = d /\ From(p, k, d, j) = From(p, k, d, l)
    BY <1>6
  <2>2. /\ x = <<d, j>> /\ y = <<d, l>> /\ d \in used'
        /\ j \in 1 .. Len(nodes'[d].items) /\ l \in 1 .. Len(nodes'[d].items)
    BY <1>4, <2>1
  <2> HIDE DEF d, j, l
  <2>3. j = l
    BY <2>1, <2>2, CutEntries
  <2> QED
    BY <2>2, <2>3
<1>7. Cardinality(RefSet(t)') <= Cardinality(RefSet(t) \ {here})
  <2>1. move \in Injection(RefSet(t)', RefSet(t) \ {here})
    <3>1. move \in [RefSet(t)' -> RefSet(t) \ {here}]
      BY <1>5
    <3> HIDE DEF move
    <3> QED
      BY <1>6, <3>1 DEF Injection, IsInjective
  <2>2. IsFiniteSet(RefSet(t) \ {here})
    BY <1>1, FS_RemoveElement
  <2> QED
    BY <2>1, <2>2, FS_Injection
<1>8. Cardinality(RefSet(t) \ {here})
        = IF here \in RefSet(t) THEN Cardinality(RefSet(t)) - 1 ELSE Cardinality(RefSet(t))
  BY <1>1, FS_RemoveElement
<1>9. t = i => here \in RefSet(t)
  <2>1. /\ p \in used /\ i = nodes[p].items[k].id /\ p # i
        /\ k \in 3 .. Len(nodes[p].items) /\ Len(nodes[p].items) \in Nat
    <3>1. /\ p \in used /\ i = nodes[p].items[k].id /\ p # i
          /\ k \in 3 .. Len(nodes[p].items)
      BY DEF Cut, Below
    <3> QED
      BY <1>1, <3>1, Bounds
  <2>2. <<p, k>> \in Places
    <3>1. k \in 1 .. Len(nodes[p].items)
      BY <2>1
    <3> QED
      BY <1>1, <2>1, <3>1, PlacesAre
  <2> QED
    BY <2>1, <2>2 DEF here, RefSet, EntryAt
<1> QED
  BY <1>1, <1>3, <1>7, <1>8, <1>9

\* The links after a removal were there before.
LEMMA CutBelow ==
    ASSUME Inv, NEW p, NEW k, NEW i, Cut(p, k, i), NEW d \in used', NEW j \in Below(d)'
    PROVE  /\ d \in used /\ From(p, k, d, j) \in Below(d) /\ j \in 1 .. Len(nodes'[d].items)
           /\ nodes'[d].items[j] = nodes[d].items[From(p, k, d, j)]
<1>1. j >= 3 /\ j \in 1 .. Len(nodes'[d].items)
  <2>1. Len(nodes'[d].items) \in Nat
    BY CutEntries
  <2> QED
    BY <2>1 DEF Below
<1>2. /\ d \in used /\ From(p, k, d, j) \in 1 .. Len(nodes[d].items)
      /\ From(p, k, d, j) >= 3
      /\ nodes'[d].items[j] = nodes[d].items[From(p, k, d, j)]
  BY <1>1, CutEntries
<1>3. Len(nodes[d].items) \in Nat
  BY <1>2, EntryFacts, Bounds DEF Typed
<1> QED
  BY <1>1, <1>2, <1>3 DEF Below

\* A removal keeps the invariant: an inode is freed with the last entry for it.
LEMMA CutInv ==
    ASSUME Inv, NEW p, NEW k, NEW i, Cut(p, k, i)
    PROVE  Inv'
<1>1. NoDanglingEntry'
  <2>1. ASSUME NEW d \in used', NEW j \in DOMAIN nodes'[d].items,
               NEW t, t = nodes'[d].items[j].id
        PROVE  t \in used' /\ nodes'[t].links >= Refs(t)'
    <3>1. /\ d \in used /\ j \in 1 .. Len(nodes'[d].items)
          /\ From(p, k, d, j) \in 1 .. Len(nodes[d].items)
          /\ nodes'[d].items[j] = nodes[d].items[From(p, k, d, j)]
      BY CutEntries
    <3>2. t \in used
      BY <2>1, <3>1, EntryFacts
    <3>3. Refs(t)' = Cardinality(RefSet(t)')
      BY DEF Refs, RefSet
    <3>4. /\ IsFiniteSet(RefSet(t)') /\ Cardinality(RefSet(t)') \in Nat /\ nodes[t].links \in Nat
          /\ Cardinality(RefSet(t)') <= IF t = i THEN nodes[t].links - 1 ELSE nodes[t].links
      BY <3>2, CutRefs
    <3>5. CASE t # i
      <4>1. t \in used' /\ nodes'[t].links = nodes[t].links
        BY <3>2, <3>5, EntryFacts DEF Cut, Typed
      <4> QED
        BY <3>3, <3>4, <3>5, <4>1
    <3>6. CASE t = i /\ nodes[i].links > 1
      <4>1. t \in used' /\ nodes'[t].links = nodes[t].links - 1
        BY <3>2, <3>6 DEF Cut
      <4> QED
        BY <3>3, <3>4, <3>6, <4>1
    <3>7. CASE t = i /\ nodes[i].links = 1
      <4>1. RefSet(t)' = {}
        <5>1. Cardinality(RefSet(t)') = 0
          BY <3>4, <3>7
        <5> QED
          BY <3>4, <5>1, FS_EmptySet
      <4>2. used' = used \ {i}
        BY <3>7 DEF Cut
      <4>3. <<d, j>> \in Places'
        <5>1. TypeOK' => (<<d, j>> \in Places' <=> d \in used' /\ j \in 1 .. Len(nodes'[d].items))
          <6>1. j \in 1 .. BlockItems
            <7>1. Len(nodes'[d].items) <= BlockItems
              BY <3>1, EntryFacts, CutCounters DEF CountersConserved, TypeOK
            <7>2. Len(nodes'[d].items) \in Nat
              BY CutEntries
            <7> QED
              BY <3>1, <7>1, <7>2, NamespaceAssumption
          <6> QED
            BY <3>1, <6>1 DEF Places
        <5> QED
          BY <3>1, <5>1, CutCounters DEF CountersConserved
      <4>4. <<d, j>> \in RefSet(t)'
        BY <2>1, <3>7, <4>2, <4>3 DEF RefSet, EntryAt
      <4> QED
        BY <4>1, <4>4
    <3>8. t = i => nodes[i].links = 1 \/ nodes[i].links > 1
      BY <3>4 DEF Cut
    <3> QED
      BY <3>5, <3>6, <3>7, <3>8
  <2> QED
    BY <2>1 DEF NoDanglingEntry
<1>3. OneParent'
  <2>1. ASSUME NEW d \in used', NEW j \in Below(d)'
        PROVE  LET t == nodes'[d].items[j].id
               IN  /\ t # Root
                   /\ nodes'[t].type = "Directory" => nodes'[t].items[2].id = d
                   /\ \A e \in used' : \A l \in Below(e)' :
                        nodes'[e].items[l].id = t => e = d /\ l = j
    <3> DEFINE t == nodes'[d].items[j].id
               fj == From(p, k, d, j)
    <3>1. /\ d \in used /\ fj \in Below(d) /\ t = nodes[d].items[fj].id
          /\ j \in 1 .. Len(nodes'[d].items)
      BY CutBelow
    <3>2. /\ t # Root /\ (nodes[t].type = "Directory" => nodes[t].items[2].id = d)
          /\ \A e \in used : \A l \in Below(e) : nodes[e].items[l].id = t => e = d /\ l = fj
      BY <3>1 DEF Inv, OneParent
    <3>3. t \in used'
      <4>1. j \in DOMAIN nodes'[d].items
        BY <3>1, CutEntries
      <4> QED
        BY <1>1, <4>1 DEF NoDanglingEntry
    <3>4. nodes'[t].type = "Directory" => nodes'[t].items[2].id = d
      <4>1. nodes'[t].type = nodes[t].type /\ t \in used
        BY <3>3, CutEntries
      <4>2. CASE nodes'[t].type = "Directory"
        <5>1. Len(nodes'[t].items) >= 2 /\ Len(nodes'[t].items) \in Nat
          BY <3>3, <4>2, CutNames, CutEntries DEF DirShape
        <5>2. 2 \in 1 .. Len(nodes'[t].items)
          BY <5>1
        <5>3. nodes'[t].items[2] = nodes[t].items[2]
          <6>1. /\ nodes'[t].items[2] = nodes[t].items[From(p, k, t, 2)]
                /\ From(p, k, t, 2) = 2
            BY <3>3, <5>2, CutEntries
          <6> QED
            BY <6>1
        <5> QED
          BY <3>2, <4>1, <4>2, <5>3
      <4> QED
        BY <4>2
    <3>5. ASSUME NEW e \in used', NEW l \in Below(e)', nodes'[e].items[l].id = t
          PROVE  e = d /\ l = j
      <4>1. /\ e \in used /\ From(p, k, e, l) \in Below(e)
            /\ nodes[e].items[From(p, k, e, l)].id = t
            /\ l \in 1 .. Len(nodes'[e].items)
        BY CutBelow, <3>5
      <4>2. e = d /\ From(p, k, e, l) = fj
        BY <3>2, <4>1
      <4> QED
        BY <3>1, <4>1, <4>2, CutEntries
    <3> QED
      BY <3>2, <3>4, <3>5
  <2> QED
    BY <2>1 DEF OneParent
<1> QED
  BY <1>1, <1>3, CutCounters, CutNames DEF Inv

-----------------------------------------------------------------------------
\* Every step keeps the invariant, and every state has it.
LEMMA InvStep == Inv /\ [Next]_vars => Inv'
<1> SUFFICES ASSUME Inv, [Next]_vars PROVE Inv'
  OBVIOUS
<1>1. CASE Fresh'
  BY <1>1, FreshInv, PTL
<1>2. CASE Kept
  BY <1>2, KeptInv
<1>3. ASSUME NEW p \in used, NEW n \in AnyName, NEW i \in Inode, MadeIn(p, n, i)
      PROVE  Inv'
  <2>1. Grown(p, i, Stored[n])
    BY <1>3, CreatedGrown
  <2> QED
    BY <2>1, GrownInv
<1>4. ASSUME NEW p \in used, NEW k \in Below(p), Removed(p, k)
      PROVE  Inv'
  <2>1. Cut(p, k, nodes[p].items[k].id)
    BY <1>4, RemovedCut
  <2> QED
    BY <2>1, CutInv
<1> QED
  BY <1>1, <1>2, <1>3, <1>4, StepEffect

\* Every state of the namespace satisfies the inductive invariant.
LEMMA InvAlways == Spec => []Inv
<1>1. Init => Inv
  <2>1. Init => Fresh
    BY RootDirIs DEF Init, Fresh
  <2> QED
    BY <2>1, FreshInv
<1> QED
  BY <1>1, InvStep, PTL DEF Spec
-----------------------------------------------------------------------------
\* The tree's links are the entries after the dots.
LinksByPlace ==
    /\ \A d \in used : \A k \in Below(d) :
        <<d, nodes[d].items[k].name, nodes[d].items[k].id>> \in Links
    /\ \A l \in Links : \E d \in used : \E k \in Below(d) :
        l = <<d, nodes[d].items[k].name, nodes[d].items[k].id>>

\* That is what Links says.
LEMMA LinksAre == Inv => LinksByPlace
<1> SUFFICES ASSUME Inv PROVE LinksByPlace
  OBVIOUS
<1>1. TypeOK /\ \A d \in used : Len(nodes[d].items) \in Nat
  BY EntryFacts, Bounds DEF Typed
<1>2. ASSUME NEW d \in used, NEW k \in Below(d)
      PROVE  <<d, nodes[d].items[k].name, nodes[d].items[k].id>> \in Links
  <2>1. k \in 1 .. Len(nodes[d].items) /\ k >= 3
    BY <1>1 DEF Below
  <2>2. <<d, k>> \in Places /\ nodes[d].items[k].name \in Name
    BY <1>1, <2>1, PlacesAre, EntryFacts
  <2> DEFINE x == <<d, k>>
  <2>3. x \in {y \in Places : EntryAt(y).name \in Name}
    BY <2>2 DEF EntryAt
  <2>4. x[1] = d /\ EntryAt(x) = nodes[d].items[k]
    BY DEF EntryAt
  <2> HIDE DEF x
  <2> QED
    BY <2>3, <2>4 DEF Links
<1>3. ASSUME NEW l \in Links
      PROVE  \E d \in used : \E k \in Below(d) :
                l = <<d, nodes[d].items[k].name, nodes[d].items[k].id>>
  <2>1. PICK x \in Places : /\ EntryAt(x).name \in Name
                            /\ l = <<x[1], EntryAt(x).name, EntryAt(x).id>>
    BY DEF Links
  <2>2. x[1] \in used /\ x[2] \in 1 .. Len(nodes[x[1]].items)
    BY <1>1, PlacesAre
  <2>3. x[2] \in Below(x[1])
    BY <1>1, <2>1, <2>2, EntryFacts DEF EntryAt, Below
  <2> QED
    BY <2>1, <2>2, <2>3 DEF EntryAt
<1> QED
  BY <1>2, <1>3 DEF LinksByPlace


\* The tree by positions is the tree by links.
LEMMA TreeShapeOf == Inv => TreeShape
<1> SUFFICES ASSUME Inv PROVE TreeShape
  OBVIOUS
<1>1. LinksByPlace
  BY LinksAre
<1>2. ASSUME NEW l \in Links
      PROVE  /\ l[3] # Root
             /\ nodes[l[3]].type = "Directory" => nodes[l[3]].items[2].id = l[1]
             /\ \A m \in Links : l[3] = m[3] => l = m
  <2>1. PICK d \in used : \E k \in Below(d) :
            l = <<d, nodes[d].items[k].name, nodes[d].items[k].id>>
    BY <1>1 DEF LinksByPlace
  <2>2. PICK k \in Below(d) : l = <<d, nodes[d].items[k].name, nodes[d].items[k].id>>
    BY <2>1
  <2>3. ASSUME NEW m \in Links, l[3] = m[3]
        PROVE  l = m
    <3>1. PICK e \in used : \E j \in Below(e) :
            m = <<e, nodes[e].items[j].name, nodes[e].items[j].id>>
      BY <1>1 DEF LinksByPlace
    <3>2. PICK j \in Below(e) : m = <<e, nodes[e].items[j].name, nodes[e].items[j].id>>
      BY <3>1
    <3>3. nodes[d].items[k].id = nodes[e].items[j].id
      BY <2>2, <2>3, <3>2
    <3>4. e = d /\ j = k
      BY <3>3 DEF Inv, OneParent
    <3> QED
      BY <2>2, <3>2, <3>4
  <2>4. l[1] = d /\ l[3] = nodes[d].items[k].id
    BY <2>2
  <2> QED
    BY <2>3, <2>4 DEF Inv, OneParent
<1>3. ASSUME NEW d \in used, nodes[d].type = "Directory"
      PROVE  /\ Len(nodes[d].items) >= 2
             /\ nodes[d].items[1] = [name |-> Dot, id |-> d]
             /\ nodes[d].items[2].name = DotDot
  BY <1>3 DEF Inv, DirShape, Item
<1> QED
  BY <1>2, <1>3 DEF TreeShape

-----------------------------------------------------------------------------
\* What a step of each kind does to the links.
LEMMA KeptLinks ==
    ASSUME LinksByPlace, LinksByPlace', Inv, Kept
    PROVE  Links' = Links
<1>1. used' = used /\ used \subseteq Inode /\ \A d \in used : nodes'[d].items = nodes[d].items
  BY EntryFacts DEF Kept, Typed
<1>2. \A d \in used : Below(d)' = Below(d)
  BY <1>1 DEF Below
<1>3. ASSUME NEW l
      PROVE  l \in Links' <=> l \in Links
  <2>1. l \in Links <=> \E d \in used : \E k \in Below(d) :
                            l = <<d, nodes[d].items[k].name, nodes[d].items[k].id>>
    BY DEF LinksByPlace
  <2>2. l \in Links' <=> \E d \in used : \E k \in Below(d) :
                            l = <<d, nodes[d].items[k].name, nodes[d].items[k].id>>
    BY <1>1, <1>2 DEF LinksByPlace
  <2> QED
    BY <2>1, <2>2
<1> QED
  BY <1>3

\* A creation adds at most the link to i,
LEMMA GrownLinks ==
    ASSUME LinksByPlace, LinksByPlace', Inv, NEW p, NEW i, NEW m, Grown(p, i, m)
    PROVE  Links \subseteq Links' /\ Links' \subseteq Links \cup {<<p, m, i>>}
<1>1. /\ p \in used /\ i \notin used /\ used' = used \cup {i} /\ used \subseteq Inode
      /\ \A d \in used : Len(nodes[d].items) \in Nat
  BY EntryFacts, Bounds DEF Grown, Typed
<1>2. ASSUME NEW l \in Links
      PROVE  l \in Links'
  <2>1. PICK d \in used : \E k \in Below(d) :
            l = <<d, nodes[d].items[k].name, nodes[d].items[k].id>>
    BY DEF LinksByPlace
  <2>2. PICK k \in Below(d) : l = <<d, nodes[d].items[k].name, nodes[d].items[k].id>>
    BY <2>1
  <2>3. d \in used' /\ k \in Below(d)' /\ nodes'[d].items[k] = nodes[d].items[k]
    <3>1. k \in 1 .. Len(nodes[d].items) /\ k \in 3 .. Len(nodes[d].items)
      BY <1>1 DEF Below
    <3>2. CASE d = p
      <4>1. /\ nodes'[d].items[k] = nodes[d].items[k]
            /\ \/ Len(nodes'[d].items) = Len(nodes[d].items)
               \/ Len(nodes'[d].items) = Len(nodes[d].items) + 1
        BY <3>1, <3>2 DEF Grown
      <4> QED
        BY <1>1, <3>1, <4>1 DEF Below
    <3>3. CASE d # p
      <4>1. nodes'[d] = nodes[d]
        BY <1>1, <3>3 DEF Grown
      <4> QED
        BY <1>1, <3>1, <4>1 DEF Below
    <3> QED
      BY <3>2, <3>3
  <2>4. <<d, nodes'[d].items[k].name, nodes'[d].items[k].id>> \in Links'
    BY <2>3 DEF LinksByPlace
  <2> QED
    BY <2>2, <2>3, <2>4
<1>3. ASSUME NEW l \in Links'
      PROVE  l \in Links \/ l = <<p, m, i>>
  <2>1. PICK d \in used' : \E k \in Below(d)' :
            l = <<d, nodes'[d].items[k].name, nodes'[d].items[k].id>>
    BY DEF LinksByPlace
  <2>2. PICK k \in Below(d)' : l = <<d, nodes'[d].items[k].name, nodes'[d].items[k].id>>
    BY <2>1
  <2>3. CASE d \in used /\ k \in Below(d) /\ nodes'[d].items[k] = nodes[d].items[k]
    BY <2>2, <2>3 DEF LinksByPlace
  <2>4. CASE d = p /\ nodes'[d].items[k] = Item(m, i)
    BY <2>2, <2>4, ItemFields
  <2> QED
    BY <2>3, <2>4, GrownBelow
<1> QED
  BY <1>2, <1>3

\* a removal takes the one to i, which has no link below it.
LEMMA CutLinks ==
    ASSUME LinksByPlace, LinksByPlace', Inv, NEW p, NEW k, NEW i, Cut(p, k, i)
    PROVE  /\ Links' \subseteq Links
           /\ Links \subseteq Links' \cup {<<p, nodes[p].items[k].name, i>>}
           /\ \A l \in Links : l[1] # i
<1>1. /\ p \in used /\ i \in used /\ used \subseteq Inode /\ k \in Below(p)
      /\ \A d \in used : Len(nodes[d].items) \in Nat
      /\ used' = used \/ used' = used \ {i}
  <2>1. /\ p \in used /\ i \in used /\ k \in Below(p)
        /\ used' = used \/ used' = used \ {i}
    BY DEF Cut
  <2>2. used \subseteq Inode /\ \A d \in used : Len(nodes[d].items) \in Nat
    BY EntryFacts, Bounds DEF Typed
  <2> QED
    BY <2>1, <2>2
<1>2. Below(i) = {}
  <2>1. CASE nodes[i].type = "Directory"
    <3>1. Len(nodes[i].items) = 2
      BY <2>1 DEF Cut
    <3> QED
      BY <3>1 DEF Below
  <2>2. CASE nodes[i].type # "Directory"
    <3>1. nodes[i].items = <<>>
      BY <1>1, <2>2 DEF Inv, DirShape
    <3>2. Len(nodes[i].items) = 0
      BY <3>1
    <3> QED
      BY <3>2 DEF Below
  <2> QED
    BY <2>1, <2>2
<1>3. ASSUME NEW l \in Links
      PROVE  l[1] # i
  <2>1. PICK d \in used : \E j \in Below(d) :
            l = <<d, nodes[d].items[j].name, nodes[d].items[j].id>>
    BY DEF LinksByPlace
  <2>2. l[1] = d /\ Below(d) # {}
    BY <2>1
  <2> QED
    BY <1>2, <2>2
<1>4. ASSUME NEW l \in Links'
      PROVE  l \in Links
  <2>1. PICK d \in used' : \E j \in Below(d)' :
            l = <<d, nodes'[d].items[j].name, nodes'[d].items[j].id>>
    BY DEF LinksByPlace
  <2>2. PICK j \in Below(d)' : l = <<d, nodes'[d].items[j].name, nodes'[d].items[j].id>>
    BY <2>1
  <2>3. /\ d \in used /\ From(p, k, d, j) \in Below(d)
        /\ nodes'[d].items[j] = nodes[d].items[From(p, k, d, j)]
    BY CutBelow
  <2> QED
    BY <2>2, <2>3 DEF LinksByPlace
<1>5. ASSUME NEW l \in Links, l # <<p, nodes[p].items[k].name, i>>
      PROVE  l \in Links'
  <2>1. PICK d \in used : \E j \in Below(d) :
            l = <<d, nodes[d].items[j].name, nodes[d].items[j].id>>
    BY DEF LinksByPlace
  <2>2. PICK j \in Below(d) : l = <<d, nodes[d].items[j].name, nodes[d].items[j].id>>
    BY <2>1
  <2>3. d # i /\ d \in used' /\ ~(d = p /\ j = k)
    BY <1>1, <1>2, <1>5, <2>2 DEF Cut
  <2>4. j \in 3 .. Len(nodes[d].items) /\ k \in 3 .. Len(nodes[p].items)
    BY <1>1 DEF Below
  <2>5. \E h \in Below(d)' : nodes'[d].items[h] = nodes[d].items[j]
    <3>1. CASE d = p
      <4> DEFINE h == IF j = Len(nodes[p].items) THEN k ELSE j
      <4>1. Len(nodes'[p].items) = Len(nodes[p].items) - 1
        BY DEF Cut
      <4>2. h \in 3 .. Len(nodes[p].items) - 1
        BY <1>1, <2>3, <2>4, <3>1
      <4>3. h \in 1 .. Len(nodes[p].items) - 1
        BY <4>2
      <4>4. nodes'[p].items[h]
              = nodes[p].items[IF h = k THEN Len(nodes[p].items) ELSE h]
        BY <4>3 DEF Cut
      <4>5. (IF h = k THEN Len(nodes[p].items) ELSE h) = j
        BY <2>3, <2>4, <3>1
      <4> QED
        BY <3>1, <4>1, <4>2, <4>4, <4>5 DEF Below
    <3>2. CASE d # p
      <4>1. nodes'[d] = nodes[d]
        BY <1>1, <2>3, <3>2 DEF Cut
      <4> QED
        BY <2>4, <4>1 DEF Below
    <3> QED
      BY <3>1, <3>2
  <2>6. PICK h \in Below(d)' : nodes'[d].items[h] = nodes[d].items[j]
    BY <2>5
  <2>7. <<d, nodes'[d].items[h].name, nodes'[d].items[h].id>> \in Links'
    BY <2>3 DEF LinksByPlace
  <2> QED
    BY <2>2, <2>6, <2>7
<1> QED
  BY <1>3, <1>4, <1>5

\* A set with one element at most.
LEMMA AtMostOne ==
    ASSUME NEW S, NEW x, S \subseteq {x}
    PROVE  Cardinality(S) <= 1
<1>1. IsFiniteSet({x}) /\ Cardinality({x}) = 1
  BY FS_Singleton
<1>2. Cardinality(S) <= Cardinality({x})
  BY <1>1, FS_Subset
<1> QED
  BY <1>1, <1>2

StepOnLinks ==
    /\ /\ ret' # "format" => Cardinality((Links \ Links') \cup (Links' \ Links)) <= 1
       /\ ret' = "failed" => Links' = Links /\ UNCHANGED <<used, free_inodes, space>>
    /\ ret' # "format" => \A l \in Links \ Links' : \A m \in Links : m[1] # l[3]

\* What any step does to the links.
LEMMA StepLinks == Inv /\ Inv' /\ [Next]_vars => StepOnLinks
<1> SUFFICES ASSUME Inv, Inv', [Next]_vars PROVE StepOnLinks
  OBVIOUS
<1>1. LinksByPlace
  BY LinksAre
<1>2. LinksByPlace'
  BY LinksAre, PTL
<1>3. CASE ret' = "format"
  BY <1>3 DEF StepOnLinks
<1>4. CASE Kept
  <2>1. Links' = Links
    BY <1>1, <1>2, <1>4, KeptLinks
  <2>2. (Links \ Links') \cup (Links' \ Links) = {}
    BY <2>1
  <2>3. Cardinality((Links \ Links') \cup (Links' \ Links)) <= 1
    BY <2>2, FS_EmptySet
  <2>4. ret' = "failed" => UNCHANGED <<used, free_inodes, space>>
    BY <1>4 DEF Kept
  <2> QED
    BY <2>1, <2>3, <2>4 DEF StepOnLinks
<1>5. ASSUME ret' \in {"touch", "mkdir"}, NEW p \in used, NEW n \in AnyName, NEW i \in Inode,
             MadeIn(p, n, i)
      PROVE  StepOnLinks
  <2> DEFINE x == <<p, Stored[n], i>>
  <2> HIDE DEF x
  <2>1. Links \subseteq Links' /\ Links' \subseteq Links \cup {x}
    BY <1>1, <1>2, <1>5, CreatedGrown, GrownLinks DEF x
  <2>2. (Links \ Links') \cup (Links' \ Links) \subseteq {x} /\ Links \ Links' = {}
    BY <2>1
  <2>3. Cardinality((Links \ Links') \cup (Links' \ Links)) <= 1
    BY <2>2, AtMostOne
  <2> QED
    BY <1>5, <2>2, <2>3 DEF StepOnLinks
<1>6. ASSUME ret' \in {"rm", "rmdir"}, NEW p \in used, NEW k \in Below(p), Removed(p, k)
      PROVE  StepOnLinks
  <2> DEFINE i == nodes[p].items[k].id
             x == <<p, nodes[p].items[k].name, i>>
  <2>1. /\ Links' \subseteq Links /\ Links \subseteq Links' \cup {x}
        /\ \A l \in Links : l[1] # i
    BY <1>1, <1>2, <1>6, RemovedCut, CutLinks
  <2>2. x[3] = i
    OBVIOUS
  <2> HIDE DEF x, i
  <2>3. /\ (Links \ Links') \cup (Links' \ Links) \subseteq {x}
        /\ \A l \in Links \ Links' : l = x
    BY <2>1
  <2>4. Cardinality((Links \ Links') \cup (Links' \ Links)) <= 1
    BY <2>3, AtMostOne
  <2> QED
    BY <1>6, <2>1, <2>2, <2>3, <2>4 DEF StepOnLinks
<1> QED
  BY <1>3, <1>4, <1>5, <1>6, StepEffect
-----------------------------------------------------------------------------
\* The variables keep their types, whatever is created and removed.
THEOREM TypeCorrect == Spec => []TypeOK
<1>1. Inv => TypeOK
  BY DEF Inv, CountersConserved
<1> QED
  BY <1>1, InvAlways, PTL

\* The counters of free inodes and free blocks are exact.
THEOREM CountersCorrect == Spec => []CountersConserved
<1>1. Inv => CountersConserved
  BY DEF Inv
<1> QED
  BY <1>1, InvAlways, PTL

\* No inode that an entry names is ever freed, and its links cover the entries.
THEOREM EntriesCorrect == Spec => []NoDanglingEntry
<1>1. Inv => NoDanglingEntry
  BY DEF Inv
<1> QED
  BY <1>1, InvAlways, PTL

\* A directory never has a name twice, however names are cut.
THEOREM NamesCorrect == Spec => []NamesUnique
<1>1. Inv => NamesUnique
  BY DEF Inv
<1> QED
  BY <1>1, InvAlways, PTL

\* The directories form a tree.
THEOREM TreeCorrect == Spec => []TreeShape
  BY TreeShapeOf, InvAlways, PTL

\* allocate_inode never hands out what an earlier owner of an inode left.
THEOREM FreeCorrect == Spec => []FreeInodesBlank
<1>1. Inv => FreeInodesBlank
  BY DEF Inv
<1> QED
  BY <1>1, InvAlways, PTL

\* An operation changes one entry at most, and a failed one nothing.
THEOREM OneEntryCorrect == Spec => OneEntryPerStep
<1>1. StepOnLinks => /\ ret' # "format" => Cardinality((Links \ Links') \cup (Links' \ Links)) <= 1
                     /\ ret' = "failed" => Links' = Links /\ UNCHANGED <<used, free_inodes, space>>
  BY DEF StepOnLinks
<1> QED
  BY <1>1, InvAlways, StepLinks, PTL DEF Spec, OneEntryPerStep

\* remove_dir never takes a directory with entries out of the tree.
THEOREM NonEmptyDirCorrect == Spec => NonEmptyDirKept
<1>1. StepOnLinks => (ret' # "format" => \A l \in Links \ Links' : \A m \in Links : m[1] # l[3])
  BY DEF StepOnLinks
<1> QED
  BY <1>1, InvAlways, StepLinks, PTL DEF Spec, NonEmptyDirKept
=============================================================================

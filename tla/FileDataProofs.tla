--------------------------- MODULE FileDataProofs ---------------------------
(***************************************************************************)
(* Proofs about FileData, for every set of files and of blocks, every size *)
(* of a block and of the room in an inode; and, after them, about BPTree,  *)
(* the index of a file's data blocks, for every size of a node, every      *)
(* number of keys and every disk.                                          *)
(***************************************************************************)
EXTENDS FileData, BPTree, SequenceTheorems, FiniteSetTheorems, TLAPS

\* Division by a positive number leaves a remainder below it.
LEMMA DivisionRemainder ==
    ASSUME NEW a \in Int, NEW n \in Nat \ {0}
    PROVE  /\ a \div n \in Int
           /\ a % n \in 0 .. n - 1
           /\ a = (a \div n) * n + (a % n)
  OBVIOUS

\* The block of a position, the place in it, and the order of the blocks.
LEMMA PositionInBlock ==
    ASSUME NEW o \in Nat
    PROVE  /\ o \div BlockSize \in Nat
           /\ o % BlockSize \in Cell
           /\ o = BlockSize * (o \div BlockSize) + (o % BlockSize)
           /\ o < BlockSize => o \div BlockSize = 0 /\ o % BlockSize = o
<1>1. BlockSize \in Nat \ {0}
  BY FileAssumption
<1> DEFINE q == o \div BlockSize
           r == o % BlockSize
<1>2. q \in Int /\ r \in 0 .. BlockSize - 1 /\ o = q * BlockSize + r
  BY <1>1, DivisionRemainder
<1> HIDE DEF q, r
<1>3. q >= 0
  <2>1. ASSUME q + 1 <= 0 PROVE FALSE
    <3>1. (q + 1) * BlockSize <= 0
      BY <1>1, <1>2, <2>1
    <3> QED
      BY <1>1, <1>2, <3>1
  <2> QED
    BY <1>2, <2>1
<1>4. o < BlockSize => q = 0
  <2>1. ASSUME q >= 1, o < BlockSize PROVE FALSE
    <3>1. q * BlockSize >= BlockSize
      BY <1>1, <1>2, <2>1
    <3> QED
      BY <1>1, <1>2, <2>1, <3>1
  <2> QED
    BY <1>2, <1>3, <2>1
<1>5. q * BlockSize = BlockSize * q
  BY <1>1, <1>2
<1>6. q = 0 => r = o
  BY <1>1, <1>2
<1> QED
  BY <1>1, <1>2, <1>3, <1>4, <1>5, <1>6 DEF Cell, q, r

\* A later position is not in an earlier block.
LEMMA BlocksInOrder ==
    ASSUME NEW a \in Nat, NEW b \in Nat, a <= b
    PROVE  a \div BlockSize <= b \div BlockSize
<1>1. BlockSize \in Nat \ {0}
  BY FileAssumption
<1> DEFINE p == a \div BlockSize
           q == b \div BlockSize
           r == a % BlockSize
           s == b % BlockSize
<1>2. /\ p \in Int /\ r \in 0 .. BlockSize - 1 /\ a = p * BlockSize + r
      /\ q \in Int /\ s \in 0 .. BlockSize - 1 /\ b = q * BlockSize + s
  BY <1>1, DivisionRemainder
<1> HIDE DEF p, q, r, s
<1>3. ASSUME q + 1 <= p PROVE FALSE
  <2>1. p * BlockSize >= (q + 1) * BlockSize
    BY <1>1, <1>2, <1>3
  <2> QED
    BY <1>1, <1>2, <2>1
<1> QED
  BY <1>2, <1>3 DEF p, q
-----------------------------------------------------------------------------
\* What the data blocks and the inode make of a byte: ReadByte, of any inode.
Read(ino, blk, o) ==
    CASE ino.storage = "Inline" -> ino.inline[o]
      [] ino.storage = "Direct" -> blk[ino.blocks[0]][o]
      [] ino.storage = "Index" ->
            IF o \div BlockSize \in DOMAIN ino.blocks
            THEN blk[ino.blocks[o \div BlockSize]][o % BlockSize]
            ELSE Zero

\* The blocks of an inode.
Own(ino) == Range(ino.blocks) \cup ({ino.node} \ {NoLba})

\* The storage of an inode, its blocks and its size belong together.
WellShaped(ino) ==
    /\ ino \in INode
    /\ IsInjective(ino.blocks)
    /\ ino.node \notin Range(ino.blocks)
    /\ ino.storage = "Inline" =>
        ino.size <= InlineSize /\ DOMAIN ino.blocks = {} /\ ino.node = NoLba
    /\ ino.storage = "Direct" =>
        ino.size <= BlockSize /\ DOMAIN ino.blocks = {0} /\ ino.node = NoLba
    /\ ino.storage = "Index" => 0 \in DOMAIN ino.blocks /\ ino.node # NoLba

\* A position has a block, if it needs one.
Backed(ino, o) == ino.storage = "Index" => o \div BlockSize \in DOMAIN ino.blocks

ShapesFit == \A f \in File : WellShaped(inode[f])

\* No defined byte lies in a hole.
DefinedBacked == \A f \in File : \A o \in defined[f] : Backed(inode[f], o)

Inv == TypeOK /\ BlocksPartitioned /\ ShapesFit /\ DefinedBacked

\* A state of write_data, between two stages.
Stage ==
    [at : {"go", "done", "failed"}, ino : INode, block : [Lba -> [Cell -> Byte]],
     free : SUBSET Lba]

\* write_data may go on from s; the positions in D are to be kept.
Ready(s, off, data, D) ==
    /\ s \in Stage /\ WellShaped(s.ino) /\ Own(s.ino) \cap s.free = {}
    /\ off \in Nat /\ data \in Data /\ off + Len(data) <= MaxSize
    /\ D \subseteq 0 .. s.ino.size - 1
    /\ \A o \in D : o \notin Place(off, data) /\ Backed(s.ino, o)

\* What one stage, or several, make of s.
Keeps(t, s, off, data, D) ==
    /\ t \in Stage /\ WellShaped(t.ino)
    /\ t.free \subseteq s.free
    /\ Own(t.ino) = Own(s.ino) \cup (s.free \ t.free)
    /\ \A lba \in Lba \ Own(t.ino) : t.block[lba] = s.block[lba]
    /\ s.ino.size <= t.ino.size
    /\ \A o \in D : Backed(t.ino, o) /\ Read(t.ino, t.block, o) = Read(s.ino, s.block, o)
    /\ t.at = "done" =>
        /\ t.ino.size = Larger(s.ino.size, off + Len(data))
        /\ \A o \in Place(off, data) :
            Backed(t.ino, o) /\ Read(t.ino, t.block, o) = data[o - off + 1]
    /\ t.at # "done" => t.ino.size <= Larger(s.ino.size, off + Len(data) - 1)

\* What is written is a sequence of bytes and not empty.
LEMMA DataFacts ==
    ASSUME NEW data \in Data
    PROVE  /\ Len(data) \in Nat \ {0}
           /\ \A i \in 1 .. Len(data) : data[i] \in Byte
<1>1. data \in Seq(Value) /\ data # <<>>
  BY FileAssumption
<1>2. Len(data) \in Nat /\ \A i \in 1 .. Len(data) : data[i] \in Value
  BY <1>1
<1>3. Len(data) # 0
  BY <1>1
<1> QED
  BY <1>2, <1>3 DEF Byte

\* Copying data over bytes changes those in its place.
LEMMA OverlaidBytes ==
    ASSUME NEW data \in Data, NEW off \in Nat, NEW base \in Nat, NEW n \in Nat,
           NEW old \in [0 .. n - 1 -> Byte]
    PROVE  /\ Overlaid(old, base, off, data) \in [0 .. n - 1 -> Byte]
           /\ \A c \in 0 .. n - 1 : \A o \in Int : o = base + c =>
                Overlaid(old, base, off, data)[c] =
                    IF o \in Place(off, data) THEN data[o - off + 1] ELSE old[c]
<1>1. Len(data) \in Nat \ {0} /\ \A i \in 1 .. Len(data) : data[i] \in Byte
  BY DataFacts
<1>2. ASSUME NEW c \in 0 .. n - 1, base + c \in Place(off, data)
      PROVE  base + c - off + 1 \in 1 .. Len(data)
  BY <1>1, <1>2 DEF Place
<1>3. DOMAIN old = 0 .. n - 1
  OBVIOUS
<1>4. Overlaid(old, base, off, data) \in [0 .. n - 1 -> Byte]
  BY <1>1, <1>2, <1>3 DEF Overlaid
<1>5. ASSUME NEW c \in 0 .. n - 1, NEW o \in Int, o = base + c
      PROVE  Overlaid(old, base, off, data)[c] =
                IF o \in Place(off, data) THEN data[o - off + 1] ELSE old[c]
  BY <1>3, <1>5 DEF Overlaid
<1> QED
  BY <1>4, <1>5

\* The same for a block of a file, by the positions in the file.
LEMMA OverlaidBlock ==
    ASSUME NEW data \in Data, NEW off \in Nat, NEW i \in Nat, NEW old \in [Cell -> Byte]
    PROVE  /\ Overlaid(old, BlockSize * i, off, data) \in [Cell -> Byte]
           /\ \A o \in Nat : o \div BlockSize = i =>
                Overlaid(old, BlockSize * i, off, data)[o % BlockSize] =
                    IF o \in Place(off, data) THEN data[o - off + 1] ELSE old[o % BlockSize]
<1>1. BlockSize \in Nat /\ BlockSize * i \in Nat /\ old \in [0 .. BlockSize - 1 -> Byte]
  BY FileAssumption DEF Cell
<1> DEFINE base == BlockSize * i
<1> HIDE DEF base
<1>2. base \in Nat
  BY <1>1 DEF base
<1>3. /\ Overlaid(old, base, off, data) \in [0 .. BlockSize - 1 -> Byte]
      /\ \A c \in 0 .. BlockSize - 1 : \A o \in Int : o = base + c =>
            Overlaid(old, base, off, data)[c] =
                IF o \in Place(off, data) THEN data[o - off + 1] ELSE old[c]
  BY <1>1, <1>2, OverlaidBytes
<1>4. ASSUME NEW o \in Nat, o \div BlockSize = i
      PROVE  o \in Int /\ o % BlockSize \in 0 .. BlockSize - 1 /\ o = base + (o % BlockSize)
  BY <1>4, PositionInBlock DEF base, Cell
<1> QED
  BY <1>3, <1>4 DEF Cell, base

\* One stage after another.
LEMMA KeepsOn ==
    ASSUME NEW s, NEW t, NEW u, NEW off, NEW data, NEW D,
           Ready(s, off, data, D), Keeps(t, s, off, data, D), t.at = "go",
           Keeps(u, t, off, data, D)
    PROVE  Keeps(u, s, off, data, D)
<1>1. Len(data) \in Nat \ {0} /\ off \in Nat
  BY DataFacts DEF Ready
<1>2. s.ino.size \in Nat /\ t.ino.size \in Nat /\ u.ino.size \in Nat
  BY DEF Ready, Keeps, Stage, INode
<1>3. u.free \subseteq s.free /\ Own(u.ino) = Own(s.ino) \cup (s.free \ u.free)
  BY DEF Keeps
<1>4. \A lba \in Lba \ Own(u.ino) : u.block[lba] = s.block[lba]
  BY DEF Keeps
<1>5. s.ino.size <= u.ino.size
  BY <1>2 DEF Keeps
<1>6. \A o \in D : Backed(u.ino, o) /\ Read(u.ino, u.block, o) = Read(s.ino, s.block, o)
  BY DEF Keeps
<1>7. t.ino.size <= Larger(s.ino.size, off + Len(data) - 1)
  BY DEF Keeps
<1>8. Larger(t.ino.size, off + Len(data)) = Larger(s.ino.size, off + Len(data))
      /\ Larger(t.ino.size, off + Len(data) - 1) = Larger(s.ino.size, off + Len(data) - 1)
  <2>1. s.ino.size <= t.ino.size
    BY DEF Keeps
  <2> QED
    BY <1>1, <1>2, <1>7, <2>1 DEF Larger
<1> QED
  BY <1>3, <1>4, <1>5, <1>6, <1>8 DEF Keeps

\* The next stage finds what it needs.
LEMMA ReadyOn ==
    ASSUME NEW s, NEW t, NEW off, NEW data, NEW D,
           Ready(s, off, data, D), Keeps(t, s, off, data, D)
    PROVE  Ready(t, off, data, D)
<1>1. s.ino.size \in Nat /\ t.ino.size \in Nat /\ s.ino.size <= t.ino.size
  BY DEF Ready, Keeps, Stage, INode
<1>2. D \subseteq 0 .. t.ino.size - 1
  BY <1>1 DEF Ready
<1>3. Own(t.ino) \cap t.free = {}
  BY DEF Ready, Keeps
<1> QED
  BY <1>2, <1>3 DEF Ready, Keeps

\* A stage that does nothing keeps everything.
LEMMA KeepsItself ==
    ASSUME NEW s, NEW off, NEW data, NEW D, Ready(s, off, data, D), s.at = "go"
    PROVE  Keeps(s, s, off, data, D)
<1>1. Len(data) \in Nat \ {0} /\ off \in Nat /\ s.ino.size \in Nat
  BY DataFacts DEF Ready, Stage, INode
<1>2. s.ino.size <= Larger(s.ino.size, off + Len(data) - 1) /\ s.ino.size <= s.ino.size
  BY <1>1 DEF Larger
<1>3. Own(s.ino) = Own(s.ino) \cup (s.free \ s.free) /\ s.free \subseteq s.free
  OBVIOUS
<1>4. WellShaped(s.ino) /\ s \in Stage /\ \A o \in D : Backed(s.ino, o)
  BY DEF Ready
<1> QED
  BY <1>2, <1>3, <1>4 DEF Keeps

\* The inode after the stage that writes into it.
LEMMA InInodeKeeps ==
    ASSUME NEW s, NEW t, NEW off, NEW data, NEW D,
           Ready(s, off, data, D), s.at = "go", t \in InInode(s, off, data)
    PROVE  /\ Keeps(t, s, off, data, D)
           /\ t.at = "go" => t.ino.storage # "Inline"
<1>1. /\ Len(data) \in Nat \ {0} /\ off \in Nat /\ data \in Data
      /\ off + Len(data) \in 0 .. MaxSize
  BY DataFacts, FileAssumption DEF Ready
<1>2. /\ s \in Stage /\ s.ino \in INode /\ s.ino.size \in Nat /\ s.ino.size <= MaxSize
      /\ s.ino.inline \in [0 .. InlineSize - 1 -> Byte]
  BY DEF Ready, Stage, INode, WellShaped
<1>3. InlineSize \in Nat \ {0} /\ BlockSize \in Nat /\ BlockSize > InlineSize
  BY FileAssumption
<1>4. CASE s.ino.storage # "Inline" /\ t = s
  BY <1>4, KeepsItself
<1>5. CASE s.ino.storage = "Inline" /\ t = [s EXCEPT !.at = "failed"]
  <2>1. t \in Stage /\ t.at = "failed" /\ t.ino = s.ino /\ t.block = s.block /\ t.free = s.free
    BY <1>2, <1>5 DEF Stage
  <2> QED
    BY <1>1, <1>2, <2>1 DEF Keeps, Ready, Larger
<1>6. CASE /\ s.ino.storage = "Inline" /\ Fits(off, data, InlineSize)
           /\ t = [at |-> "done", free |-> s.free, block |-> s.block,
                   ino |-> [s.ino EXCEPT !.inline = Overlaid(@, 0, off, data),
                                         !.size = Larger(@, off + Len(data))]]
  <2> DEFINE new == Overlaid(s.ino.inline, 0, off, data)
             n == Larger(s.ino.size, off + Len(data))
  <2>1. /\ new \in [0 .. InlineSize - 1 -> Byte]
        /\ \A c \in 0 .. InlineSize - 1 : new[c] =
                IF c \in Place(off, data) THEN data[c - off + 1] ELSE s.ino.inline[c]
    <3>1. /\ new \in [0 .. InlineSize - 1 -> Byte]
          /\ \A c \in 0 .. InlineSize - 1 : \A o \in Int : o = 0 + c => new[c] =
                IF o \in Place(off, data) THEN data[o - off + 1] ELSE s.ino.inline[c]
      <4>1. ASSUME NEW base \in Nat
            PROVE  /\ Overlaid(s.ino.inline, base, off, data) \in [0 .. InlineSize - 1 -> Byte]
                   /\ \A c \in 0 .. InlineSize - 1 : \A o \in Int : o = base + c =>
                        Overlaid(s.ino.inline, base, off, data)[c] =
                            IF o \in Place(off, data) THEN data[o - off + 1]
                            ELSE s.ino.inline[c]
        <5> HIDE DEF n, new
        <5>1. InlineSize \in Nat /\ s.ino.inline \in [0 .. InlineSize - 1 -> Byte]
          BY <1>2, <1>3
        <5> QED
          BY <1>1, <5>1, OverlaidBytes
      <4> QED
        BY <4>1
    <3> HIDE DEF new
    <3>2. ASSUME NEW c \in 0 .. InlineSize - 1 PROVE c \in Int /\ c = 0 + c
      BY <1>3
    <3> QED
      BY <3>1, <3>2
  <2>2. n \in 0 .. MaxSize /\ s.ino.size <= n /\ n <= InlineSize
    BY <1>1, <1>2, <1>3, <1>6 DEF Larger, Fits, Ready, WellShaped
  <2> DEFINE ino == [s.ino EXCEPT !.inline = new, !.size = n]
  <2>3. t = [at |-> "done", free |-> s.free, block |-> s.block, ino |-> ino]
    BY <1>6
  <2> HIDE DEF new, n
  <2>. s.ino.storage = "Inline"
    BY <1>6
  <2>4. /\ ino \in INode
        /\ ino.storage = s.ino.storage /\ ino.size = n /\ ino.inline = new
        /\ ino.node = s.ino.node /\ ino.blocks = s.ino.blocks
    <3> HIDE DEF ino
    <3>1. ino = [s.ino EXCEPT !.inline = new, !.size = n]
      BY DEF ino
    <3> QED
      <4>1. /\ s.ino \in INode /\ new \in [0 .. InlineSize - 1 -> Byte]
            /\ n \in 0 .. MaxSize
        BY <1>2, <2>1, <2>2
      <4> QED
        BY <3>1, <4>1 DEF INode
  <2> HIDE DEF ino
  <2>5. /\ t \in Stage /\ t.at = "done" /\ t.block = s.block /\ t.free = s.free
        /\ t.ino.storage = "Inline" /\ t.ino.size = n /\ t.ino.inline = new
        /\ t.ino.node = s.ino.node /\ t.ino.blocks = s.ino.blocks
    BY <1>2, <2>3, <2>4 DEF Stage
  <2>6. WellShaped(t.ino)
    BY <1>6, <2>2, <2>5 DEF WellShaped, Ready, Stage
  <2>7. Own(t.ino) = Own(s.ino)
    BY <2>5 DEF Own
  <2>8. ASSUME NEW o \in D
        PROVE  Backed(t.ino, o) /\ Read(t.ino, t.block, o) = Read(s.ino, s.block, o)
    <3>1. o \in 0 .. InlineSize - 1 /\ o \notin Place(off, data)
      BY <1>2, <1>3, <1>6 DEF Ready, WellShaped
    <3> QED
      BY <1>6, <2>1, <2>5, <3>1 DEF Backed, Read
  <2>9. ASSUME NEW o \in Place(off, data)
        PROVE  Backed(t.ino, o) /\ Read(t.ino, t.block, o) = data[o - off + 1]
    <3>1. o \in 0 .. InlineSize - 1
      BY <1>1, <1>3, <1>6 DEF Fits, Place
    <3> QED
      BY <2>1, <2>5, <3>1 DEF Backed, Read
  <2> QED
    BY <2>2, <2>5, <2>6, <2>7, <2>8, <2>9 DEF Keeps, n
<1>7. CASE s.ino.storage = "Inline" /\ \E lba \in s.free : t = Moved(s, lba)
  <2>1. PICK lba \in s.free : t = Moved(s, lba)
    BY <1>7
  <2>2. lba \in Lba /\ lba \notin Own(s.ino) /\ lba # NoLba
    BY <1>2, FileAssumption DEF Stage, Ready
  <2> DEFINE old == s.block[lba]
             cells == [c \in Cell |-> IF c < s.ino.size THEN s.ino.inline[c] ELSE old[c]]
             rest == [c \in 0 .. InlineSize - 1 |->
                        IF c < s.ino.size THEN Zero ELSE s.ino.inline[c]]
             blk == [s.block EXCEPT ![lba] = cells]
             one == [i \in {0} |-> lba]
  <2>3. s.block \in [Lba -> [Cell -> Byte]] /\ old \in [Cell -> Byte]
    BY <1>2, <2>2 DEF Stage
  <2>4. s.ino.size <= InlineSize /\ DOMAIN s.ino.blocks = {} /\ s.ino.node = NoLba
    BY <1>7 DEF Ready, WellShaped
  <2>5. cells \in [Cell -> Byte]
    <3>1. ASSUME NEW c \in Cell, c < s.ino.size PROVE s.ino.inline[c] \in Byte
      BY <1>2, <1>3, <2>4, <3>1 DEF Cell
    <3> QED
      BY <2>3, <3>1
  <2>6. rest \in [0 .. InlineSize - 1 -> Byte]
    BY <1>2 DEF Byte
  <2>7. blk \in [Lba -> [Cell -> Byte]] /\ blk[lba] = cells
        /\ \A x \in Lba \ {lba} : blk[x] = s.block[x]
    BY <2>2, <2>3, <2>5
  <2>8. one \in UNION {[I -> Lba] : I \in SUBSET BlockIndex} /\ DOMAIN one = {0} /\ one[0] = lba
    <3>1. 0 \in BlockIndex
      <4>1. (MaxSize - 1) \div BlockSize \in Nat
        BY FileAssumption, PositionInBlock
      <4> QED
        BY <4>1 DEF BlockIndex
    <3>2. one \in [{0} -> Lba] /\ {0} \in SUBSET BlockIndex
      BY <2>2, <3>1
    <3> QED
      BY <3>2
  <2>9. s.ino.inline \in [0 .. InlineSize - 1 -> Byte]
    BY <1>2
  <2> DEFINE ino == [s.ino EXCEPT !.storage = "Direct", !.blocks = one, !.inline = rest]
  <2>10. t = [at |-> s.at, free |-> s.free \ {lba}, block |-> blk, ino |-> ino]
    BY <2>1 DEF Moved
  <2> HIDE DEF cells, rest, blk, one, old
  <2>11. /\ ino \in INode
         /\ ino.storage = "Direct" /\ ino.size = s.ino.size
         /\ ino.node = s.ino.node /\ ino.blocks = one
    <3> HIDE DEF ino
    <3>1. ino = [s.ino EXCEPT !.storage = "Direct", !.blocks = one, !.inline = rest]
      BY DEF ino
    <3> QED
      <4>1. /\ s.ino \in INode /\ rest \in [0 .. InlineSize - 1 -> Byte]
            /\ one \in UNION {[I -> Lba] : I \in SUBSET BlockIndex}
        BY <1>2, <2>6, <2>8
      <4> QED
        BY <3>1, <4>1 DEF INode
  <2> HIDE DEF ino
  <2>12. t \in Stage /\ t.at = s.at /\ t.block = blk /\ t.free = s.free \ {lba}
    BY <1>2, <2>7, <2>10, <2>11 DEF Stage
  <2>13. /\ t.ino.storage = "Direct" /\ t.ino.size = s.ino.size
         /\ t.ino.node = s.ino.node /\ t.ino.blocks = one
    BY <2>10, <2>11
  <2>14. Own(t.ino) = {lba} /\ Own(s.ino) = {}
    BY <2>2, <2>4, <2>8, <2>13 DEF Own, Range
  <2>15. WellShaped(t.ino)
    <3>1. t.ino \in INode
      BY <2>12 DEF Stage
    <3>2. IsInjective(t.ino.blocks) /\ t.ino.node \notin Range(t.ino.blocks)
      BY <2>2, <2>4, <2>8, <2>13 DEF IsInjective, Range
    <3>3. t.ino.size <= BlockSize
      BY <1>2, <1>3, <2>4, <2>13
    <3> QED
      BY <2>4, <2>8, <2>13, <3>1, <3>2, <3>3 DEF WellShaped
  <2>16. ASSUME NEW o \in D
         PROVE  Backed(t.ino, o) /\ Read(t.ino, t.block, o) = Read(s.ino, s.block, o)
    <3>1. o \in Cell /\ o < s.ino.size
      BY <1>2, <1>3, <2>4 DEF Ready, Cell
    <3>2. blk[lba][o] = s.ino.inline[o]
      BY <2>7, <3>1 DEF cells
    <3> QED
      BY <1>7, <2>8, <2>12, <2>13, <3>2 DEF Backed, Read
  <2>17. \A x \in Lba \ Own(t.ino) : t.block[x] = s.block[x]
    BY <2>7, <2>12, <2>14
  <2>18. Own(t.ino) = Own(s.ino) \cup (s.free \ t.free)
    BY <2>12, <2>14
  <2>19. t.ino.size <= Larger(s.ino.size, off + Len(data) - 1) /\ s.ino.size <= t.ino.size
    BY <1>1, <1>2, <2>13 DEF Larger
  <2> QED
    BY <2>12, <2>13, <2>15, <2>16, <2>17, <2>18, <2>19 DEF Keeps
<1> QED
  BY <1>4, <1>5, <1>6, <1>7 DEF InInode

\* After the stage that writes into the file's block.
LEMMA InBlockKeeps ==
    ASSUME NEW s, NEW t, NEW off, NEW data, NEW D,
           Ready(s, off, data, D), s.at = "go", s.ino.storage # "Inline",
           t \in InBlock(s, off, data)
    PROVE  /\ Keeps(t, s, off, data, D)
           /\ t.at = "go" => t.ino.storage = "Index"
<1>1. /\ Len(data) \in Nat \ {0} /\ off \in Nat /\ data \in Data
      /\ off + Len(data) \in 0 .. MaxSize
  BY DataFacts, FileAssumption DEF Ready
<1>2. /\ s \in Stage /\ s.ino \in INode /\ s.ino.size \in Nat /\ s.ino.size <= MaxSize
      /\ s.ino.storage \in {"Inline", "Direct", "Index"}
      /\ s.block \in [Lba -> [Cell -> Byte]]
  BY DEF Ready, Stage, INode, WellShaped
<1>3. BlockSize \in Nat \ {0} /\ MaxSize \in Nat /\ MaxSize > BlockSize /\ NoLba \notin Lba
  BY FileAssumption
<1>4. CASE s.ino.storage = "Index"
  <2>1. t = s
    BY <1>4 DEF InBlock
  <2> QED
    BY <1>4, <2>1, KeepsItself
<1>5. CASE s.ino.storage = "Direct"
  <2>1. s.ino.size <= BlockSize /\ DOMAIN s.ino.blocks = {0} /\ s.ino.node = NoLba
    BY <1>5 DEF Ready, WellShaped
  <2> DEFINE lba == s.ino.blocks[0]
             old == s.block[lba]
             over == Overlaid(old, 0, off, data)
             end == IF Fits(off, data, BlockSize) THEN off + Len(data)
                    ELSE IF off <= BlockSize THEN BlockSize ELSE 0
             n == Larger(s.ino.size, end)
             blk == [s.block EXCEPT ![lba] = over]
             ino == [s.ino EXCEPT !.size = n]
  <2>2. lba \in Lba /\ Own(s.ino) = {lba} /\ lba \notin s.free
    <3>1. lba \in Lba
      BY <1>2, <2>1 DEF INode
    <3> HIDE DEF lba
    <3>2. Range(s.ino.blocks) = {lba}
      BY <2>1 DEF Range, lba
    <3>3. Own(s.ino) = {lba}
      BY <2>1, <3>2 DEF Own
    <3> QED
      BY <3>1, <3>3 DEF Ready
  <2>3. /\ over \in [Cell -> Byte]
        /\ \A o \in Cell : over[o] =
                IF o \in Place(off, data) THEN data[o - off + 1] ELSE old[o]
    <3>1. old \in [0 .. BlockSize - 1 -> Byte]
      BY <1>2, <2>2 DEF Cell
    <3> HIDE DEF old
    <3>2. ASSUME NEW base \in Nat
          PROVE  /\ Overlaid(old, base, off, data) \in [0 .. BlockSize - 1 -> Byte]
                 /\ \A c \in 0 .. BlockSize - 1 : \A o \in Int : o = base + c =>
                        Overlaid(old, base, off, data)[c] =
                            IF o \in Place(off, data) THEN data[o - off + 1] ELSE old[c]
      <4>1. BlockSize \in Nat
        BY <1>3
      <4> QED
        BY <1>1, <3>1, <4>1, OverlaidBytes
    <3>3. /\ over \in [0 .. BlockSize - 1 -> Byte]
          /\ \A c \in 0 .. BlockSize - 1 : \A o \in Int : o = 0 + c => over[c] =
                IF o \in Place(off, data) THEN data[o - off + 1] ELSE old[c]
      BY <3>2
    <3> HIDE DEF over
    <3>4. ASSUME NEW c \in 0 .. BlockSize - 1 PROVE c \in Int /\ c = 0 + c
      BY <1>3
    <3> QED
      BY <3>3, <3>4 DEF Cell
  <2>4. /\ n \in 0 .. MaxSize /\ s.ino.size <= n /\ n <= BlockSize
        /\ Fits(off, data, BlockSize) => n = Larger(s.ino.size, off + Len(data))
        /\ ~Fits(off, data, BlockSize) => n <= Larger(s.ino.size, off + Len(data) - 1)
    <3>1. end \in 0 .. BlockSize
      BY <1>1, <1>3 DEF Fits
    <3>2. ~Fits(off, data, BlockSize) => end <= off + Len(data) - 1
      BY <1>1, <1>3 DEF Fits
    <3>3. Fits(off, data, BlockSize) => end = off + Len(data)
      OBVIOUS
    <3> HIDE DEF end
    <3> QED
      BY <1>1, <1>2, <1>3, <2>1, <3>1, <3>2, <3>3 DEF Larger
  <2> HIDE DEF old, over, n, end
  <2>5. /\ ino \in INode /\ ino.storage = "Direct" /\ ino.size = n
        /\ ino.node = NoLba /\ ino.blocks = s.ino.blocks
    BY <1>2, <1>5, <2>1, <2>4 DEF INode
  <2>6. /\ blk \in [Lba -> [Cell -> Byte]] /\ blk[lba] = over
        /\ \A x \in Lba \ {lba} : blk[x] = s.block[x]
    BY <1>2, <2>2, <2>3
  <2>7. ASSUME NEW o \in D
        PROVE  /\ o \in Cell /\ o \in Nat /\ o \div BlockSize = 0 /\ o % BlockSize = o
               /\ over[o] = Read(s.ino, s.block, o)
    <3>1. o \in Cell /\ o \notin Place(off, data)
      BY <1>2, <1>3, <2>1 DEF Ready, Cell
    <3>2. over[o] = Read(s.ino, s.block, o)
      BY <1>5, <2>3, <3>1 DEF Read, old
    <3>3. o \in Nat /\ o < BlockSize
      BY <1>3, <3>1 DEF Cell
    <3> QED
      BY <3>1, <3>2, <3>3, PositionInBlock
  <2> DEFINE filled(at) == [at |-> at, free |-> s.free, block |-> blk, ino |-> ino]
  <2>8. CASE \/ Fits(off, data, BlockSize) /\ t = filled("done")
             \/ ~Fits(off, data, BlockSize) /\ t = filled("failed")
    <3> HIDE DEF blk, ino, lba
    <3>1. /\ t \in Stage /\ t.block = blk /\ t.free = s.free /\ t.ino = ino
          /\ t.at \in {"done", "failed"} /\ (t.at = "done" <=> Fits(off, data, BlockSize))
      BY <1>2, <2>5, <2>6, <2>8 DEF Stage
    <3>2. WellShaped(ino) /\ Own(ino) = Own(s.ino)
      BY <1>5, <2>1, <2>4, <2>5 DEF WellShaped, Ready, Own
    <3>3. ASSUME NEW o \in D
          PROVE  Backed(ino, o) /\ Read(ino, blk, o) = Read(s.ino, s.block, o)
      BY <2>5, <2>6, <2>7 DEF Backed, Read, lba
    <3>4. ASSUME NEW o \in Place(off, data), Fits(off, data, BlockSize)
          PROVE  Backed(ino, o) /\ Read(ino, blk, o) = data[o - off + 1]
      <4>1. o \in Cell
        BY <1>1, <1>3, <3>4 DEF Fits, Place, Cell
      <4> QED
        BY <2>3, <2>5, <2>6, <4>1 DEF Backed, Read, lba
    <3> QED
      BY <2>2, <2>4, <2>5, <2>6, <3>1, <3>2, <3>3, <3>4 DEF Keeps
  <2>9. CASE ~Fits(off, data, BlockSize) /\ \E lead \in s.free : t = Indexed(filled("go"), lead)
    <3>1. PICK lead \in s.free : t = Indexed(filled("go"), lead)
      BY <2>9
    <3>2. lead \in Lba /\ lead # lba /\ lead # NoLba
      BY <1>2, <1>3, <2>2 DEF Stage
    <3> DEFINE cells == [c \in Cell |-> NodeByte]
               blk2 == [blk EXCEPT ![lead] = cells]
               ino2 == [ino EXCEPT !.storage = "Index", !.node = lead]
    <3>3. t = [at |-> "go", free |-> s.free \ {lead}, block |-> blk2, ino |-> ino2]
      BY <3>1 DEF Indexed
    <3>4. cells \in [Cell -> Byte]
      BY DEF Byte
    <3> HIDE DEF cells, blk, ino, lba
    <3>5. /\ blk2 \in [Lba -> [Cell -> Byte]] /\ blk2[lba] = over
          /\ \A x \in Lba \ {lba, lead} : blk2[x] = s.block[x]
      BY <2>2, <2>6, <3>2, <3>4
    <3>6. /\ ino2 \in INode /\ ino2.storage = "Index" /\ ino2.size = n
          /\ ino2.node = lead /\ ino2.blocks = s.ino.blocks
      BY <2>5, <3>2 DEF INode
    <3> HIDE DEF blk2, ino2
    <3>7. /\ t \in Stage /\ t.block = blk2 /\ t.free = s.free \ {lead} /\ t.ino = ino2
          /\ t.at = "go"
      BY <1>2, <3>3, <3>5, <3>6 DEF Stage
    <3>8. Own(ino2) = {lba, lead} /\ Range(ino2.blocks) = {lba}
      BY <2>1, <3>2, <3>6 DEF Own, Range, lba
    <3>9. WellShaped(ino2)
      BY <2>1, <3>2, <3>6, <3>8 DEF WellShaped, Ready
    <3>10. ASSUME NEW o \in D
           PROVE  Backed(ino2, o) /\ Read(ino2, blk2, o) = Read(s.ino, s.block, o)
      BY <2>1, <2>7, <3>5, <3>6 DEF Backed, Read, lba
    <3>11. Own(ino2) = Own(s.ino) \cup (s.free \ (s.free \ {lead}))
      BY <2>2, <3>8
    <3> QED
      BY <2>4, <2>9, <3>5, <3>6, <3>7, <3>8, <3>9, <3>10, <3>11 DEF Keeps
  <2> QED
    <3>1. \/ Fits(off, data, BlockSize) /\ t = filled("done")
          \/ ~Fits(off, data, BlockSize) /\ t = filled("failed")
          \/ ~Fits(off, data, BlockSize) /\ \E lead \in s.free : t = Indexed(filled("go"), lead)
      BY <1>5 DEF InBlock, n, over, old, end
    <3> QED
      BY <2>8, <2>9, <3>1
<1> QED
  BY <1>2, <1>4, <1>5

\* After the stage that writes into the blocks of the tree.
LEMMA InIndexKeeps ==
    ASSUME NEW s, NEW t, NEW off, NEW data, NEW D,
           Ready(s, off, data, D), s.at = "go", s.ino.storage = "Index",
           t \in InIndex(s, off, data)
    PROVE  Keeps(t, s, off, data, D) /\ t.at # "go"
<1>1. /\ Len(data) \in Nat \ {0} /\ off \in Nat /\ data \in Data
      /\ off + Len(data) \in 0 .. MaxSize
  BY DataFacts, FileAssumption DEF Ready
<1>2. /\ s \in Stage /\ s.ino \in INode /\ s.ino.size \in Nat /\ s.ino.size <= MaxSize
      /\ s.block \in [Lba -> [Cell -> Byte]] /\ s.free \subseteq Lba
  BY DEF Ready, Stage, INode, WellShaped
<1>3. BlockSize \in Nat \ {0} /\ MaxSize \in Nat /\ MaxSize > BlockSize /\ NoLba \notin Lba
  BY FileAssumption
<1> DEFINE have == DOMAIN s.ino.blocks
           missing == Touched(off, data) \ have
           got == {i \in missing :
                    Cardinality({j \in missing : j < i}) < Cardinality(s.free)}
           reached == {i \in Touched(off, data) : \A j \in missing \ got : i < j}
           blocks(new) == [i \in have \cup got |->
                            IF i \in got THEN new[i] ELSE s.ino.blocks[i]]
           blk(new) == [lba \in Lba |->
                IF \E i \in reached : blocks(new)[i] = lba
                THEN Overlaid(s.block[lba],
                        BlockSize * (CHOOSE i \in reached : blocks(new)[i] = lba), off, data)
                ELSE s.block[lba]]
           ino(new) == [s.ino EXCEPT
                !.blocks = blocks(new),
                !.size = IF got = missing THEN Larger(@, off + Len(data)) ELSE @]
<1>4. PICK new \in Injection(got, s.free) :
        t = [at |-> IF got = missing THEN "done" ELSE "failed",
             free |-> s.free \ {new[i] : i \in got},
             block |-> blk(new), ino |-> ino(new)]
  BY DEF InIndex
<1> DEFINE n == IF got = missing THEN Larger(s.ino.size, off + Len(data)) ELSE s.ino.size
           all == blocks(new)
           cells == [lba \in Lba |->
                IF \E i \in reached : all[i] = lba
                THEN Overlaid(s.block[lba],
                        BlockSize * (CHOOSE i \in reached : all[i] = lba), off, data)
                ELSE s.block[lba]]
           grown == [s.ino EXCEPT !.blocks = all, !.size = n]
<1>4a. t = [at |-> IF got = missing THEN "done" ELSE "failed",
           free |-> s.free \ {new[i] : i \in got}, block |-> cells, ino |-> grown]
  BY <1>4
<1> HIDE DEF grown
<1>5. got \subseteq missing /\ missing \subseteq Touched(off, data) /\ missing \cap have = {}
  OBVIOUS
<1>6. grown = [s.ino EXCEPT !.blocks = all, !.size = n]
  BY DEF grown
<1> HIDE DEF got
<1>7. new \in [got -> s.free] /\ \A i, j \in got : new[i] = new[j] => i = j
  BY <1>4 DEF Injection, IsInjective
<1>8. /\ have \subseteq BlockIndex /\ s.ino.blocks \in [have -> Lba]
      /\ \A i, j \in have : s.ino.blocks[i] = s.ino.blocks[j] => i = j
      /\ \A i \in have : s.ino.blocks[i] \in Own(s.ino)
      /\ Own(s.ino) \cap s.free = {} /\ s.ino.node \in Own(s.ino)
      /\ 0 \in have /\ s.ino.node \in Lba /\ \A i \in have : s.ino.blocks[i] # s.ino.node
  <2>1. s.ino.blocks \in UNION {[I -> Lba] : I \in SUBSET BlockIndex}
    BY <1>2 DEF INode
  <2>2. have \subseteq BlockIndex /\ s.ino.blocks \in [have -> Lba]
    BY <2>1
  <2>3. \A i \in have : s.ino.blocks[i] \in Range(s.ino.blocks)
    BY DEF Range
  <2>4. \A i, j \in have : s.ino.blocks[i] = s.ino.blocks[j] => i = j
    BY DEF Ready, WellShaped, IsInjective
  <2>5. s.ino.node # NoLba /\ 0 \in have /\ s.ino.node \notin Range(s.ino.blocks)
    BY DEF Ready, WellShaped
  <2>6. s.ino.node \in Lba \cup {NoLba}
    BY <1>2 DEF INode
  <2> QED
    BY <2>2, <2>3, <2>4, <2>5, <2>6 DEF Ready, Own
<1>9. Touched(off, data) \subseteq BlockIndex
  <2>1. /\ off + Len(data) - 1 \in Nat /\ MaxSize - 1 \in Nat
        /\ off + Len(data) - 1 <= MaxSize - 1
    BY <1>1, <1>3
  <2>2. /\ off \div BlockSize \in Nat
        /\ (off + Len(data) - 1) \div BlockSize \in Nat
        /\ (MaxSize - 1) \div BlockSize \in Nat
        /\ (off + Len(data) - 1) \div BlockSize <= (MaxSize - 1) \div BlockSize
    BY <1>1, <2>1, PositionInBlock, BlocksInOrder
  <2> QED
    BY <2>2 DEF Touched, BlockIndex
<1>10. /\ DOMAIN all = have \cup got
       /\ \A i \in got : all[i] = new[i]
       /\ \A i \in have : all[i] = s.ino.blocks[i]
  BY <1>5
<1>11. \A i, j \in have \cup got : all[i] = all[j] => i = j
  <2> HIDE DEF all, have, missing
  <2> QED
    BY <1>7, <1>8, <1>10
<1>12. all \in UNION {[I -> Lba] : I \in SUBSET BlockIndex}
  <2> HIDE DEF all, have, missing
  <2>1. all \in [have \cup got -> Lba]
    <3>1. \A i \in have \cup got : all[i] \in Lba
      BY <1>2, <1>7, <1>8, <1>10
    <3>2. all = [i \in have \cup got |-> all[i]]
      BY DEF all
    <3> QED
      BY <3>1, <3>2
  <2>2. have \cup got \in SUBSET BlockIndex
    BY <1>5, <1>8, <1>9
  <2> QED
    BY <2>1, <2>2
<1>13. /\ reached \subseteq have \cup got
       /\ got = missing => reached = Touched(off, data)
       /\ reached \subseteq Touched(off, data)
  <2>1. ASSUME NEW i \in reached, i \in missing \ got PROVE FALSE
    <3>1. i < i /\ i \in BlockIndex
      BY <1>9, <2>1
    <3>2. i \in Int
      BY <3>1 DEF BlockIndex
    <3> QED
      BY <3>1, <3>2
  <2> QED
    BY <2>1
<1> HIDE DEF reached
<1>14. ASSUME NEW i \in reached
       PROVE  cells[all[i]] = Overlaid(s.block[all[i]], BlockSize * i, off, data)
  <2>1. (CHOOSE j \in reached : all[j] = all[i]) = i
    <3> HIDE DEF all, have, missing
    <3> QED
      BY <1>11, <1>13
  <2>2. all[i] \in Lba
    <3> HIDE DEF all, have, missing
    <3> QED
      BY <1>2, <1>7, <1>8, <1>10, <1>13
  <2> HIDE DEF all
  <2> QED
    BY <2>1, <2>2
<1>15. ASSUME NEW lba \in Lba, \A i \in reached : all[i] # lba
       PROVE  cells[lba] = s.block[lba]
  <2> HIDE DEF all
  <2> QED
    BY <1>15
<1>16. ASSUME NEW i \in reached
       PROVE  /\ i \in Nat
              /\ cells[all[i]] \in [Cell -> Byte]
              /\ \A o \in Nat : o \div BlockSize = i =>
                    cells[all[i]][o % BlockSize] =
                        IF o \in Place(off, data) THEN data[o - off + 1]
                        ELSE s.block[all[i]][o % BlockSize]
  <2> HIDE DEF all, have, missing, cells
  <2>1. i \in Nat /\ BlockSize * i \in Nat
    <3>1. i \in BlockIndex
      BY <1>9, <1>13
    <3>2. i \in Nat
      BY <3>1 DEF BlockIndex
    <3> QED
      BY <1>3, <3>2
  <2>2. all[i] \in Lba
    BY <1>2, <1>7, <1>8, <1>10, <1>13
  <2>3. s.block[all[i]] \in [Cell -> Byte]
    BY <1>2, <2>2
  <2> QED
    BY <1>1, <1>14, <2>1, <2>3, OverlaidBlock
<1>17. cells \in [Lba -> [Cell -> Byte]]
  <2>1. cells = [lba \in Lba |-> cells[lba]]
    OBVIOUS
  <2> HIDE DEF cells, all
  <2>2. ASSUME NEW lba \in Lba PROVE cells[lba] \in [Cell -> Byte]
    BY <1>2, <1>15, <1>16
  <2> QED
    BY <2>1, <2>2
<1>18. /\ n \in 0 .. MaxSize
       /\ s.ino.size <= n
       /\ n <= Larger(s.ino.size, off + Len(data))
       /\ got # missing => n <= Larger(s.ino.size, off + Len(data) - 1)
  BY <1>1, <1>2, <1>3 DEF Larger
<1> HIDE DEF all, n
<1>19. /\ grown \in INode /\ grown.storage = "Index" /\ grown.size = n
       /\ grown.node = s.ino.node /\ grown.blocks = all
  <2>1. s.ino \in INode /\ n \in 0 .. MaxSize
    BY <1>2, <1>18
  <2> QED
    BY <1>6, <1>12, <2>1 DEF INode
<1> HIDE DEF grown, cells, blocks, ino, blk
<1>20. t = [at |-> IF got = missing THEN "done" ELSE "failed",
            free |-> s.free \ {new[i] : i \in got}, block |-> cells, ino |-> grown]
  BY <1>4a
<1> HIDE DEF missing, have
<1>21. /\ t \in Stage /\ t.ino = grown /\ t.block = cells
       /\ t.free = s.free \ {new[i] : i \in got}
       /\ t.at \in {"done", "failed"} /\ (t.at = "done" <=> got = missing)
  BY <1>2, <1>17, <1>19, <1>20 DEF Stage
<1>22. Range(all) = Range(s.ino.blocks) \cup {new[i] : i \in got}
  BY <1>10 DEF Range, have
<1>23. s.ino.node \notin Range(all)
  BY <1>7, <1>8, <1>22 DEF Range, have
<1>24. WellShaped(grown)
  <2>1. IsInjective(all)
    BY <1>10, <1>11 DEF IsInjective
  <2>2. 0 \in DOMAIN all /\ grown.node # NoLba
    BY <1>3, <1>8, <1>10, <1>19
  <2> QED
    BY <1>19, <1>23, <2>1, <2>2 DEF WellShaped
<1>25. Own(grown) = Own(s.ino) \cup {new[i] : i \in got}
       /\ {new[i] : i \in got} \subseteq s.free
  BY <1>7, <1>19, <1>22 DEF Own
<1>26. \A lba \in Lba \ Own(grown) : cells[lba] = s.block[lba]
  <2> SUFFICES ASSUME NEW lba \in Lba \ Own(grown) PROVE cells[lba] = s.block[lba]
    OBVIOUS
  <2>1. \A i \in reached : all[i] \in Range(all)
    BY <1>10, <1>13 DEF Range
  <2> QED
    BY <1>15, <1>19, <2>1 DEF Own
<1>27. ASSUME NEW o \in D
       PROVE  Backed(grown, o) /\ Read(grown, cells, o) = Read(s.ino, s.block, o)
  <2>1. o \in Nat /\ o \notin Place(off, data) /\ o \div BlockSize \in have
    BY <1>2 DEF Ready, Backed, have
  <2> DEFINE i == o \div BlockSize
  <2>2. all[i] = s.ino.blocks[i] /\ all[i] \in Lba /\ i \in DOMAIN all
    BY <1>8, <1>10, <2>1
  <2>3. Read(s.ino, s.block, o) = s.block[all[i]][o % BlockSize]
    BY <2>1, <2>2 DEF Read, have
  <2>4. Read(grown, cells, o) = cells[all[i]][o % BlockSize]
    BY <1>19, <2>2 DEF Read
  <2>5. cells[all[i]][o % BlockSize] = s.block[all[i]][o % BlockSize]
    <3>1. CASE i \in reached
      BY <1>16, <2>1, <3>1
    <3>2. CASE i \notin reached
      <4>1. \A j \in reached : all[j] # all[i]
        BY <1>10, <1>11, <1>13, <2>2, <3>2
      <4> QED
        BY <1>15, <2>2, <4>1
    <3> QED
      BY <3>1, <3>2
  <2> QED
    BY <1>19, <2>2, <2>3, <2>4, <2>5 DEF Backed
<1>28. ASSUME NEW o \in Place(off, data), got = missing
       PROVE  Backed(grown, o) /\ Read(grown, cells, o) = data[o - off + 1]
  <2>1. o \in Nat /\ off <= o /\ o <= off + Len(data) - 1 /\ off + Len(data) - 1 \in Nat
    BY <1>1 DEF Place
  <2> DEFINE i == o \div BlockSize
  <2>2. i \in Touched(off, data)
    <3>1. /\ off \div BlockSize \in Nat /\ i \in Nat
          /\ (off + Len(data) - 1) \div BlockSize \in Nat
          /\ off \div BlockSize <= i /\ i <= (off + Len(data) - 1) \div BlockSize
      BY <1>1, <2>1, PositionInBlock, BlocksInOrder
    <3> QED
      BY <3>1 DEF Touched
  <2>3. i \in reached /\ i \in DOMAIN all
    BY <1>10, <1>13, <1>28, <2>2
  <2>4. Read(grown, cells, o) = cells[all[i]][o % BlockSize]
    BY <1>19, <2>3 DEF Read
  <2>5. cells[all[i]][o % BlockSize] = data[o - off + 1]
    BY <1>16, <2>1, <2>3
  <2> QED
    BY <1>19, <2>3, <2>4, <2>5 DEF Backed
<1>29. got = missing => n = Larger(s.ino.size, off + Len(data))
  BY DEF n
<1>30. /\ t.free \subseteq s.free
       /\ Own(grown) = Own(s.ino) \cup (s.free \ t.free)
  BY <1>21, <1>25
<1>31. /\ \A o \in D : Backed(grown, o) /\ Read(grown, cells, o) = Read(s.ino, s.block, o)
       /\ got = missing => \A o \in Place(off, data) :
            Backed(grown, o) /\ Read(grown, cells, o) = data[o - off + 1]
  BY <1>27, <1>28
<1>32. /\ t.at = "done" => n = Larger(s.ino.size, off + Len(data))
       /\ t.at # "done" => n <= Larger(s.ino.size, off + Len(data) - 1)
  <2>1. t.at = "done" <=> got = missing
    BY <1>21
  <2>2. got # missing => n <= Larger(s.ino.size, off + Len(data) - 1)
    BY <1>18
  <2> QED
    BY <1>29, <2>1, <2>2
<1>33. s.ino.size <= t.ino.size /\ t.ino.size = n
  <2>1. t.ino.size = n
    BY <1>19, <1>21
  <2>2. s.ino.size <= n
    BY <1>18
  <2> QED
    BY <2>1, <2>2
<1> QED
  BY <1>21, <1>24, <1>26, <1>30, <1>31, <1>32, <1>33 DEF Keeps
-----------------------------------------------------------------------------
\* The state in which write_data begins.
Start(f) == [at |-> "go", ino |-> inode[f], block |-> block, free |-> free]

\* A file's blocks, its bytes and its inode, in the terms of the stages.
LEMMA OfFile ==
    ASSUME NEW f \in File
    PROVE  /\ Owned(f) = Own(inode[f])
           /\ \A o : ReadByte(f, o) = Read(inode[f], block, o)
  BY DEF Owned, Own, ReadByte, Read

\* write_data begins in order.
LEMMA StartReady ==
    ASSUME Inv, NEW f \in File, NEW off \in 0 .. MaxSize - 1, NEW data \in Data,
           off + Len(data) <= MaxSize
    PROVE  Ready(Start(f), off, data, defined[f] \ Place(off, data))
<1>1. /\ inode[f] \in INode /\ block \in [Lba -> [Cell -> Byte]] /\ free \subseteq Lba
      /\ defined[f] \subseteq 0 .. inode[f].size - 1
  BY DEF Inv, TypeOK
<1>2. Start(f) \in Stage
  BY <1>1 DEF Start, Stage
<1>3. Start(f).ino = inode[f] /\ Start(f).free = free
  BY DEF Start
<1>4. WellShaped(inode[f]) /\ \A o \in defined[f] : Backed(inode[f], o)
  BY DEF Inv, ShapesFit, DefinedBacked
<1>5. Own(inode[f]) \cap free = {}
  BY OfFile DEF Inv, BlocksPartitioned
<1>6. off \in Nat
  BY FileAssumption
<1> QED
  BY <1>1, <1>2, <1>3, <1>4, <1>5, <1>6 DEF Ready

\* A write ends in the state t of its stages.
Outcome(t, f, off, data) ==
    /\ Keeps(t, Start(f), off, data, defined[f] \ Place(off, data))
    /\ t.at \in {"done", "failed"}
    /\ inode' = [inode EXCEPT ![f] = t.ino]
    /\ block' = t.block
    /\ free' = t.free
    /\ ok' = (t.at = "done")
    /\ defined' = [defined EXCEPT ![f] =
            IF t.at = "done" THEN @ \cup Place(off, data) ELSE @ \ Place(off, data)]

\* write_data, its three stages as one.
LEMMA WriteEffect ==
    ASSUME Inv, NEW f \in File, NEW off \in 0 .. MaxSize - 1, NEW data \in Data,
           off + Len(data) <= MaxSize, WriteData(f, off, data)
    PROVE  \E t \in Stage : Outcome(t, f, off, data)
<1> DEFINE s == Start(f)
           D == defined[f] \ Place(off, data)
<1>1. PICK s1 \in InInode(s, off, data) : \E s2 \in InBlock(s1, off, data) :
        \E s3 \in InIndex(s2, off, data) :
            /\ inode' = [inode EXCEPT ![f] = s3.ino]
            /\ block' = s3.block
            /\ free' = s3.free
            /\ ok' = (s3.at = "done")
            /\ defined' = [defined EXCEPT ![f] =
                IF ok' THEN @ \cup Place(off, data) ELSE @ \ Place(off, data)]
  BY DEF WriteData, Start
<1>2. PICK s2 \in InBlock(s1, off, data) : \E s3 \in InIndex(s2, off, data) :
            /\ inode' = [inode EXCEPT ![f] = s3.ino]
            /\ block' = s3.block
            /\ free' = s3.free
            /\ ok' = (s3.at = "done")
            /\ defined' = [defined EXCEPT ![f] =
                IF ok' THEN @ \cup Place(off, data) ELSE @ \ Place(off, data)]
  BY <1>1
<1>3. PICK s3 \in InIndex(s2, off, data) :
            /\ inode' = [inode EXCEPT ![f] = s3.ino]
            /\ block' = s3.block
            /\ free' = s3.free
            /\ ok' = (s3.at = "done")
            /\ defined' = [defined EXCEPT ![f] =
                IF ok' THEN @ \cup Place(off, data) ELSE @ \ Place(off, data)]
  BY <1>2
<1>4. Ready(s, off, data, D)
  BY StartReady
<1>5. s.at = "go"
  BY DEF Start
<1> HIDE DEF s, D
<1>6. Keeps(s1, s, off, data, D) /\ (s1.at = "go" => s1.ino.storage # "Inline")
  BY <1>4, <1>5, InInodeKeeps
<1>7. Keeps(s2, s, off, data, D) /\ (s2.at = "go" => s2.ino.storage = "Index")
  <2>1. CASE s1.at = "go"
    <3>1. Ready(s1, off, data, D)
      BY <1>4, <1>6, ReadyOn
    <3>2. Keeps(s2, s1, off, data, D) /\ (s2.at = "go" => s2.ino.storage = "Index")
      BY <1>6, <2>1, <3>1, InBlockKeeps
    <3> QED
      BY <1>4, <1>6, <2>1, <3>2, KeepsOn
  <2>2. CASE s1.at # "go"
    BY <1>6, <2>2 DEF InBlock
  <2> QED
    BY <2>1, <2>2
<1>8. Keeps(s3, s, off, data, D) /\ s3.at # "go"
  <2>1. CASE s2.at = "go"
    <3>1. Ready(s2, off, data, D)
      BY <1>4, <1>7, ReadyOn
    <3>2. Keeps(s3, s2, off, data, D) /\ s3.at # "go"
      BY <1>7, <2>1, <3>1, InIndexKeeps
    <3> QED
      BY <1>4, <1>7, <2>1, <3>2, KeepsOn
  <2>2. CASE s2.at # "go"
    BY <1>7, <2>2 DEF InIndex
  <2> QED
    BY <2>1, <2>2
<1>9. s3 \in Stage /\ s3.at \in {"done", "failed"}
  <2>1. s3 \in Stage
    BY <1>8 DEF Keeps
  <2> QED
    BY <1>8, <2>1 DEF Stage
<1>10. defined' = [defined EXCEPT ![f] =
            IF s3.at = "done" THEN @ \cup Place(off, data) ELSE @ \ Place(off, data)]
  BY <1>3
<1> QED
  BY <1>3, <1>8, <1>9, <1>10 DEF s, D, Outcome

\* What a write to one file leaves of the others: everything.
LEMMA OthersKept ==
    ASSUME Inv, NEW f \in File, NEW g \in File, g # f, NEW off \in 0 .. MaxSize - 1,
           NEW data \in Data, NEW t, Outcome(t, f, off, data)
    PROVE  /\ inode'[g] = inode[g] /\ defined'[g] = defined[g]
           /\ Own(inode[g]) \cap Own(inode'[f]) = {}
           /\ \A o \in defined[g] : Read(inode[g], block', o) = Read(inode[g], block, o)
<1>1. /\ Keeps(t, Start(f), off, data, defined[f] \ Place(off, data))
      /\ inode' = [inode EXCEPT ![f] = t.ino]
      /\ block' = t.block
      /\ defined' = [defined EXCEPT ![f] =
            IF t.at = "done" THEN @ \cup Place(off, data) ELSE @ \ Place(off, data)]
  BY DEF Outcome
<1>2. inode \in [File -> INode] /\ DOMAIN inode = File
  BY DEF Inv, TypeOK
<1>3. inode'[g] = inode[g] /\ defined'[g] = defined[g] /\ inode'[f] = t.ino
  BY <1>1, <1>2
<1>4. Own(inode[g]) \subseteq Lba \ free /\ Own(inode[g]) \cap Own(inode[f]) = {}
  BY OfFile DEF Inv, BlocksPartitioned
<1>5. Own(t.ino) \subseteq Own(inode[f]) \cup free
  BY <1>1 DEF Keeps, Start
<1>6. Own(inode[g]) \cap Own(t.ino) = {}
  BY <1>4, <1>5
<1>7. \A lba \in Own(inode[g]) : block'[lba] = block[lba]
  BY <1>1, <1>4, <1>6 DEF Keeps, Start
<1>8. ASSUME NEW o \in defined[g] PROVE Read(inode[g], block', o) = Read(inode[g], block, o)
  <2>1. WellShaped(inode[g]) /\ Backed(inode[g], o)
    BY DEF Inv, ShapesFit, DefinedBacked
  <2>2. \A i \in DOMAIN inode[g].blocks : inode[g].blocks[i] \in Own(inode[g])
    BY DEF Own, Range
  <2>3. inode[g].storage \in {"Inline", "Direct", "Index"}
    BY <1>2 DEF INode
  <2>4. CASE inode[g].storage = "Inline"
    BY <2>4 DEF Read
  <2>5. CASE inode[g].storage = "Direct"
    <3>1. 0 \in DOMAIN inode[g].blocks
      BY <2>1, <2>5 DEF WellShaped
    <3> QED
      BY <1>7, <2>2, <2>5, <3>1 DEF Read
  <2>6. CASE inode[g].storage = "Index"
    <3>1. o \div BlockSize \in DOMAIN inode[g].blocks
      BY <2>1, <2>6 DEF Backed
    <3> QED
      BY <1>7, <2>2, <2>6, <3>1 DEF Read
  <2> QED
    BY <2>3, <2>4, <2>5, <2>6
<1> QED
  BY <1>3, <1>6, <1>8

\* What a write makes of its own file.
LEMMA WrittenFile ==
    ASSUME Inv, NEW f \in File, NEW off \in 0 .. MaxSize - 1, NEW data \in Data,
           NEW t \in Stage, Outcome(t, f, off, data)
    PROVE  /\ inode'[f] = t.ino /\ WellShaped(t.ino)
           /\ inode[f].size \in Nat /\ t.ino.size \in Nat /\ inode[f].size <= t.ino.size
           /\ t.free \subseteq free /\ Own(t.ino) = Own(inode[f]) \cup (free \ t.free)
           /\ \A o \in defined[f] \ Place(off, data) :
                Backed(t.ino, o) /\ Read(t.ino, t.block, o) = Read(inode[f], block, o)
           /\ t.at = "done" =>
                /\ t.ino.size = Larger(inode[f].size, off + Len(data))
                /\ defined'[f] = defined[f] \cup Place(off, data)
                /\ \A o \in Place(off, data) :
                        Backed(t.ino, o) /\ Read(t.ino, t.block, o) = data[o - off + 1]
           /\ t.at # "done" =>
                /\ t.ino.size <= Larger(inode[f].size, off + Len(data) - 1)
                /\ defined'[f] = defined[f] \ Place(off, data)
<1>1. inode \in [File -> INode] /\ defined \in [File -> SUBSET Nat]
  BY DEF Inv, TypeOK
<1>2. inode[f].size \in Nat /\ t.ino.size \in Nat
  BY <1>1 DEF Stage, INode
<1>3. inode'[f] = t.ino
  BY <1>1 DEF Outcome
<1>4. defined'[f] = IF t.at = "done" THEN defined[f] \cup Place(off, data)
                    ELSE defined[f] \ Place(off, data)
  BY <1>1 DEF Outcome
<1>5. Start(f).ino = inode[f] /\ Start(f).block = block /\ Start(f).free = free
  BY DEF Start
<1>6. Keeps(t, Start(f), off, data, defined[f] \ Place(off, data))
  BY DEF Outcome
<1> QED
  BY <1>2, <1>3, <1>4, <1>5, <1>6 DEF Keeps

\* A write keeps the invariant, also when it fails half way.
LEMMA WriteKeeps ==
    ASSUME Inv, NEW f \in File, NEW off \in 0 .. MaxSize - 1, NEW data \in Data,
           off + Len(data) <= MaxSize, WriteData(f, off, data)
    PROVE  Inv'
<1>1. PICK t \in Stage : Outcome(t, f, off, data)
  BY WriteEffect
<1>2. /\ inode \in [File -> INode] /\ defined \in [File -> SUBSET Nat]
      /\ \A g \in File : defined[g] \subseteq 0 .. inode[g].size - 1
  BY DEF Inv, TypeOK
<1>3. /\ t.ino \in INode /\ t.block \in [Lba -> [Cell -> Byte]] /\ t.free \subseteq Lba
  BY DEF Stage
<1>4. /\ inode' = [inode EXCEPT ![f] = t.ino] /\ inode' \in [File -> INode]
      /\ block' = t.block /\ free' = t.free /\ ok' \in BOOLEAN
  <2>1. inode' = [inode EXCEPT ![f] = t.ino] /\ block' = t.block /\ free' = t.free
    BY <1>1 DEF Outcome
  <2>2. inode' \in [File -> INode]
    BY <1>2, <1>3, <2>1
  <2>3. ok' \in BOOLEAN
    BY <1>1 DEF Outcome
  <2> QED
    BY <2>1, <2>2, <2>3
<1>5. \A g \in File \ {f} : /\ inode'[g] = inode[g] /\ defined'[g] = defined[g]
                            /\ Own(inode[g]) \cap Own(inode'[f]) = {}
  BY <1>1, OthersKept
<1>6. /\ inode'[f] = t.ino /\ WellShaped(t.ino)
      /\ inode[f].size \in Nat /\ t.ino.size \in Nat /\ inode[f].size <= t.ino.size
      /\ t.free \subseteq free /\ Own(t.ino) = Own(inode[f]) \cup (free \ t.free)
  BY <1>1, WrittenFile
<1>7. Place(off, data) \subseteq Nat /\ Len(data) \in Nat \ {0} /\ off \in Nat
  BY DataFacts, FileAssumption DEF Place
<1>8. defined' \in [File -> SUBSET Nat]
  BY <1>1, <1>2, <1>7 DEF Outcome
<1>9. /\ defined'[f] \subseteq 0 .. t.ino.size - 1
      /\ \A o \in defined'[f] : Backed(t.ino, o)
  <2>1. defined[f] \subseteq 0 .. t.ino.size - 1
    BY <1>2, <1>6
  <2>2. \A o \in defined[f] \ Place(off, data) : Backed(t.ino, o)
    BY <1>1, WrittenFile
  <2>3. CASE t.at = "done"
    <3>1. /\ t.ino.size = Larger(inode[f].size, off + Len(data))
          /\ defined'[f] = defined[f] \cup Place(off, data)
          /\ \A o \in Place(off, data) : Backed(t.ino, o)
      BY <1>1, <2>3, WrittenFile
    <3>2. Place(off, data) \subseteq 0 .. t.ino.size - 1
      BY <1>6, <1>7, <3>1 DEF Place, Larger
    <3> QED
      BY <2>1, <2>2, <3>1, <3>2
  <2>4. CASE t.at # "done"
    <3>1. defined'[f] = defined[f] \ Place(off, data)
      BY <1>1, <2>4, WrittenFile
    <3> QED
      BY <2>1, <2>2, <3>1
  <2> QED
    BY <2>3, <2>4
<1>10. TypeOK'
  <2>1. \A g \in File : defined'[g] \subseteq 0 .. inode'[g].size - 1
    BY <1>2, <1>5, <1>6, <1>9
  <2> QED
    BY <1>3, <1>4, <1>8, <2>1 DEF TypeOK
<1>11. ShapesFit'
  <2>1. \A g \in File \ {f} : WellShaped(inode'[g])
    BY <1>5 DEF Inv, ShapesFit
  <2> QED
    BY <1>6, <2>1 DEF ShapesFit
<1>12. DefinedBacked'
  <2>1. \A g \in File \ {f} : \A o \in defined'[g] : Backed(inode'[g], o)
    BY <1>5 DEF Inv, DefinedBacked
  <2> QED
    BY <1>6, <1>9, <2>1 DEF DefinedBacked
<1>13. BlocksPartitioned'
  <2>1. \A g \in File : Owned(g)' = Own(inode'[g])
    BY DEF Owned, Own
  <2>2. /\ UNION {Own(inode[g]) : g \in File} = Lba \ free
        /\ \A g, h \in File : g # h => Own(inode[g]) \cap Own(inode[h]) = {}
    <3>1. \A g \in File : Owned(g) = Own(inode[g])
      BY OfFile
    <3> QED
      BY <3>1 DEF Inv, BlocksPartitioned
  <2>3. \A g \in File \ {f} : Own(inode'[g]) = Own(inode[g])
    BY <1>5
  <2>4. Own(inode'[f]) = Own(inode[f]) \cup (free \ free')
    BY <1>4, <1>6
  <2>5. free' \subseteq free /\ free \subseteq Lba
    BY <1>4, <1>6 DEF Inv, TypeOK
  <2>6. UNION {Own(inode'[g]) : g \in File} = Lba \ free'
    <3>1. ASSUME NEW g \in File PROVE Own(inode'[g]) \subseteq Lba \ free'
      <4>1. Own(inode[g]) \subseteq Lba \ free
        BY <2>2
      <4> QED
        BY <2>3, <2>4, <2>5, <4>1
    <3>2. ASSUME NEW lba \in Lba \ free' PROVE \E g \in File : lba \in Own(inode'[g])
      <4>1. CASE lba \in free
        BY <2>4, <4>1
      <4>2. CASE lba \notin free
        <5>1. PICK g \in File : lba \in Own(inode[g])
          BY <2>2, <4>2
        <5> QED
          BY <2>3, <2>4, <5>1
      <4> QED
        BY <4>1, <4>2
    <3> QED
      BY <3>1, <3>2
  <2>7. \A g, h \in File : g # h => Own(inode'[g]) \cap Own(inode'[h]) = {}
    BY <1>5, <2>2, <2>3
  <2>8. \A g \in File : IsInjective(inode'[g].blocks)
                        /\ inode'[g].node \notin Range(inode'[g].blocks)
    BY <1>11 DEF ShapesFit, WellShaped
  <2> QED
    BY <2>1, <2>6, <2>7, <2>8 DEF BlocksPartitioned
<1> QED
  BY <1>10, <1>11, <1>12, <1>13 DEF Inv

\* A blank inode has no blocks.
LEMMA BlankInode ==
    /\ Blank \in INode /\ Blank.size = 0 /\ Blank.storage = "Inline"
    /\ Blank.node = NoLba /\ DOMAIN Blank.blocks = {}
    /\ Own(Blank) = {} /\ WellShaped(Blank)
<1>1. /\ Blank \in INode /\ Blank.size = 0 /\ Blank.storage = "Inline" /\ Blank.node = NoLba
      /\ DOMAIN Blank.blocks = {}
  <2>1. [i \in {} |-> NoLba] \in UNION {[I -> Lba] : I \in SUBSET BlockIndex}
    <3>1. [i \in {} |-> NoLba] \in [{} -> Lba] /\ {} \in SUBSET BlockIndex
      OBVIOUS
    <3> QED
      BY <3>1
  <2>2. [c \in 0 .. InlineSize - 1 |-> Zero] \in [0 .. InlineSize - 1 -> Byte]
    BY DEF Byte
  <2>3. 0 \in 0 .. MaxSize
    BY FileAssumption
  <2> QED
    BY <2>1, <2>2, <2>3 DEF Blank, INode
<1>2. Own(Blank) = {} /\ WellShaped(Blank)
  BY <1>1, FileAssumption DEF Own, Range, WellShaped, IsInjective
<1> QED
  BY <1>1, <1>2

\* free_inode gives back exactly what the file had.
LEMMA FreeKeeps ==
    ASSUME Inv, NEW f \in File, FreeInode(f)
    PROVE  Inv'
<1>1. /\ inode \in [File -> INode] /\ defined \in [File -> SUBSET Nat]
      /\ block \in [Lba -> [Cell -> Byte]] /\ free \subseteq Lba
      /\ \A g \in File : defined[g] \subseteq 0 .. inode[g].size - 1
  BY DEF Inv, TypeOK
<1>2. Blank \in INode /\ Blank.size = 0
  BY BlankInode
<1>3. Own(Blank) = {} /\ WellShaped(Blank)
  BY BlankInode
<1>4. /\ inode' = [inode EXCEPT ![f] = Blank] /\ defined' = [defined EXCEPT ![f] = {}]
      /\ free' = free \cup Own(inode[f]) /\ ok' = TRUE /\ block' = block
  BY OfFile DEF FreeInode
<1>5. /\ inode' \in [File -> INode] /\ inode'[f] = Blank
      /\ \A g \in File \ {f} : inode'[g] = inode[g]
  BY <1>1, <1>2, <1>4
<1>6. /\ defined' \in [File -> SUBSET Nat] /\ defined'[f] = {}
      /\ \A g \in File \ {f} : defined'[g] = defined[g]
  BY <1>1, <1>4
<1>7. /\ UNION {Own(inode[g]) : g \in File} = Lba \ free
      /\ \A g, h \in File : g # h => Own(inode[g]) \cap Own(inode[h]) = {}
  <2>1. \A g \in File : Owned(g) = Own(inode[g])
    BY OfFile
  <2> QED
    BY <2>1 DEF Inv, BlocksPartitioned
<1>8. TypeOK'
  <2>1. free' \subseteq Lba
    BY <1>1, <1>4, <1>7
  <2>2. \A g \in File : defined'[g] \subseteq 0 .. inode'[g].size - 1
    BY <1>1, <1>5, <1>6
  <2> QED
    BY <1>1, <1>4, <1>5, <1>6, <2>1, <2>2 DEF TypeOK
<1>9. ShapesFit'
  BY <1>3, <1>5 DEF Inv, ShapesFit
<1>10. DefinedBacked'
  BY <1>5, <1>6 DEF Inv, DefinedBacked
<1>11. BlocksPartitioned'
  <2>1. \A g \in File : Owned(g)' = Own(inode'[g])
    BY DEF Owned, Own
  <2>2. \A g \in File \ {f} : Own(inode'[g]) = Own(inode[g])
    BY <1>5
  <2>3. Own(inode'[f]) = {}
    BY <1>3, <1>5
  <2>4. UNION {Own(inode'[g]) : g \in File} = Lba \ free'
    <3>1. ASSUME NEW g \in File PROVE Own(inode'[g]) \subseteq Lba \ free'
      <4>1. CASE g = f
        BY <2>3, <4>1
      <4>2. CASE g # f
        <5>1. Own(inode[g]) \subseteq Lba \ free /\ Own(inode[g]) \cap Own(inode[f]) = {}
          BY <1>7, <4>2
        <5> QED
          BY <1>4, <2>2, <4>2, <5>1
      <4> QED
        BY <4>1, <4>2
    <3>2. ASSUME NEW lba \in Lba \ free' PROVE \E g \in File : lba \in Own(inode'[g])
      <4>1. lba \in Lba \ free /\ lba \notin Own(inode[f])
        BY <1>4
      <4>2. PICK g \in File : lba \in Own(inode[g])
        BY <1>7, <4>1
      <4> QED
        BY <2>2, <4>1, <4>2
    <3> QED
      BY <3>1, <3>2
  <2>5. \A g, h \in File : g # h => Own(inode'[g]) \cap Own(inode'[h]) = {}
    BY <1>7, <2>2, <2>3
  <2>6. \A g \in File : IsInjective(inode'[g].blocks)
                        /\ inode'[g].node \notin Range(inode'[g].blocks)
    BY <1>9 DEF ShapesFit, WellShaped
  <2> QED
    BY <2>1, <2>4, <2>5, <2>6 DEF BlocksPartitioned
<1> QED
  BY <1>8, <1>9, <1>10, <1>11 DEF Inv

\* The empty disk.
LEMMA InitEstablishes == Init => Inv
<1> SUFFICES ASSUME Init PROVE Inv
  OBVIOUS
<1>1. /\ Blank \in INode /\ Blank.size = 0 /\ Blank.storage = "Inline" /\ Blank.node = NoLba
      /\ DOMAIN Blank.blocks = {}
  BY BlankInode
<1>2. Own(Blank) = {} /\ WellShaped(Blank)
  BY BlankInode
<1>3. \A f \in File : inode[f] = Blank /\ defined[f] = {} /\ Owned(f) = {}
  BY <1>2, OfFile DEF Init
<1>4. TypeOK
  <2>1. block \in [Lba -> [Cell -> Byte]]
    BY DEF Init, Byte
  <2>2. inode \in [File -> INode] /\ defined \in [File -> SUBSET Nat]
    BY <1>1 DEF Init
  <2> QED
    BY <1>3, <2>1, <2>2 DEF Init, TypeOK
<1>5. BlocksPartitioned
  <2>1. UNION {Owned(f) : f \in File} = Lba \ free
    BY <1>3 DEF Init
  <2>2. \A f \in File : IsInjective(inode[f].blocks)
                        /\ inode[f].node \notin Range(inode[f].blocks)
    BY <1>2, <1>3 DEF WellShaped
  <2> QED
    BY <1>3, <2>1, <2>2 DEF BlocksPartitioned
<1>6. ShapesFit /\ DefinedBacked
  BY <1>2, <1>3 DEF ShapesFit, DefinedBacked
<1> QED
  BY <1>4, <1>5, <1>6 DEF Inv

\* No step leaves the invariant.
LEMMA NextKeeps == Inv /\ [Next]_vars => Inv'
<1> SUFFICES ASSUME Inv, [Next]_vars PROVE Inv'
  OBVIOUS
<1>1. CASE \E f \in File, off \in 0 .. MaxSize - 1, data \in Data :
            off + Len(data) <= MaxSize /\ WriteData(f, off, data)
  BY <1>1, WriteKeeps
<1>2. CASE \E f \in File : FreeInode(f)
  BY <1>2, FreeKeeps
<1>3. CASE UNCHANGED vars
  <2>1. inode' = inode /\ block' = block /\ free' = free /\ ok' = ok /\ defined' = defined
    BY <1>3 DEF vars
  <2>2. TypeOK'
    BY <2>1 DEF Inv, TypeOK
  <2>3. BlocksPartitioned'
    BY <2>1 DEF Inv, BlocksPartitioned, Owned
  <2>4. ShapesFit' /\ DefinedBacked'
    BY <2>1 DEF Inv, ShapesFit, DefinedBacked
  <2> QED
    BY <2>2, <2>3, <2>4 DEF Inv
<1> QED
  BY <1>1, <1>2, <1>3 DEF Next

\* The invariant holds for every set of files and blocks and every block size.
THEOREM Invariance == Spec => []Inv
<1>1. Init => Inv
  BY InitEstablishes
<1>2. Inv /\ [Next]_vars => Inv'
  BY NextKeeps
<1> QED
  BY <1>1, <1>2, PTL DEF Spec

\* The variables keep their types, the sizes and positions of files included.
THEOREM TypeCorrect == Spec => []TypeOK
<1>1. Inv => TypeOK
  BY DEF Inv
<1> QED
  BY <1>1, Invariance, PTL

\* No block is lost or has two owners, whatever writes fail half way.
THEOREM BlocksCorrect == Spec => []BlocksPartitioned
<1>1. Inv => BlocksPartitioned
  BY DEF Inv
<1> QED
  BY <1>1, Invariance, PTL

\* A read within the size stays inside the inode or inside the file's block.
THEOREM SizeCorrect == Spec => []SizeFitsStorage
<1>1. Inv => SizeFitsStorage
  <2> SUFFICES ASSUME Inv PROVE SizeFitsStorage
    OBVIOUS
  <2>1. ASSUME NEW f \in File
        PROVE  CASE inode[f].storage = "Inline" -> inode[f].size <= InlineSize /\ Owned(f) = {}
                 [] inode[f].storage = "Direct" ->
                        inode[f].size <= BlockSize /\ DOMAIN inode[f].blocks = {0}
                 [] inode[f].storage = "Index" ->
                        0 \in DOMAIN inode[f].blocks /\ inode[f].node # NoLba
    <3>1. WellShaped(inode[f]) /\ inode[f].storage \in {"Inline", "Direct", "Index"}
      BY DEF Inv, ShapesFit, TypeOK, INode
    <3>2. inode[f].storage = "Inline" => Owned(f) = {}
      BY <3>1 DEF WellShaped, Owned, Range
    <3> QED
      BY <3>1, <3>2 DEF WellShaped
  <2> QED
    BY <2>1 DEF SizeFitsStorage, Inv
<1> QED
  BY <1>1, Invariance, PTL
-----------------------------------------------------------------------------
\* The bytes that are defined, as FileBytes has them.
Defined == [f \in File |-> [o \in defined[f] |-> ReadByte(f, o)]]
Sizes == [f \in File |-> inode[f].size]

\* write_data is a write of FileBytes, or one that failed.
LEMMA WriteImplements ==
    ASSUME Inv, NEW f \in File, NEW off \in 0 .. MaxSize - 1, NEW data \in Data,
           off + Len(data) <= MaxSize, WriteData(f, off, data)
    PROVE  Bytes!Write(f, off, data) \/ Bytes!WriteFails(f, off, data)
<1>1. PICK t \in Stage : Outcome(t, f, off, data)
  BY WriteEffect
<1>2. /\ inode' = [inode EXCEPT ![f] = t.ino] /\ block' = t.block
      /\ ok' = (t.at = "done") /\ t.at \in {"done", "failed"}
  BY <1>1 DEF Outcome
<1>3. inode \in [File -> INode] /\ defined \in [File -> SUBSET Nat]
  BY DEF Inv, TypeOK
<1>4. /\ inode'[f] = t.ino
      /\ inode[f].size \in Nat /\ t.ino.size \in Nat /\ inode[f].size <= t.ino.size
      /\ \A o \in defined[f] \ Place(off, data) :
            Read(t.ino, t.block, o) = Read(inode[f], block, o)
  BY <1>1, WrittenFile
<1>5. \A g \in File \ {f} :
        /\ inode'[g] = inode[g] /\ defined'[g] = defined[g]
        /\ \A o \in defined[g] : Read(inode[g], block', o) = Read(inode[g], block, o)
  BY <1>1, OthersKept
<1>6. \A g \in File, o \in Nat : ReadByte(g, o)' = Read(inode'[g], block', o)
  BY DEF ReadByte, Read
<1>7. \A g \in File : /\ Defined[g] = [o \in defined[g] |-> Read(inode[g], block, o)]
                      /\ Defined'[g] = [o \in defined'[g] |-> Read(inode'[g], block', o)]
  BY DEF Defined, ReadByte, Read
<1>8. ASSUME NEW g \in File \ {f} PROVE Defined'[g] = Defined[g]
  <2>1. Defined[g] = [o \in defined[g] |-> Read(inode[g], block, o)]
    BY <1>7
  <2>2. Defined'[g] = [o \in defined[g] |-> Read(inode[g], block', o)]
    BY <1>5, <1>7
  <2>3. \A o \in defined[g] : Read(inode[g], block', o) = Read(inode[g], block, o)
    BY <1>5
  <2> QED
    BY <2>1, <2>2, <2>3
<1>9. Sizes' = [Sizes EXCEPT ![f] = t.ino.size] /\ Sizes[f] = inode[f].size
  BY <1>3, <1>4, <1>5 DEF Sizes
<1>10. CASE t.at = "done"
  <2>1. /\ t.ino.size = Larger(inode[f].size, off + Len(data))
        /\ defined'[f] = defined[f] \cup Place(off, data)
        /\ \A o \in Place(off, data) : Read(t.ino, t.block, o) = data[o - off + 1]
    BY <1>1, <1>10, WrittenFile
  <2>2. Defined'[f] = [o \in DOMAIN Defined[f] \cup Place(off, data) |->
            IF o \in Place(off, data) THEN data[o - off + 1] ELSE Defined[f][o]]
    <3>1. /\ DOMAIN Defined[f] = defined[f]
          /\ \A o \in defined[f] : Defined[f][o] = Read(inode[f], block, o)
      BY <1>7
    <3>2. Defined'[f] = [o \in defined[f] \cup Place(off, data) |-> Read(t.ino, t.block, o)]
      <4>1. Defined'[f] = [o \in defined'[f] |-> Read(inode'[f], block', o)]
        BY <1>7
      <4>2. inode'[f] = t.ino /\ block' = t.block
        BY <1>2, <1>4
      <4> QED
        BY <2>1, <4>1, <4>2
    <3>3. \A o \in defined[f] \cup Place(off, data) : Read(t.ino, t.block, o) =
            IF o \in Place(off, data) THEN data[o - off + 1] ELSE Defined[f][o]
      BY <1>4, <2>1, <3>1
    <3> QED
      BY <3>1, <3>2, <3>3
  <2>3. Defined' = [Defined EXCEPT ![f] =
            [o \in DOMAIN @ \cup Place(off, data) |->
                IF o \in Place(off, data) THEN data[o - off + 1] ELSE @[o]]]
    BY <1>8, <2>2 DEF Defined
  <2>4. ok' = TRUE
    BY <1>2, <1>10
  <2>5. Bytes!Write(f, off, data)
    BY <1>9, <2>1, <2>3, <2>4
       DEF Bytes!Write, Bytes!Place, Bytes!Larger, Place, Larger, Defined, Sizes
  <2> QED
    BY <2>5
<1>11. CASE t.at # "done"
  <2>1. /\ t.ino.size <= Larger(inode[f].size, off + Len(data) - 1)
        /\ defined'[f] = defined[f] \ Place(off, data)
    BY <1>1, <1>11, WrittenFile
  <2>2. Defined'[f] = [o \in DOMAIN Defined[f] \ Place(off, data) |-> Defined[f][o]]
    <3>1. /\ DOMAIN Defined[f] = defined[f]
          /\ \A o \in defined[f] : Defined[f][o] = Read(inode[f], block, o)
      BY <1>7
    <3>2. Defined'[f] = [o \in defined[f] \ Place(off, data) |-> Read(t.ino, t.block, o)]
      <4>1. Defined'[f] = [o \in defined'[f] |-> Read(inode'[f], block', o)]
        BY <1>7
      <4>2. inode'[f] = t.ino /\ block' = t.block
        BY <1>2, <1>4
      <4> QED
        BY <2>1, <4>1, <4>2
    <3>3. \A o \in defined[f] \ Place(off, data) :
            Read(t.ino, t.block, o) = Defined[f][o]
      BY <1>4, <3>1
    <3> QED
      BY <3>1, <3>2, <3>3
  <2>3. Defined' = [Defined EXCEPT ![f] = [o \in DOMAIN @ \ Place(off, data) |-> @[o]]]
    BY <1>8, <2>2 DEF Defined
  <2>4. ok' = FALSE
    BY <1>2, <1>11
  <2>5. t.ino.size \in Sizes[f] .. Larger(Sizes[f], off + Len(data) - 1)
    <3>1. Len(data) \in Nat /\ off \in Nat
      BY DataFacts, FileAssumption
    <3> QED
      BY <1>4, <1>9, <2>1, <3>1 DEF Larger
  <2>6. Bytes!WriteFails(f, off, data)
    BY <1>9, <2>3, <2>4, <2>5
       DEF Bytes!WriteFails, Bytes!Place, Bytes!Larger, Place, Larger, Defined, Sizes
  <2> QED
    BY <2>6
<1> QED
  BY <1>10, <1>11

\* free_inode empties the file.
LEMMA FreeImplements ==
    ASSUME Inv, NEW f \in File, FreeInode(f)
    PROVE  Bytes!Remove(f)
<1>1. inode \in [File -> INode] /\ defined \in [File -> SUBSET Nat]
  BY DEF Inv, TypeOK
<1>2. /\ inode' = [inode EXCEPT ![f] = Blank] /\ defined' = [defined EXCEPT ![f] = {}]
      /\ ok' = TRUE /\ block' = block
  BY DEF FreeInode
<1>3. Sizes' = [Sizes EXCEPT ![f] = 0]
  <2>1. Blank.size = 0
    BY BlankInode
  <2> QED
    BY <1>1, <1>2, <2>1 DEF Sizes
<1>4. Defined'[f] = [o \in {} |-> 0]
  BY <1>1, <1>2 DEF Defined
<1>5. \A g \in File \ {f} : Defined'[g] = Defined[g]
  <2>1. \A g \in File \ {f} : inode'[g] = inode[g] /\ defined'[g] = defined[g]
    BY <1>1, <1>2
  <2>2. ASSUME NEW g \in File \ {f} PROVE Defined'[g] = Defined[g]
    <3>1. Defined[g] = [o \in defined[g] |-> Read(inode[g], block, o)]
      BY DEF Defined, ReadByte, Read
    <3>2. Defined'[g] = [o \in defined'[g] |-> Read(inode'[g], block', o)]
      BY DEF Defined, ReadByte, Read
    <3> QED
      BY <1>2, <2>1, <3>1, <3>2
  <2> QED
    BY <2>2
<1>6. Defined' = [Defined EXCEPT ![f] = [o \in {} |-> 0]]
  BY <1>4, <1>5 DEF Defined
<1> QED
  BY <1>2, <1>3, <1>6 DEF Bytes!Remove, Bytes!Nothing, Defined, Sizes

\* Every step is one of FileBytes, or none.
LEMMA NextImplements == Inv /\ [Next]_vars => [Bytes!Next]_(Bytes!vars)
<1> SUFFICES ASSUME Inv, [Next]_vars PROVE [Bytes!Next]_(Bytes!vars)
  OBVIOUS
<1>1. CASE \E f \in File, off \in 0 .. MaxSize - 1, data \in Data :
            off + Len(data) <= MaxSize /\ WriteData(f, off, data)
  BY <1>1, WriteImplements DEF Bytes!Next
<1>2. CASE \E f \in File : FreeInode(f)
  BY <1>2, FreeImplements DEF Bytes!Next
<1>3. CASE UNCHANGED vars
  BY <1>3 DEF vars, Bytes!vars, ReadByte
<1> QED
  BY <1>1, <1>2, <1>3 DEF Next

\* Files are arrays of bytes: a write changes the bytes in its place and no
\* other, through all three kinds of storage and the moves between them, and one
\* that fails harms nothing else.
THEOREM Implementation == Spec => ImplementsBytes
<1>1. Init => Bytes!Init
  <2> SUFFICES ASSUME Init PROVE Bytes!Init
    OBVIOUS
  <2>1. Blank.size = 0
    BY BlankInode
  <2>2. \A f \in File : Defined[f] = [o \in {} |-> 0]
    BY DEF Init, Defined
  <2>3. Defined = [f \in File |-> [o \in {} |-> 0]]
    BY <2>2 DEF Defined
  <2> QED
    BY <2>1, <2>3 DEF Init, Bytes!Init, Bytes!Nothing, Defined
<1>2. Inv /\ [Next]_vars => [Bytes!Next]_(Bytes!vars)
  BY NextImplements
<1> QED
  BY <1>1, <1>2, Invariance, PTL DEF Spec, ImplementsBytes, Bytes!Spec

-----------------------------------------------------------------------------
\* The tree, said of each node alone.  Every node i has a height h[i] and the
\* keys from lo[i] up to hi[i] for itself: its father gives each child its share,
\* and the leaves are chained where one share ends and the next begins.
Top == LastKey + 1

From(n, a, low) == IF a = 1 THEN low ELSE n.keys[a - 1]
To(n, a, high) == IF a = Len(n.vals) THEN high ELSE n.keys[a]

Ascending(s) == \A a, b \in DOMAIN s : a < b => s[a] < s[b]

\* A node by itself.
Shaped(n) ==
    /\ n \in Node
    /\ Len(n.keys) < M
    /\ Len(n.vals) = Len(n.keys) + (IF n.leaf THEN 0 ELSE 1)
    /\ Ascending(n.keys)

\* Its height and share.
Placed(nd, r, h, lo, hi, i) ==
    /\ h[i] \in 0 .. h[r]
    /\ lo[i] \in Nat /\ hi[i] \in 0 .. Top /\ lo[i] < hi[i]
    /\ nd[i].leaf <=> h[i] = 0

LeafFits(nd, h, lo, hi, i) ==
    /\ nd[i].vals = nd[i].keys
    /\ \A a \in DOMAIN nd[i].keys : lo[i] <= nd[i].keys[a] /\ nd[i].keys[a] < hi[i]
    /\ IF hi[i] = Top THEN nd[i].nxt = NoNode
       ELSE nd[i].nxt \in DOMAIN nd /\ h[nd[i].nxt] = 0 /\ lo[nd[i].nxt] = hi[i]

InnerFits(nd, h, lo, hi, i) ==
    /\ \A a \in DOMAIN nd[i].keys : lo[i] < nd[i].keys[a] /\ nd[i].keys[a] < hi[i]
    /\ \A a \in DOMAIN nd[i].vals :
        LET c == nd[i].vals[a] IN
        /\ c \in DOMAIN nd /\ h[c] + 1 = h[i]
        /\ lo[c] = From(nd[i], a, lo[i]) /\ hi[c] = To(nd[i], a, hi[i])

HasFather(nd, j) ==
    \E i \in DOMAIN nd : ~nd[i].leaf /\ \E a \in DOMAIN nd[i].vals : nd[i].vals[a] = j

TreeOf(nd, r, h, lo, hi) ==
    /\ DOMAIN nd \subseteq NodeLba /\ r \in DOMAIN nd
    /\ h[r] \in Nat /\ h[r] + 1 <= Cardinality(DOMAIN nd)
    /\ lo[r] = 0 /\ hi[r] = Top
    /\ \A i \in DOMAIN nd :
        /\ Shaped(nd[i]) /\ Placed(nd, r, h, lo, hi, i)
        /\ nd[i].leaf => LeafFits(nd, h, lo, hi, i)
        /\ ~nd[i].leaf => InnerFits(nd, h, lo, hi, i)
    /\ \A j \in DOMAIN nd \ {r} : HasFather(nd, j)

NoneEmpty(nd, but) == \A i \in DOMAIN nd \ but : nd[i].keys # <<>>

\* The keys in the leaves.
Bound(nd) == UNION {Range(nd[i].keys) : i \in {j \in DOMAIN nd : nd[j].leaf}}

\* The blocks that are free or somebody's.
Accounted == space + taken + Cardinality(DOMAIN node) + Cardinality(Bound(node)) + (IF direct THEN 1 ELSE 0)

IndexInv ==
    /\ IF root = NoNode THEN DOMAIN node = {}
       ELSE ~direct /\ NoneEmpty(node, {}) /\ \E h, lo, hi : TreeOf(node, root, h, lo, hi)
    /\ direct \in BOOLEAN /\ space \in Nat /\ taken \in Nat
    /\ Accounted <= Blocks
    /\ ret.ok \in BOOLEAN /\ ret.key \in Key
-----------------------------------------------------------------------------
\* A set of natural numbers that has an element has a least one.
LEMMA LeastElement ==
    ASSUME NEW T \in SUBSET Nat, T # {}
    PROVE  \E x \in T : \A y \in T : x <= y
<1> DEFINE Below == {0 .. x : x \in T}
           R == StrictSubsetOrdering(Nat)
<1>1. \A x \in T : 0 .. x \in SUBSET Nat /\ IsFiniteSet(0 .. x)
  BY FS_Interval
<1>2. Below \subseteq FiniteSubsetsOf(Nat) /\ Below # {}
  BY <1>1 DEF FiniteSubsetsOf
<1>3. PICK m \in Below : \A y \in Below : ~(<<y, m>> \in R)
  <2>1. IsWellFoundedOn(R, FiniteSubsetsOf(Nat))
    BY FS_StrictSubsetOrderingWellFounded
  <2> HIDE DEF Below, R
  <2> QED
    BY <1>2, <2>1, WFMin
<1>4. PICK x \in T : m = 0 .. x
  OBVIOUS
<1>5. ASSUME NEW y \in T, ~(x <= y)
      PROVE  FALSE
  <2>1. 0 .. y \subseteq 0 .. x /\ 0 .. y # 0 .. x
    <3>1. x \in 0 .. x /\ x \notin 0 .. y
      BY <1>5
    <3> QED
      BY <1>5, <3>1
  <2>2. <<0 .. y, m>> \in R
    BY <1>1, <1>4, <2>1 DEF StrictSubsetOrdering
  <2> QED
    BY <1>3, <2>2
<1> QED
  BY <1>5

\* A set that has 0 and, with each number, the next, has all up to n.
LEMMA Upward ==
    ASSUME NEW n \in Nat, NEW S, 0 \in S, \A k \in 1 .. n : k - 1 \in S => k \in S
    PROVE  \A k \in 0 .. n : k \in S
<1> DEFINE T == {k \in 0 .. n : k \notin S}
<1>1. ASSUME T # {}
      PROVE  FALSE
  <2>1. PICK k \in T : \A j \in T : k <= j
    <3>1. T \in SUBSET Nat
      OBVIOUS
    <3> HIDE DEF T
    <3> QED
      BY <1>1, <3>1, LeastElement
  <2>2. k \in 1 .. n /\ k - 1 \notin T
    BY <2>1
  <2>3. k - 1 \in S
    BY <2>2
  <2> QED
    BY <2>1, <2>2, <2>3
<1> QED
  BY <1>1

\* The other way, from n down.
LEMMA Downward ==
    ASSUME NEW n \in Nat, NEW S, n \in S, \A k \in 1 .. n : k \in S => k - 1 \in S
    PROVE  \A k \in 0 .. n : k \in S
<1> DEFINE T == {k \in 0 .. n : n - k \in S}
<1>1. 0 \in T
  OBVIOUS
<1>2. ASSUME NEW k \in 1 .. n, k - 1 \in T
      PROVE  k \in T
  <2>1. n - (k - 1) \in S /\ n - (k - 1) \in 1 .. n
    BY <1>2
  <2>2. (n - (k - 1)) - 1 \in S
    BY <2>1
  <2>3. (n - (k - 1)) - 1 = n - k
    OBVIOUS
  <2> QED
    BY <2>2, <2>3
<1> HIDE DEF T
<1>3. \A k \in 0 .. n : k \in T
  BY <1>1, <1>2, Upward
<1> SUFFICES ASSUME NEW k \in 0 .. n PROVE k \in S
  OBVIOUS
<1>4. n - k \in T /\ n - (n - k) = k
  BY <1>3
<1> QED
  BY <1>4 DEF T

\* What an insertion into a sequence makes of it.
LEMMA InsertAtIs ==
    ASSUME NEW S, NEW s \in Seq(S), NEW i \in 1 .. Len(s) + 1, NEW e \in S
    PROVE  /\ InsertAt(s, i, e) \in Seq(S)
           /\ Len(InsertAt(s, i, e)) = Len(s) + 1
           /\ InsertAt(s, i, e)[i] = e
           /\ \A k \in 1 .. i - 1 : InsertAt(s, i, e)[k] = s[k]
           /\ \A k \in i .. Len(s) : InsertAt(s, i, e)[k + 1] = s[k]
<1>1. Len(s) \in Nat /\ i \in Nat /\ \A k \in 1 .. Len(s) : s[k] \in S
  BY ElementOfSeq, LenProperties
<1> DEFINE left == SubSeq(s, 1, i - 1)
           right == SubSeq(s, i, Len(s))
<1>2. left \in Seq(S) /\ Len(left) = i - 1 /\ \A k \in 1 .. i - 1 : left[k] = s[k]
  <2>1. \A k \in 1 .. i - 1 : s[k] \in S
    BY <1>1
  <2>2. /\ left \in Seq(S) /\ Len(left) = (IF 1 <= i - 1 THEN (i - 1) - 1 + 1 ELSE 0)
        /\ \A k \in 1 .. (i - 1) - 1 + 1 : left[k] = s[1 + k - 1]
    BY <1>1, <2>1, SubSeqProperties
  <2> HIDE DEF left
  <2> QED
    BY <1>1, <2>2
<1>3. /\ right \in Seq(S) /\ Len(right) = Len(s) - i + 1
      /\ \A k \in 1 .. Len(s) - i + 1 : right[k] = s[i + k - 1]
  <2>1. \A k \in i .. Len(s) : s[k] \in S
    BY <1>1
  <2>2. /\ right \in Seq(S) /\ Len(right) = (IF i <= Len(s) THEN Len(s) - i + 1 ELSE 0)
        /\ \A k \in 1 .. Len(s) - i + 1 : right[k] = s[i + k - 1]
    BY <1>1, <2>1, SubSeqProperties
  <2> HIDE DEF right
  <2> QED
    BY <1>1, <2>2
<1>4. InsertAt(s, i, e) = (left \o <<e>>) \o right
  BY DEF InsertAt
<1> HIDE DEF left, right
<1> DEFINE mid == left \o <<e>>
<1>5. /\ mid \in Seq(S) /\ Len(mid) = i /\ mid[i] = e
      /\ \A k \in 1 .. i - 1 : mid[k] = s[k]
  <2>1. <<e>> \in Seq(S) /\ Len(<<e>>) = 1 /\ <<e>>[1] = e
    OBVIOUS
  <2>2. /\ mid \in Seq(S) /\ Len(mid) = Len(left) + 1
        /\ \A k \in 1 .. Len(left) + 1 :
            mid[k] = IF k <= Len(left) THEN left[k] ELSE <<e>>[k - Len(left)]
    BY <1>2, <2>1, ConcatProperties
  <2> HIDE DEF mid
  <2> QED
    BY <1>1, <1>2, <2>1, <2>2
<1> HIDE DEF mid
<1>6. /\ mid \o right \in Seq(S) /\ Len(mid \o right) = Len(mid) + Len(right)
      /\ \A k \in 1 .. Len(mid) + Len(right) :
            (mid \o right)[k] = IF k <= Len(mid) THEN mid[k] ELSE right[k - Len(mid)]
  BY <1>3, <1>5, ConcatProperties
<1>7. InsertAt(s, i, e) = mid \o right
  BY <1>4 DEF mid
<1> DEFINE w == InsertAt(s, i, e)
<1>8. /\ w \in Seq(S) /\ Len(w) = Len(s) + 1
      /\ \A k \in 1 .. Len(s) + 1 : w[k] = IF k <= i THEN mid[k] ELSE right[k - i]
  BY <1>1, <1>3, <1>5, <1>6, <1>7
<1> HIDE DEF w
<1>9. \A k \in i .. Len(s) : w[k + 1] = s[k]
  <2> SUFFICES ASSUME NEW k \in i .. Len(s) PROVE w[k + 1] = s[k]
    OBVIOUS
  <2>1. k + 1 \in 1 .. Len(s) + 1 /\ ~(k + 1 <= i) /\ (k + 1) - i \in 1 .. Len(s) - i + 1
        /\ i + ((k + 1) - i) - 1 = k
    BY <1>1
  <2>2. w[k + 1] = right[(k + 1) - i]
    BY <1>8, <2>1
  <2>3. right[(k + 1) - i] = s[i + ((k + 1) - i) - 1]
    BY <1>3, <2>1
  <2> QED
    BY <2>1, <2>2, <2>3
<1>10. w[i] = e /\ \A k \in 1 .. i - 1 : w[k] = s[k]
  BY <1>1, <1>5, <1>8
<1> QED
  BY <1>8, <1>9, <1>10 DEF w

\* What a node with its keys in order is made of.
LEMMA ShapedIs ==
    ASSUME NEW n, Shaped(n)
    PROVE  /\ n.keys \in Seq(Key) /\ n.vals \in Seq(Nat) /\ n.leaf \in BOOLEAN /\ n.nxt \in Nat
           /\ Len(n.keys) \in Nat /\ Len(n.keys) < M
           /\ DOMAIN n.keys = 1 .. Len(n.keys)
           /\ \A a \in 1 .. Len(n.keys) : n.keys[a] \in Key
           /\ DOMAIN n.vals = 1 .. Len(n.vals)
           /\ Len(n.vals) = Len(n.keys) + (IF n.leaf THEN 0 ELSE 1)
           /\ \A a, b \in 1 .. Len(n.keys) : a < b => n.keys[a] < n.keys[b]
<1>1. n.keys \in Seq(Key) /\ n.vals \in Seq(Nat) /\ n.leaf \in BOOLEAN /\ n.nxt \in Nat
  BY DEF Shaped, Node
<1>2. /\ Len(n.keys) \in Nat /\ DOMAIN n.keys = 1 .. Len(n.keys) /\ DOMAIN n.vals = 1 .. Len(n.vals)
      /\ \A a \in 1 .. Len(n.keys) : n.keys[a] \in Key
  BY <1>1, ElementOfSeq, LenProperties
<1> QED
  BY <1>1, <1>2 DEF Shaped, Ascending

\* Keys are integers.
LEMMA KeysAre == Key \subseteq Int /\ LastKey \in Nat /\ \A k \in Key : 0 <= k /\ k < Top
  BY TreeAssumption DEF Key, Top

\* upper_bound, of keys in order.
LEMMA IndexIs ==
    ASSUME NEW n, Shaped(n), NEW k \in Int
    PROVE  /\ Index(n, k) \in 0 .. Len(n.keys)
           /\ \A a \in 1 .. Len(n.keys) : a <= Index(n, k) <=> n.keys[a] <= k
<1> DEFINE len == Len(n.keys)
           Above == {a \in 1 .. len + 1 : a <= len => k < n.keys[a]}
           Low == {a \in DOMAIN n.keys : n.keys[a] <= k}
<1>1. /\ len \in Nat /\ DOMAIN n.keys = 1 .. len
      /\ \A a \in 1 .. len : n.keys[a] \in Int
      /\ \A a, b \in 1 .. len : a < b => n.keys[a] < n.keys[b]
  BY ShapedIs, KeysAre
<1>2. PICK m \in Above : \A a \in Above : m <= a
  <2>1. Above \in SUBSET Nat /\ len + 1 \in Above
    BY <1>1
  <2> HIDE DEF Above
  <2> QED
    BY <2>1, LeastElement
<1>3. m \in 1 .. len + 1 /\ \A a \in 1 .. len : a <= m - 1 <=> n.keys[a] <= k
  <2>1. m \in 1 .. len + 1 /\ (m <= len => k < n.keys[m])
    BY <1>2
  <2>2. ASSUME NEW a \in 1 .. len, a <= m - 1
        PROVE  n.keys[a] <= k
    <3>1. a \notin Above
      BY <1>1, <1>2, <2>1, <2>2
    <3> QED
      BY <1>1, <3>1
  <2>3. ASSUME NEW a \in 1 .. len, ~(a <= m - 1)
        PROVE  ~(n.keys[a] <= k)
    <3>1. m <= len /\ (a = m \/ m < a)
      BY <1>1, <2>1, <2>3
    <3> QED
      BY <1>1, <2>1, <3>1
  <2> QED
    BY <2>1, <2>2, <2>3
<1>4. Low = 1 .. m - 1
  <2>1. Low = {a \in 1 .. len : n.keys[a] <= k}
    BY <1>1
  <2> HIDE DEF Low
  <2>2. \A a : a \in Low <=> a \in 1 .. len /\ n.keys[a] <= k
    BY <2>1
  <2>3. \A a : a \in 1 .. m - 1 <=> a \in 1 .. len /\ a <= m - 1
    BY <1>1, <1>3
  <2> QED
    BY <1>3, <2>2, <2>3
<1>5. Index(n, k) = m - 1
  <2>1. Index(n, k) = Cardinality(Low)
    BY DEF Index
  <2>2. Cardinality(1 .. m - 1) = m - 1
    BY <1>1, <1>3, FS_Interval
  <2> QED
    BY <1>4, <2>1, <2>2
<1> QED
  BY <1>1, <1>3, <1>5

-----------------------------------------------------------------------------
\* Node i has the key x for itself.
Covers(lo, hi, i, x) == lo[i] <= x /\ x < hi[i]

\* A node of the tree.
LEMMA NodeIs ==
    ASSUME NEW nd, NEW r, NEW h, NEW lo, NEW hi, TreeOf(nd, r, h, lo, hi), NEW i \in DOMAIN nd
    PROVE  /\ Shaped(nd[i])
           /\ h[i] \in Nat /\ h[r] \in Nat /\ h[i] <= h[r] /\ (nd[i].leaf <=> h[i] = 0)
           /\ lo[i] \in Nat /\ hi[i] \in Nat /\ lo[i] < hi[i] /\ hi[i] <= Top
           /\ nd[i].leaf => LeafFits(nd, h, lo, hi, i)
           /\ ~nd[i].leaf => InnerFits(nd, h, lo, hi, i)
<1>1. h[r] \in Nat /\ Placed(nd, r, h, lo, hi, i) /\ Top \in Nat
  BY KeysAre DEF TreeOf, Top
<1>2. /\ h[i] \in Nat /\ h[i] <= h[r] /\ (nd[i].leaf <=> h[i] = 0)
      /\ lo[i] \in Nat /\ hi[i] \in Nat /\ lo[i] < hi[i] /\ hi[i] <= Top
  BY <1>1 DEF Placed
<1> QED
  BY <1>1, <1>2 DEF TreeOf

\* Its children, with their shares of its own.
LEMMA ChildIs ==
    ASSUME NEW nd, NEW r, NEW h, NEW lo, NEW hi, TreeOf(nd, r, h, lo, hi),
           NEW i \in DOMAIN nd, ~nd[i].leaf, NEW a \in 1 .. Len(nd[i].vals), NEW c, c = nd[i].vals[a]
    PROVE  /\ c \in DOMAIN nd /\ h[c] + 1 = h[i]
           /\ lo[c] = From(nd[i], a, lo[i]) /\ hi[c] = To(nd[i], a, hi[i])
           /\ lo[i] <= lo[c] /\ hi[c] <= hi[i]
<1>1. InnerFits(nd, h, lo, hi, i) /\ Shaped(nd[i]) /\ lo[i] \in Nat /\ hi[i] \in Nat
  BY NodeIs
<1>2. PICK n : n = nd[i]
  OBVIOUS
<1>3. /\ Len(n.vals) = Len(n.keys) + 1 /\ Len(n.keys) \in Nat
      /\ DOMAIN n.vals = 1 .. Len(n.vals) /\ DOMAIN n.keys = 1 .. Len(n.keys)
      /\ \A b \in 1 .. Len(n.keys) : n.keys[b] \in Int
  BY <1>1, <1>2, ShapedIs, KeysAre
<1>4. /\ \A b \in 1 .. Len(n.keys) : lo[i] < n.keys[b] /\ n.keys[b] < hi[i]
      /\ c \in DOMAIN nd /\ h[c] + 1 = h[i]
      /\ lo[c] = From(n, a, lo[i]) /\ hi[c] = To(n, a, hi[i])
  BY <1>1, <1>2, <1>3 DEF InnerFits
<1>5. lo[i] <= lo[c]
  <2>1. CASE a = 1
    BY <1>1, <1>4, <2>1 DEF From
  <2>2. CASE a # 1
    <3>1. a - 1 \in 1 .. Len(n.keys) /\ lo[c] = n.keys[a - 1]
      BY <1>2, <1>3, <1>4, <2>2 DEF From
    <3> QED
      BY <1>1, <1>3, <1>4, <3>1
  <2> QED
    BY <2>1, <2>2
<1>6. hi[c] <= hi[i]
  BY <1>1, <1>2, <1>3, <1>4 DEF To
<1> QED
  BY <1>2, <1>4, <1>5, <1>6

\* Its father.
LEMMA FatherIs ==
    ASSUME NEW nd, NEW r, NEW h, NEW lo, NEW hi, TreeOf(nd, r, h, lo, hi), NEW j \in DOMAIN nd, j # r
    PROVE  \E i \in DOMAIN nd, a \in Nat :
            /\ a \in 1 .. Len(nd[i].vals) /\ ~nd[i].leaf /\ nd[i].vals[a] = j
            /\ h[i] = h[j] + 1 /\ lo[i] <= lo[j] /\ hi[j] <= hi[i]
<1>1. PICK i \in DOMAIN nd : ~nd[i].leaf /\ \E a \in DOMAIN nd[i].vals : nd[i].vals[a] = j
  BY DEF TreeOf, HasFather
<1>2. DOMAIN nd[i].vals = 1 .. Len(nd[i].vals)
  BY NodeIs, ShapedIs
<1>3. PICK a \in 1 .. Len(nd[i].vals) : nd[i].vals[a] = j
  BY <1>1, <1>2
<1>4. h[j] + 1 = h[i] /\ lo[i] <= lo[j] /\ hi[j] <= hi[i]
  BY <1>1, <1>3, ChildIs
<1> QED
  BY <1>1, <1>3, <1>4

\* Only the root is as high as the root.
LEMMA HighestIsRoot ==
    ASSUME NEW nd, NEW r, NEW h, NEW lo, NEW hi, TreeOf(nd, r, h, lo, hi),
           NEW i \in DOMAIN nd, h[i] = h[r]
    PROVE  i = r
<1> SUFFICES ASSUME i # r PROVE FALSE
  OBVIOUS
<1>1. PICK p \in DOMAIN nd : h[p] = h[i] + 1
  BY FatherIs
<1>2. h[p] <= h[r] /\ h[r] \in Nat
  BY NodeIs
<1> QED
  BY <1>1, <1>2

\* The shares of two children do not meet.
LEMMA SameChild ==
    ASSUME NEW nd, NEW r, NEW h, NEW lo, NEW hi, TreeOf(nd, r, h, lo, hi),
           NEW i \in DOMAIN nd, ~nd[i].leaf,
           NEW a \in 1 .. Len(nd[i].vals), NEW b \in 1 .. Len(nd[i].vals), NEW x \in Int,
           Covers(lo, hi, nd[i].vals[a], x), Covers(lo, hi, nd[i].vals[b], x)
    PROVE  a = b
<1>1. PICK n : n = nd[i]
  OBVIOUS
<1>2. /\ Len(n.vals) = Len(n.keys) + 1 /\ Len(n.keys) \in Nat
      /\ \A c \in 1 .. Len(n.keys) : n.keys[c] \in Int
      /\ \A c, d \in 1 .. Len(n.keys) : c < d => n.keys[c] < n.keys[d]
  BY <1>1, NodeIs, ShapedIs, KeysAre
<1>3. ASSUME NEW c \in 1 .. Len(n.vals), NEW d \in 1 .. Len(n.vals), c < d,
             Covers(lo, hi, n.vals[c], x), Covers(lo, hi, n.vals[d], x)
      PROVE  FALSE
  <2>1. hi[n.vals[c]] = To(n, c, hi[i]) /\ lo[n.vals[d]] = From(n, d, lo[i])
    BY <1>1, ChildIs
  <2>2. To(n, c, hi[i]) = n.keys[c] /\ From(n, d, lo[i]) = n.keys[d - 1]
    BY <1>2, <1>3 DEF To, From
  <2>3. c \in 1 .. Len(n.keys) /\ d - 1 \in 1 .. Len(n.keys) /\ (c = d - 1 \/ c < d - 1)
    BY <1>2, <1>3
  <2>4. n.keys[c] <= n.keys[d - 1] /\ n.keys[c] \in Int /\ n.keys[d - 1] \in Int
    BY <1>2, <2>3
  <2> QED
    BY <1>3, <2>1, <2>2, <2>4 DEF Covers
<1>4. a \in 1 .. Len(n.vals) /\ b \in 1 .. Len(n.vals) /\ (a < b \/ b < a \/ a = b)
  BY <1>1, <1>2
<1> QED
  BY <1>1, <1>3, <1>4

\* At every height there is at most one node for a key.
LEMMA LevelUnique ==
    ASSUME NEW nd, NEW r, NEW h, NEW lo, NEW hi, TreeOf(nd, r, h, lo, hi), NEW x \in Int,
           NEW i \in DOMAIN nd, NEW j \in DOMAIN nd, h[i] = h[j],
           Covers(lo, hi, i, x), Covers(lo, hi, j, x)
    PROVE  i = j
<1> DEFINE S == {t \in Nat : \A p, q \in DOMAIN nd :
                    h[p] = t /\ h[q] = t /\ Covers(lo, hi, p, x) /\ Covers(lo, hi, q, x) => p = q}
<1>1. h[r] \in Nat
  BY DEF TreeOf
<1>2. h[r] \in S
  BY <1>1, HighestIsRoot
<1>3. ASSUME NEW t \in 1 .. h[r], t \in S
      PROVE  t - 1 \in S
  <2> SUFFICES ASSUME NEW p \in DOMAIN nd, NEW q \in DOMAIN nd, h[p] = t - 1, h[q] = t - 1,
                      Covers(lo, hi, p, x), Covers(lo, hi, q, x)
               PROVE  p = q
    OBVIOUS
  <2>1. p # r /\ q # r
    BY <1>1
  <2>2. PICK f \in DOMAIN nd, a \in Nat :
            a \in 1 .. Len(nd[f].vals) /\ ~nd[f].leaf /\ nd[f].vals[a] = p /\ h[f] = h[p] + 1 /\ lo[f] <= lo[p] /\ hi[p] <= hi[f]
    <3>1. p # r
      BY <2>1
    <3> QED
      BY <3>1, FatherIs
  <2>3. PICK g \in DOMAIN nd, b \in Nat :
            b \in 1 .. Len(nd[g].vals) /\ ~nd[g].leaf /\ nd[g].vals[b] = q /\ h[g] = h[q] + 1 /\ lo[g] <= lo[q] /\ hi[q] <= hi[g]
    BY <2>1, FatherIs
  <2>4. /\ lo[p] \in Int /\ hi[p] \in Int /\ lo[q] \in Int /\ hi[q] \in Int
        /\ lo[f] \in Int /\ hi[f] \in Int /\ lo[g] \in Int /\ hi[g] \in Int
    BY NodeIs
  <2>5. Covers(lo, hi, f, x) /\ Covers(lo, hi, g, x)
    <3>1. Covers(lo, hi, f, x)
      BY <2>2, <2>4 DEF Covers
    <3>2. Covers(lo, hi, g, x)
      BY <2>3, <2>4 DEF Covers
    <3> QED
      BY <3>1, <3>2
  <2>6. h[f] = t /\ h[g] = t
    BY <2>2, <2>3
  <2>7. f = g
    BY <1>3, <2>5, <2>6
  <2> QED
    BY <2>2, <2>3, <2>7, SameChild
<1> HIDE DEF S
<1>4. h[i] \in 0 .. h[r]
  BY NodeIs
<1>5. h[i] \in S
  BY <1>1, <1>2, <1>3, <1>4, Downward
<1> QED
  BY <1>5 DEF S

\* The child for a key.
LEMMA ChildFound ==
    ASSUME NEW nd, NEW r, NEW h, NEW lo, NEW hi, TreeOf(nd, r, h, lo, hi), NEW x \in Int,
           NEW i \in DOMAIN nd, ~nd[i].leaf, NEW a, a = Index(nd[i], x) + 1
    PROVE  /\ a \in 1 .. Len(nd[i].vals)
           /\ Covers(lo, hi, i, x) => Covers(lo, hi, nd[i].vals[a], x)
           /\ x < lo[i] => lo[nd[i].vals[a]] = lo[i]
           /\ hi[i] <= x => hi[nd[i].vals[a]] = hi[i]
<1>1. PICK n, m, c : n = nd[i] /\ m = Index(n, x) /\ c = n.vals[a]
  OBVIOUS
<1>2. /\ Len(n.vals) = Len(n.keys) + 1 /\ Len(n.keys) \in Nat
      /\ \A d \in 1 .. Len(n.keys) : n.keys[d] \in Int
      /\ DOMAIN n.keys = 1 .. Len(n.keys)
  BY <1>1, NodeIs, ShapedIs, KeysAre
<1>3. m \in 0 .. Len(n.keys) /\ \A d \in 1 .. Len(n.keys) : d <= m <=> n.keys[d] <= x
  BY <1>1, NodeIs, IndexIs
<1>4. a \in 1 .. Len(n.vals)
  BY <1>1, <1>2, <1>3
<1>5. lo[c] = From(n, a, lo[i]) /\ hi[c] = To(n, a, hi[i])
  BY <1>1, <1>4, ChildIs
<1>6. /\ lo[i] \in Int /\ hi[i] \in Int
      /\ \A d \in 1 .. Len(n.keys) : lo[i] < n.keys[d] /\ n.keys[d] < hi[i]
  BY <1>1, <1>2, NodeIs DEF InnerFits
<1>7. a = m + 1
  BY <1>1
<1>8. Covers(lo, hi, i, x) => lo[c] <= x /\ x < hi[c]
  <2>1. ASSUME lo[i] <= x, x < hi[i]
        PROVE  From(n, a, lo[i]) <= x
    BY <1>2, <1>3, <1>7, <2>1 DEF From
  <2>2. ASSUME lo[i] <= x, x < hi[i]
        PROVE  x < To(n, a, hi[i])
    BY <1>2, <1>3, <1>7, <2>2 DEF To
  <2> QED
    BY <1>5, <2>1, <2>2 DEF Covers
<1>9. x < lo[i] => lo[c] = lo[i]
  <2>1. ASSUME x < lo[i]
        PROVE  m = 0
    BY <1>2, <1>3, <1>6, <2>1
  <2> QED
    BY <1>5, <1>7, <2>1 DEF From
<1>10. hi[i] <= x => hi[c] = hi[i]
  <2>1. ASSUME hi[i] <= x
        PROVE  m = Len(n.keys)
    BY <1>2, <1>3, <1>6, <2>1, SMTT(20)
  <2> QED
    BY <1>2, <1>5, <1>7, <2>1 DEF To
<1> QED
  BY <1>1, <1>4, <1>8, <1>9, <1>10 DEF Covers

\* At every height there is a node for a key.
LEMMA LevelExists ==
    ASSUME NEW nd, NEW r, NEW h, NEW lo, NEW hi, TreeOf(nd, r, h, lo, hi),
           NEW x \in 0 .. LastKey, NEW t \in 0 .. h[r]
    PROVE  \E i \in DOMAIN nd : h[i] = t /\ Covers(lo, hi, i, x)
<1> DEFINE S == {u \in Nat : \E i \in DOMAIN nd : h[i] = u /\ Covers(lo, hi, i, x)}
<1>1. h[r] \in Nat
  BY DEF TreeOf
<1>2. h[r] \in S
  <2>1. r \in DOMAIN nd /\ lo[r] = 0 /\ hi[r] = Top
    BY DEF TreeOf
  <2> QED
    BY <1>1, <2>1, KeysAre DEF Covers, Top
<1>3. ASSUME NEW u \in 1 .. h[r], u \in S
      PROVE  u - 1 \in S
  <2>1. PICK i \in DOMAIN nd : h[i] = u /\ Covers(lo, hi, i, x)
    BY <1>3
  <2>2. ~nd[i].leaf
    BY <2>1, NodeIs
  <2>3. PICK a : a = Index(nd[i], x) + 1
    OBVIOUS
  <2>4. a \in 1 .. Len(nd[i].vals) /\ Covers(lo, hi, nd[i].vals[a], x)
    BY <2>1, <2>2, <2>3, ChildFound, KeysAre
  <2>5. nd[i].vals[a] \in DOMAIN nd /\ h[nd[i].vals[a]] + 1 = u
    BY <2>1, <2>2, <2>4, ChildIs
  <2>6. h[nd[i].vals[a]] = u - 1
    BY <2>5, NodeIs
  <2> QED
    BY <1>1, <2>4, <2>5, <2>6
<1> HIDE DEF S
<1>4. t \in S
  BY <1>1, <1>2, <1>3, Downward
<1> QED
  BY <1>4 DEF S

\* A node's share is within that of one node at each height above it.
LEMMA Above ==
    ASSUME NEW nd, NEW r, NEW h, NEW lo, NEW hi, TreeOf(nd, r, h, lo, hi),
           NEW j \in DOMAIN nd, NEW t \in h[j] .. h[r]
    PROVE  \E i \in DOMAIN nd : h[i] = t /\ lo[i] <= lo[j] /\ hi[j] <= hi[i]
<1> DEFINE S == {u \in Nat : \E i \in DOMAIN nd :
                                h[i] = h[j] + u /\ lo[i] <= lo[j] /\ hi[j] <= hi[i]}
           n == h[r] - h[j]
<1>1. h[r] \in Nat /\ h[j] \in Nat /\ h[j] <= h[r] /\ n \in Nat /\ lo[j] \in Int /\ hi[j] \in Int
  BY NodeIs
<1>2. 0 \in S
  <2>1. h[j] = h[j] + 0 /\ lo[j] <= lo[j] /\ hi[j] <= hi[j]
    BY <1>1
  <2> QED
    BY <2>1
<1>3. ASSUME NEW u \in 1 .. n, u - 1 \in S
      PROVE  u \in S
  <2>1. PICK i \in DOMAIN nd : h[i] = h[j] + (u - 1) /\ lo[i] <= lo[j] /\ hi[j] <= hi[i]
    BY <1>3
  <2>2. i # r
    BY <1>1, <2>1
  <2>3. PICK p \in DOMAIN nd : h[p] = h[i] + 1 /\ lo[p] <= lo[i] /\ hi[i] <= hi[p]
    BY <2>2, FatherIs
  <2>4. lo[p] \in Int /\ hi[p] \in Int /\ lo[i] \in Int /\ hi[i] \in Int
    BY NodeIs
  <2>5. h[p] = h[j] + u /\ lo[p] <= lo[j] /\ hi[j] <= hi[p]
    BY <1>1, <2>1, <2>3, <2>4
  <2>6. u \in Nat
    BY <1>1
  <2> QED
    BY <2>5, <2>6
<1> HIDE DEF S
<1>4. t - h[j] \in 0 .. n /\ t \in Nat
  BY <1>1
<1> HIDE DEF n
<1>5. t - h[j] \in S
  BY <1>1, <1>2, <1>3, <1>4, Upward
<1>6. PICK i \in DOMAIN nd : h[i] = h[j] + (t - h[j]) /\ lo[i] <= lo[j] /\ hi[j] <= hi[i]
  BY <1>5 DEF S
<1> QED
  BY <1>1, <1>4, <1>6

\* What is within a node's share and lower is below one of its children.
LEMMA BelowChild ==
    ASSUME NEW nd, NEW r, NEW h, NEW lo, NEW hi, TreeOf(nd, r, h, lo, hi),
           NEW i \in DOMAIN nd, NEW j \in DOMAIN nd,
           h[j] < h[i], lo[i] <= lo[j], hi[j] <= hi[i]
    PROVE  /\ ~nd[i].leaf
           /\ \E a \in 1 .. Len(nd[i].vals) :
                LET c == nd[i].vals[a] IN h[j] <= h[c] /\ lo[c] <= lo[j] /\ hi[j] <= hi[c]
<1>1. h[i] \in Nat /\ h[j] \in Nat /\ h[r] \in Nat /\ h[i] <= h[r] /\ ~nd[i].leaf
  BY NodeIs
<1>2. h[i] - 1 \in h[j] .. h[r]
  BY <1>1
<1>3. PICK c \in DOMAIN nd : h[c] = h[i] - 1 /\ lo[c] <= lo[j] /\ hi[j] <= hi[c]
  BY <1>2, Above
<1>4. c # r
  BY <1>1, <1>3
<1>5. PICK p \in DOMAIN nd, a \in Nat :
        a \in 1 .. Len(nd[p].vals) /\ nd[p].vals[a] = c /\ h[p] = h[c] + 1 /\ lo[p] <= lo[c] /\ hi[c] <= hi[p]
  BY <1>4, FatherIs
<1>6. /\ lo[i] \in Int /\ hi[i] \in Int /\ lo[j] \in Int /\ hi[j] \in Int /\ lo[j] < hi[j]
      /\ lo[c] \in Int /\ hi[c] \in Int /\ lo[p] \in Int /\ hi[p] \in Int
  BY NodeIs
<1>7. Covers(lo, hi, p, lo[j]) /\ Covers(lo, hi, i, lo[j]) /\ h[p] = h[i]
  <2>1. Covers(lo, hi, p, lo[j])
    BY <1>3, <1>5, <1>6 DEF Covers
  <2>2. Covers(lo, hi, i, lo[j])
    BY <1>6 DEF Covers
  <2>3. h[p] = h[i]
    BY <1>1, <1>3, <1>5
  <2> QED
    BY <2>1, <2>2, <2>3
<1>8. p = i
  BY <1>6, <1>7, LevelUnique
<1>9. h[j] <= h[c]
  BY <1>1, <1>3
<1> QED
  BY <1>1, <1>3, <1>5, <1>8, <1>9

\* No node has two fathers, or is a child twice.
LEMMA OneFather ==
    ASSUME NEW nd, NEW r, NEW h, NEW lo, NEW hi, TreeOf(nd, r, h, lo, hi),
           NEW i \in DOMAIN nd, NEW j \in DOMAIN nd, ~nd[i].leaf, ~nd[j].leaf,
           NEW a \in 1 .. Len(nd[i].vals), NEW b \in 1 .. Len(nd[j].vals),
           nd[i].vals[a] = nd[j].vals[b]
    PROVE  i = j /\ a = b
<1>1. PICK c : c = nd[i].vals[a] /\ c = nd[j].vals[b]
  OBVIOUS
<1>2. /\ c \in DOMAIN nd /\ h[c] + 1 = h[i] /\ h[c] + 1 = h[j]
      /\ lo[i] <= lo[c] /\ hi[c] <= hi[i] /\ lo[j] <= lo[c] /\ hi[c] <= hi[j]
  BY <1>1, ChildIs
<1>3. \A y \in {i, j, c} : lo[y] \in Int /\ hi[y] \in Int /\ lo[y] < hi[y]
  BY <1>2, NodeIs
<1>4. Covers(lo, hi, i, lo[c]) /\ Covers(lo, hi, j, lo[c]) /\ Covers(lo, hi, c, lo[c])
  BY <1>2, <1>3 DEF Covers
<1>5. i = j
  BY <1>2, <1>3, <1>4, LevelUnique
<1> QED
  BY <1>1, <1>3, <1>4, <1>5, SameChild

-----------------------------------------------------------------------------
\* The leaf for a key.
LeafAt(nd, h, lo, hi, x) == CHOOSE j \in DOMAIN nd : h[j] = 0 /\ Covers(lo, hi, j, x)

LEMMA LeafAtIs ==
    ASSUME NEW nd, NEW r, NEW h, NEW lo, NEW hi, TreeOf(nd, r, h, lo, hi), NEW x \in 0 .. LastKey,
           NEW l, l = LeafAt(nd, h, lo, hi, x)
    PROVE  /\ l \in DOMAIN nd /\ h[l] = 0 /\ nd[l].leaf /\ Covers(lo, hi, l, x)
           /\ \A j \in DOMAIN nd : h[j] = 0 /\ Covers(lo, hi, j, x) => j = l
<1>1. \E j \in DOMAIN nd : h[j] = 0 /\ Covers(lo, hi, j, x)
  <2>1. 0 \in 0 .. h[r]
    BY DEF TreeOf
  <2> QED
    BY <2>1, LevelExists
<1>2. l \in DOMAIN nd /\ h[l] = 0 /\ Covers(lo, hi, l, x)
  BY <1>1 DEF LeafAt
<1>3. nd[l].leaf
  BY <1>2, NodeIs
<1>4. x \in Int
  BY TreeAssumption
<1>5. ASSUME NEW j \in DOMAIN nd, h[j] = 0, Covers(lo, hi, j, x)
      PROVE  j = l
  BY <1>2, <1>4, <1>5, LevelUnique
<1> QED
  BY <1>2, <1>3, <1>5

\* The key of a node's share that is nearest to a key: where a search for the key
\* that is begun at the node ends.
Near(lo, hi, i, x) == IF x < lo[i] THEN lo[i] ELSE IF hi[i] <= x THEN hi[i] - 1 ELSE x

LEMMA NearIs ==
    ASSUME NEW nd, NEW r, NEW h, NEW lo, NEW hi, TreeOf(nd, r, h, lo, hi), NEW x \in Int,
           NEW i \in DOMAIN nd
    PROVE  /\ Near(lo, hi, i, x) \in 0 .. LastKey
           /\ Covers(lo, hi, i, Near(lo, hi, i, x))
           /\ Covers(lo, hi, i, x) => Near(lo, hi, i, x) = x
<1>1. lo[i] \in Nat /\ hi[i] \in Nat /\ lo[i] < hi[i] /\ hi[i] <= LastKey + 1
  BY NodeIs DEF Top
<1> QED
  BY <1>1, KeysAre DEF Near, Covers

LEMMA NearChild ==
    ASSUME NEW nd, NEW r, NEW h, NEW lo, NEW hi, TreeOf(nd, r, h, lo, hi), NEW x \in Int,
           NEW i \in DOMAIN nd, ~nd[i].leaf, NEW c, c = nd[i].vals[Index(nd[i], x) + 1]
    PROVE  c \in DOMAIN nd /\ h[c] + 1 = h[i] /\ Near(lo, hi, c, x) = Near(lo, hi, i, x)
<1>1. PICK a : a = Index(nd[i], x) + 1
  OBVIOUS
<1>2. /\ a \in 1 .. Len(nd[i].vals) /\ c = nd[i].vals[a]
      /\ Covers(lo, hi, i, x) => Covers(lo, hi, c, x)
      /\ x < lo[i] => lo[c] = lo[i]
      /\ hi[i] <= x => hi[c] = hi[i]
  BY <1>1, ChildFound
<1>3. c \in DOMAIN nd /\ h[c] + 1 = h[i]
  BY <1>2, ChildIs
<1>4. lo[c] \in Int /\ hi[c] \in Int /\ lo[c] < hi[c] /\ lo[i] \in Int /\ hi[i] \in Int /\ lo[i] < hi[i]
  BY <1>3, NodeIs
<1>5. ASSUME lo[i] <= x, x < hi[i]
      PROVE  lo[c] <= x /\ x < hi[c]
  BY <1>2, <1>5 DEF Covers
<1>6. Near(lo, hi, c, x) = Near(lo, hi, i, x)
  <2>1. x < lo[i] => lo[c] = lo[i]
    BY <1>2
  <2>2. hi[i] <= x => hi[c] = hi[i]
    BY <1>2
  <2> QED
    BY <1>4, <1>5, <2>1, <2>2 DEF Near
<1> QED
  BY <1>3, <1>6

\* find's loop, from every node.
IsBelow(f, nd, k) ==
    f = [i \in DOMAIN nd |-> IF nd[i].leaf THEN i ELSE f[nd[i].vals[Index(nd[i], k) + 1]]]

LEMMA BelowExists ==
    ASSUME NEW nd, NEW r, NEW h, NEW lo, NEW hi, TreeOf(nd, r, h, lo, hi), NEW k \in Int
    PROVE  \E f : IsBelow(f, nd, k)
<1> DEFINE f == [i \in DOMAIN nd |-> LeafAt(nd, h, lo, hi, Near(lo, hi, i, k))]
<1>1. ASSUME NEW i \in DOMAIN nd
      PROVE  f[i] = IF nd[i].leaf THEN i ELSE f[nd[i].vals[Index(nd[i], k) + 1]]
  <2>1. Near(lo, hi, i, k) \in 0 .. LastKey /\ Covers(lo, hi, i, Near(lo, hi, i, k))
    BY NearIs
  <2>2. CASE nd[i].leaf
    <3>1. h[i] = 0
      BY <2>2, NodeIs
    <3> QED
      BY <2>1, <2>2, <3>1, LeafAtIs
  <2>3. CASE ~nd[i].leaf
    <3>1. PICK c : c = nd[i].vals[Index(nd[i], k) + 1]
      OBVIOUS
    <3>2. c \in DOMAIN nd /\ Near(lo, hi, c, k) = Near(lo, hi, i, k)
      BY <2>3, <3>1, NearChild
    <3> QED
      BY <2>3, <3>1, <3>2
  <2> QED
    BY <2>2, <2>3
<1>2. f = [i \in DOMAIN nd |-> f[i]]
  OBVIOUS
<1> HIDE DEF f
<1>3. IsBelow(f, nd, k)
  BY <1>1, <1>2 DEF IsBelow
<1> QED
  BY <1>3

LEMMA BelowIs ==
    ASSUME NEW nd, NEW r, NEW h, NEW lo, NEW hi, TreeOf(nd, r, h, lo, hi), NEW k \in Int,
           NEW f, IsBelow(f, nd, k)
    PROVE  \A i \in DOMAIN nd : f[i] = LeafAt(nd, h, lo, hi, Near(lo, hi, i, k))
<1> DEFINE S == {t \in Nat : \A i \in DOMAIN nd :
                    h[i] = t => f[i] = LeafAt(nd, h, lo, hi, Near(lo, hi, i, k))}
<1>1. \A i \in DOMAIN nd : f[i] = IF nd[i].leaf THEN i ELSE f[nd[i].vals[Index(nd[i], k) + 1]]
  BY DEF IsBelow
<1>2. 0 \in S
  <2> SUFFICES ASSUME NEW i \in DOMAIN nd, h[i] = 0
               PROVE  f[i] = LeafAt(nd, h, lo, hi, Near(lo, hi, i, k))
    OBVIOUS
  <2>1. nd[i].leaf
    BY NodeIs
  <2>2. Near(lo, hi, i, k) \in 0 .. LastKey /\ Covers(lo, hi, i, Near(lo, hi, i, k))
    BY NearIs
  <2>3. i = LeafAt(nd, h, lo, hi, Near(lo, hi, i, k))
    BY <2>2, LeafAtIs
  <2> QED
    BY <1>1, <2>1, <2>3
<1>3. ASSUME NEW t \in 1 .. h[r], t - 1 \in S
      PROVE  t \in S
  <2> SUFFICES ASSUME NEW i \in DOMAIN nd, h[i] = t
               PROVE  f[i] = LeafAt(nd, h, lo, hi, Near(lo, hi, i, k))
    BY DEF TreeOf
  <2>1. ~nd[i].leaf
    BY NodeIs
  <2>2. PICK c : c = nd[i].vals[Index(nd[i], k) + 1]
    OBVIOUS
  <2>3. c \in DOMAIN nd /\ h[c] + 1 = h[i] /\ Near(lo, hi, c, k) = Near(lo, hi, i, k)
    BY <2>1, <2>2, NearChild
  <2>4. h[c] = t - 1
    BY <2>3, NodeIs
  <2>5. f[c] = LeafAt(nd, h, lo, hi, Near(lo, hi, c, k))
    BY <1>3, <2>3, <2>4
  <2> QED
    BY <1>1, <2>1, <2>2, <2>3, <2>5
<1> HIDE DEF S
<1>4. h[r] \in Nat
  BY DEF TreeOf
<1>5. \A t \in 0 .. h[r] : t \in S
  BY <1>2, <1>3, <1>4, Upward
<1> SUFFICES ASSUME NEW i \in DOMAIN nd
             PROVE  f[i] = LeafAt(nd, h, lo, hi, Near(lo, hi, i, k))
  OBVIOUS
<1>6. h[i] \in 0 .. h[r]
  BY NodeIs
<1> QED
  BY <1>5, <1>6 DEF S

\* The leaf a search for a key ends in.
LEMMA LeafForIs ==
    ASSUME NEW h, NEW lo, NEW hi, TreeOf(node, root, h, lo, hi), NEW k \in Key
    PROVE  LeafFor(root, k) = node[LeafAt(node, h, lo, hi, k)]
<1>1. k \in Int /\ root \in DOMAIN node
  BY KeysAre DEF TreeOf
<1>2. PICK f : f = CHOOSE g : IsBelow(g, node, k)
  OBVIOUS
<1>3. LeafFor(root, k) = node[f[root]]
  BY <1>2 DEF LeafFor, IsBelow
<1>4. IsBelow(f, node, k)
  BY <1>1, <1>2, BelowExists
<1>5. f[root] = LeafAt(node, h, lo, hi, Near(lo, hi, root, k))
  BY <1>1, <1>4, BelowIs
<1>6. Covers(lo, hi, root, k)
  BY KeysAre DEF TreeOf, Covers
<1>7. Near(lo, hi, root, k) = k
  BY <1>1, <1>6, NearIs
<1> QED
  BY <1>3, <1>5, <1>7

\* A key of a leaf is in the leaf for it.
LEMMA BoundIs ==
    ASSUME NEW nd, NEW r, NEW h, NEW lo, NEW hi, TreeOf(nd, r, h, lo, hi), NEW k \in Key,
           NEW l, l = LeafAt(nd, h, lo, hi, k)
    PROVE  k \in Bound(nd) <=> k \in Range(nd[l].keys)
<1>1. /\ l \in DOMAIN nd /\ nd[l].leaf
      /\ \A j \in DOMAIN nd : h[j] = 0 /\ Covers(lo, hi, j, k) => j = l
  BY LeafAtIs DEF Key
<1>2. ASSUME k \in Range(nd[l].keys)
      PROVE  k \in Bound(nd)
  BY <1>1, <1>2 DEF Bound
<1>3. ASSUME k \in Bound(nd)
      PROVE  k \in Range(nd[l].keys)
  <2>1. PICK j \in DOMAIN nd : nd[j].leaf /\ k \in Range(nd[j].keys)
    BY <1>3 DEF Bound
  <2>2. PICK a \in DOMAIN nd[j].keys : k = nd[j].keys[a]
    BY <2>1 DEF Range
  <2>3. h[j] = 0 /\ LeafFits(nd, h, lo, hi, j)
    BY <2>1, NodeIs
  <2>4. lo[j] <= nd[j].keys[a] /\ nd[j].keys[a] < hi[j]
    BY <2>3 DEF LeafFits
  <2>5. Covers(lo, hi, j, k)
    BY <2>2, <2>4 DEF Covers
  <2> QED
    BY <1>1, <2>1, <2>3, <2>5
<1> QED
  BY <1>2, <1>3

\* What find finds, and what it says of it.
LEMMA HasIs ==
    ASSUME NEW h, NEW lo, NEW hi, root # NoNode, TreeOf(node, root, h, lo, hi), NEW k \in Key
    PROVE  (Has(k) <=> k \in Bound(node)) /\ (Has(k) => Find(k) = k)
<1>1. PICK l, leaf : l = LeafAt(node, h, lo, hi, k) /\ leaf = node[l]
  OBVIOUS
<1>2. l \in DOMAIN node /\ node[l].leaf
  BY <1>1, LeafAtIs DEF Key
<1>3. LeafFor(root, k) = leaf /\ leaf.vals = leaf.keys /\ DOMAIN leaf.keys = 1 .. Len(leaf.keys)
  <2>1. Shaped(leaf) /\ LeafFits(node, h, lo, hi, l)
    BY <1>1, <1>2, NodeIs
  <2>2. leaf.vals = leaf.keys
    BY <1>1, <2>1 DEF LeafFits
  <2> QED
    BY <1>1, <2>1, <2>2, LeafForIs, ShapedIs
<1>4. Has(k) <=> k \in Range(leaf.keys)
  <2>1. Has(k) <=> Contains(leaf.keys, k)
    BY <1>3 DEF Has
  <2>2. Contains(leaf.keys, k) <=> \E i \in DOMAIN leaf.keys : leaf.keys[i] = k
    BY <1>3 DEF Contains
  <2>3. k \in Range(leaf.keys) <=> \E i \in DOMAIN leaf.keys : leaf.keys[i] = k
    BY DEF Range
  <2> QED
    BY <2>1, <2>2, <2>3
<1>5. k \in Bound(node) <=> k \in Range(leaf.keys)
  BY <1>1, BoundIs
<1>6. ASSUME Has(k)
      PROVE  Find(k) = k
  <2>1. \E i \in DOMAIN leaf.keys : leaf.keys[i] = k
    BY <1>4, <1>6 DEF Range
  <2>2. PICK i : i = CHOOSE j \in DOMAIN leaf.keys : leaf.keys[j] = k
    OBVIOUS
  <2>3. i \in DOMAIN leaf.keys /\ leaf.keys[i] = k
    BY <2>1, <2>2
  <2>4. Find(k) = leaf.vals[i]
    BY <1>3, <2>2 DEF Find
  <2> QED
    BY <1>3, <2>3, <2>4
<1> QED
  BY <1>4, <1>5, <1>6

-----------------------------------------------------------------------------
\* The nodes below a node are those whose share is within its share.
Under(nd, h, lo, hi, i) == {j \in DOMAIN nd : h[j] <= h[i] /\ lo[i] <= lo[j] /\ hi[j] <= hi[i]}

LEMMA UnderIs ==
    ASSUME NEW nd, NEW r, NEW h, NEW lo, NEW hi, TreeOf(nd, r, h, lo, hi), NEW i \in DOMAIN nd
    PROVE  /\ nd[i].leaf => Under(nd, h, lo, hi, i) = {i}
           /\ ~nd[i].leaf => Under(nd, h, lo, hi, i) =
                {i} \cup UNION {Under(nd, h, lo, hi, c) : c \in Range(nd[i].vals)}
<1>1. /\ h[i] \in Nat /\ (nd[i].leaf <=> h[i] = 0)
      /\ lo[i] \in Nat /\ hi[i] \in Nat /\ lo[i] < hi[i]
      /\ DOMAIN nd[i].vals = 1 .. Len(nd[i].vals)
  BY NodeIs, ShapedIs
<1>2. i \in Under(nd, h, lo, hi, i)
  BY <1>1 DEF Under
<1>3. ASSUME NEW j \in Under(nd, h, lo, hi, i), j # i
      PROVE  /\ ~nd[i].leaf
             /\ \E c \in Range(nd[i].vals) : j \in Under(nd, h, lo, hi, c)
  <2>1. j \in DOMAIN nd /\ h[j] <= h[i] /\ lo[i] <= lo[j] /\ hi[j] <= hi[i]
    BY <1>3 DEF Under
  <2>2. h[j] \in Nat /\ lo[j] \in Nat /\ hi[j] \in Nat /\ lo[j] < hi[j]
    BY <2>1, NodeIs
  <2>3. h[j] # h[i]
    <3>1. Covers(lo, hi, j, lo[j]) /\ Covers(lo, hi, i, lo[j])
      BY <1>1, <2>1, <2>2 DEF Covers
    <3>2. lo[j] \in Int
      BY <2>2
    <3> QED
      BY <1>3, <2>1, <3>1, <3>2, LevelUnique
  <2>4. h[j] < h[i]
    BY <1>1, <2>1, <2>2, <2>3
  <2>5. ~nd[i].leaf
    BY <1>1, <2>2, <2>4
  <2>6. \E a \in 1 .. Len(nd[i].vals) :
            LET c == nd[i].vals[a] IN h[j] <= h[c] /\ lo[c] <= lo[j] /\ hi[j] <= hi[c]
    BY <2>1, <2>4, BelowChild
  <2>7. PICK a \in 1 .. Len(nd[i].vals) : j \in Under(nd, h, lo, hi, nd[i].vals[a])
    BY <2>1, <2>6 DEF Under
  <2>8. nd[i].vals[a] \in Range(nd[i].vals)
    BY <1>1 DEF Range
  <2> QED
    BY <2>5, <2>7, <2>8
<1>4. ASSUME NEW c \in Range(nd[i].vals), ~nd[i].leaf, NEW j \in Under(nd, h, lo, hi, c)
      PROVE  j \in Under(nd, h, lo, hi, i)
  <2>1. PICK a \in 1 .. Len(nd[i].vals) : c = nd[i].vals[a]
    BY <1>1, <1>4 DEF Range
  <2>2. c \in DOMAIN nd /\ h[c] + 1 = h[i] /\ lo[i] <= lo[c] /\ hi[c] <= hi[i]
    BY <1>4, <2>1, ChildIs
  <2>3. j \in DOMAIN nd /\ h[j] <= h[c] /\ lo[c] <= lo[j] /\ hi[j] <= hi[c]
    BY <1>4 DEF Under
  <2>4. /\ h[c] \in Int /\ lo[c] \in Int /\ hi[c] \in Int
        /\ h[j] \in Int /\ lo[j] \in Int /\ hi[j] \in Int
    BY <2>2, <2>3, NodeIs
  <2>5. h[j] <= h[i] /\ lo[i] <= lo[j] /\ hi[j] <= hi[i]
    BY <1>1, <2>2, <2>3, <2>4, SMTT(20)
  <2> QED
    BY <2>3, <2>5 DEF Under
<1>5. ASSUME nd[i].leaf
      PROVE  Under(nd, h, lo, hi, i) = {i}
  BY <1>2, <1>3, <1>5
<1>6. ASSUME ~nd[i].leaf
      PROVE  Under(nd, h, lo, hi, i) =
                {i} \cup UNION {Under(nd, h, lo, hi, c) : c \in Range(nd[i].vals)}
  BY <1>2, <1>3, <1>4, <1>6
<1> QED
  BY <1>5, <1>6

\* clear's recursion, from every node.
IsReached(f, nd) ==
    f = [i \in DOMAIN nd |->
            {i} \cup IF nd[i].leaf THEN {} ELSE UNION {f[c] : c \in Range(nd[i].vals)}]

\* A child is a node, one level down.
LEMMA RangeIs ==
    ASSUME NEW nd, NEW r, NEW h, NEW lo, NEW hi, TreeOf(nd, r, h, lo, hi),
           NEW i \in DOMAIN nd, ~nd[i].leaf, NEW c \in Range(nd[i].vals)
    PROVE  c \in DOMAIN nd /\ h[c] \in Nat /\ h[c] + 1 = h[i]
<1>1. DOMAIN nd[i].vals = 1 .. Len(nd[i].vals)
  BY NodeIs, ShapedIs
<1>2. PICK a \in 1 .. Len(nd[i].vals) : c = nd[i].vals[a]
  BY <1>1 DEF Range
<1>3. c \in DOMAIN nd /\ h[c] + 1 = h[i]
  BY <1>2, ChildIs
<1> QED
  BY <1>3, NodeIs

LEMMA ReachedExists ==
    ASSUME NEW nd, NEW r, NEW h, NEW lo, NEW hi, TreeOf(nd, r, h, lo, hi)
    PROVE  \E f : IsReached(f, nd)
<1> DEFINE f == [i \in DOMAIN nd |-> Under(nd, h, lo, hi, i)]
<1>1. ASSUME NEW i \in DOMAIN nd
      PROVE  f[i] = {i} \cup IF nd[i].leaf THEN {} ELSE UNION {f[c] : c \in Range(nd[i].vals)}
  <2>1. CASE nd[i].leaf
    BY <2>1, UnderIs
  <2>2. CASE ~nd[i].leaf
    <3>1. \A c \in Range(nd[i].vals) : c \in DOMAIN nd
      BY <2>2, RangeIs
    <3>2. {f[c] : c \in Range(nd[i].vals)} = {Under(nd, h, lo, hi, c) : c \in Range(nd[i].vals)}
      BY <3>1
    <3>3. f[i] = {i} \cup UNION {Under(nd, h, lo, hi, c) : c \in Range(nd[i].vals)}
      BY <2>2, UnderIs
    <3> HIDE DEF f
    <3> QED
      BY <2>2, <3>2, <3>3
  <2> QED
    BY <2>1, <2>2
<1>2. f = [i \in DOMAIN nd |-> f[i]]
  OBVIOUS
<1> HIDE DEF f
<1>3. IsReached(f, nd)
  BY <1>1, <1>2 DEF IsReached
<1> QED
  BY <1>3

LEMMA ReachedAre ==
    ASSUME NEW nd, NEW r, NEW h, NEW lo, NEW hi, TreeOf(nd, r, h, lo, hi), NEW f, IsReached(f, nd)
    PROVE  \A i \in DOMAIN nd : f[i] = Under(nd, h, lo, hi, i)
<1> DEFINE S == {t \in Nat : \A i \in DOMAIN nd : h[i] = t => f[i] = Under(nd, h, lo, hi, i)}
<1>1. \A i \in DOMAIN nd :
        f[i] = {i} \cup IF nd[i].leaf THEN {} ELSE UNION {f[c] : c \in Range(nd[i].vals)}
  BY DEF IsReached
<1>2. 0 \in S
  <2> SUFFICES ASSUME NEW i \in DOMAIN nd, h[i] = 0
               PROVE  f[i] = Under(nd, h, lo, hi, i)
    OBVIOUS
  <2>1. nd[i].leaf
    BY NodeIs
  <2>2. f[i] = {i} \cup {}
    BY <1>1, <2>1
  <2>3. Under(nd, h, lo, hi, i) = {i}
    BY <2>1, UnderIs
  <2> QED
    BY <2>2, <2>3
<1>3. ASSUME NEW t \in 1 .. h[r], t - 1 \in S
      PROVE  t \in S
  <2> SUFFICES ASSUME NEW i \in DOMAIN nd, h[i] = t
               PROVE  f[i] = Under(nd, h, lo, hi, i)
    BY DEF TreeOf
  <2>1. ~nd[i].leaf
    BY NodeIs
  <2>2. ASSUME NEW c \in Range(nd[i].vals)
        PROVE  f[c] = Under(nd, h, lo, hi, c)
    <3>1. c \in DOMAIN nd /\ h[c] = t - 1
      BY <2>1, <2>2, RangeIs
    <3> QED
      BY <1>3, <3>1
  <2>3. {f[c] : c \in Range(nd[i].vals)} = {Under(nd, h, lo, hi, c) : c \in Range(nd[i].vals)}
    BY <2>2
  <2>4. Under(nd, h, lo, hi, i) = {i} \cup UNION {Under(nd, h, lo, hi, c) : c \in Range(nd[i].vals)}
    BY <2>1, UnderIs
  <2>5. PICK A : A = {f[c] : c \in Range(nd[i].vals)}
    OBVIOUS
  <2>6. f[i] = {i} \cup UNION A
    BY <1>1, <2>1, <2>5
  <2>7. Under(nd, h, lo, hi, i) = {i} \cup UNION A
    BY <2>3, <2>4, <2>5
  <2> QED
    BY <2>6, <2>7
<1> HIDE DEF S
<1>4. h[r] \in Nat
  BY DEF TreeOf
<1>5. \A t \in 0 .. h[r] : t \in S
  BY <1>2, <1>3, <1>4, Upward
<1> SUFFICES ASSUME NEW i \in DOMAIN nd
             PROVE  f[i] = Under(nd, h, lo, hi, i)
  OBVIOUS
<1>6. h[i] \in 0 .. h[r]
  BY NodeIs
<1> QED
  BY <1>5, <1>6 DEF S

\* What clear reaches from a node.
LEMMA ReachedIs ==
    ASSUME NEW h, NEW lo, NEW hi, TreeOf(node, root, h, lo, hi), NEW i \in DOMAIN node
    PROVE  Reached(i) = Under(node, h, lo, hi, i)
<1>1. PICK f : f = CHOOSE g : IsReached(g, node)
  OBVIOUS
<1>2. i # NoNode
  BY TreeAssumption DEF TreeOf, NodeLba, NoNode
<1>3. Reached(i) = f[i]
  BY <1>1, <1>2 DEF Reached, IsReached
<1>4. IsReached(f, node)
  BY <1>1, ReachedExists
<1> QED
  BY <1>3, <1>4, ReachedAre

LEMMA TreeIs ==
    ASSUME NEW h, NEW lo, NEW hi, TreeOf(node, root, h, lo, hi)
    PROVE  Reached(root) = DOMAIN node /\ Values(root) = Bound(node)
<1>1. root \in DOMAIN node /\ lo[root] = 0 /\ hi[root] = Top
  BY DEF TreeOf
<1>2. \A j \in DOMAIN node : h[j] <= h[root] /\ lo[root] <= lo[j] /\ hi[j] <= hi[root]
  BY <1>1, NodeIs
<1>3. Reached(root) = DOMAIN node
  BY <1>1, <1>2, ReachedIs DEF Under
<1>4. \A i \in {j \in DOMAIN node : node[j].leaf} : node[i].vals = node[i].keys
  BY NodeIs DEF LeafFits
<1>5. Values(root) = UNION {Range(node[i].vals) : i \in {j \in DOMAIN node : node[j].leaf}}
  BY <1>3 DEF Values
<1>6. {Range(node[i].vals) : i \in {j \in DOMAIN node : node[j].leaf}}
        = {Range(node[i].keys) : i \in {j \in DOMAIN node : node[j].leaf}}
  BY <1>4
<1>7. Values(root) = Bound(node)
  BY <1>5, <1>6 DEF Bound
<1> QED
  BY <1>3, <1>7

\* The distance of the leaves below a node, from every node.
IsDepths(f, nd) ==
    f = [j \in DOMAIN nd |->
            IF nd[j].leaf THEN {0} ELSE UNION {{d + 1 : d \in f[c]} : c \in Range(nd[j].vals)}]

LEMMA DepthsExist ==
    ASSUME NEW nd, NEW r, NEW h, NEW lo, NEW hi, TreeOf(nd, r, h, lo, hi)
    PROVE  IsDepths([j \in DOMAIN nd |-> {h[j]}], nd)
<1> DEFINE f == [j \in DOMAIN nd |-> {h[j]}]
<1>1. ASSUME NEW i \in DOMAIN nd
      PROVE  f[i] = IF nd[i].leaf THEN {0} ELSE UNION {{d + 1 : d \in f[c]} : c \in Range(nd[i].vals)}
  <2>1. CASE nd[i].leaf
    BY <2>1, NodeIs
  <2>2. CASE ~nd[i].leaf
    <3>1. \A c \in Range(nd[i].vals) : f[c] = {h[c]} /\ h[c] + 1 = h[i]
      BY <2>2, RangeIs
    <3>2. \E c : c \in Range(nd[i].vals)
      <4>1. PICK n : n = nd[i]
        OBVIOUS
      <4>2. DOMAIN n.vals = 1 .. Len(n.vals) /\ Len(n.vals) = Len(n.keys) + 1 /\ Len(n.keys) \in Nat
        BY <2>2, <4>1, NodeIs, ShapedIs
      <4>3. n.vals[1] \in Range(n.vals)
        BY <4>2 DEF Range
      <4> QED
        BY <4>1, <4>3
    <3>3. f[i] = {h[i]}
      OBVIOUS
    <3> HIDE DEF f
    <3>4. UNION {{d + 1 : d \in f[c]} : c \in Range(nd[i].vals)} = {h[i]}
      BY <3>1, <3>2
    <3> QED
      BY <2>2, <3>3, <3>4
  <2> QED
    BY <2>1, <2>2
<1>2. f = [i \in DOMAIN nd |-> f[i]]
  OBVIOUS
<1> HIDE DEF f
<1>3. IsDepths(f, nd)
  BY <1>1, <1>2 DEF IsDepths
<1> QED
  BY <1>3 DEF f

LEMMA DepthsAre ==
    ASSUME NEW nd, NEW r, NEW h, NEW lo, NEW hi, TreeOf(nd, r, h, lo, hi), NEW f, IsDepths(f, nd)
    PROVE  \A i \in DOMAIN nd : f[i] = {h[i]}
<1> DEFINE S == {t \in Nat : \A i \in DOMAIN nd : h[i] = t => f[i] = {h[i]}}
<1>1. \A i \in DOMAIN nd :
        f[i] = IF nd[i].leaf THEN {0} ELSE UNION {{d + 1 : d \in f[c]} : c \in Range(nd[i].vals)}
  BY DEF IsDepths
<1>2. 0 \in S
  <2> SUFFICES ASSUME NEW i \in DOMAIN nd, h[i] = 0
               PROVE  f[i] = {h[i]}
    OBVIOUS
  <2>1. nd[i].leaf
    BY NodeIs
  <2> QED
    BY <1>1, <2>1
<1>3. ASSUME NEW t \in 1 .. h[r], t - 1 \in S
      PROVE  t \in S
  <2> SUFFICES ASSUME NEW i \in DOMAIN nd, h[i] = t
               PROVE  f[i] = {h[i]}
    BY DEF TreeOf
  <2>1. ~nd[i].leaf
    BY NodeIs
  <2>2. ASSUME NEW c \in Range(nd[i].vals)
        PROVE  f[c] = {h[c]} /\ h[c] + 1 = h[i]
    <3>1. c \in DOMAIN nd /\ h[c] = t - 1 /\ h[c] + 1 = h[i]
      BY <2>1, <2>2, RangeIs
    <3> QED
      BY <1>3, <3>1
  <2>3. \E c : c \in Range(nd[i].vals)
    <3>1. PICK n : n = nd[i]
      OBVIOUS
    <3>2. DOMAIN n.vals = 1 .. Len(n.vals) /\ Len(n.vals) = Len(n.keys) + 1 /\ Len(n.keys) \in Nat
      BY <2>1, <3>1, NodeIs, ShapedIs
    <3>3. n.vals[1] \in Range(n.vals)
      BY <3>2 DEF Range
    <3> QED
      BY <3>1, <3>3
  <2>4. UNION {{d + 1 : d \in f[c]} : c \in Range(nd[i].vals)} = {h[i]}
    BY <2>2, <2>3
  <2> QED
    BY <1>1, <2>1, <2>4
<1> HIDE DEF S
<1>4. h[r] \in Nat
  BY DEF TreeOf
<1>5. \A t \in 0 .. h[r] : t \in S
  BY <1>2, <1>3, <1>4, Upward
<1> SUFFICES ASSUME NEW i \in DOMAIN nd
             PROVE  f[i] = {h[i]}
  OBVIOUS
<1>6. h[i] \in 0 .. h[r]
  BY NodeIs
<1> QED
  BY <1>5, <1>6 DEF S

LEMMA DepthsIs ==
    ASSUME NEW h, NEW lo, NEW hi, TreeOf(node, root, h, lo, hi)
    PROVE  Depths(root) = {h[root]}
<1>1. PICK f : f = CHOOSE g : IsDepths(g, node)
  OBVIOUS
<1>2. Depths(root) = f[root] /\ root \in DOMAIN node
  BY <1>1 DEF Depths, IsDepths, TreeOf
<1>3. IsDepths(f, node)
  BY <1>1, DepthsExist
<1> QED
  BY <1>2, <1>3, DepthsAre

-----------------------------------------------------------------------------
\* Nodes and keys can be counted.
LEMMA KeysOfTree ==
    ASSUME NEW nd, NEW r, NEW h, NEW lo, NEW hi, TreeOf(nd, r, h, lo, hi)
    PROVE  /\ Bound(nd) \subseteq Key
           /\ IsFiniteSet(Bound(nd)) /\ Cardinality(Bound(nd)) \in Nat
           /\ IsFiniteSet(DOMAIN nd) /\ Cardinality(DOMAIN nd) \in Nat
<1>1. ASSUME NEW k \in Bound(nd)
      PROVE  k \in Key
  <2>1. PICK j \in DOMAIN nd : k \in Range(nd[j].keys)
    BY <1>1 DEF Bound
  <2>2. DOMAIN nd[j].keys = 1 .. Len(nd[j].keys) /\ \A a \in 1 .. Len(nd[j].keys) : nd[j].keys[a] \in Key
    BY NodeIs, ShapedIs
  <2> QED
    BY <2>1, <2>2 DEF Range
<1>2. IsFiniteSet(Key) /\ IsFiniteSet(NodeLba)
  BY TreeAssumption, FS_Interval DEF Key, NodeLba
<1>3. IsFiniteSet(Bound(nd)) /\ IsFiniteSet(DOMAIN nd)
  BY <1>1, <1>2, FS_Subset DEF TreeOf
<1> QED
  BY <1>1, <1>3, FS_CardinalityType

\* Without a tree there is nothing in it.
LEMMA NoTreeIs ==
    ASSUME root = NoNode, DOMAIN node = {}
    PROVE  Reached(root) = {} /\ Values(root) = {} /\ Bound(node) = {}
<1>1. Reached(root) = {}
  BY DEF Reached
<1>2. Values(root) = {}
  BY <1>1 DEF Values
<1> QED
  BY <1>1, <1>2 DEF Bound

\* The tree and what is bound in it are what the accounting counts.
LEMMA TreeAndValues ==
    ASSUME IndexInv
    PROVE  /\ Reached(root) = DOMAIN node /\ Values(root) = Bound(node)
           /\ IsFiniteSet(DOMAIN node) /\ IsFiniteSet(Bound(node)) /\ Bound(node) \subseteq Key
           /\ Cardinality(DOMAIN node) \in Nat /\ Cardinality(Bound(node)) \in Nat
<1>1. CASE root = NoNode
  <2>1. DOMAIN node = {}
    BY <1>1 DEF IndexInv
  <2>2. Reached(root) = {} /\ Values(root) = {} /\ Bound(node) = {}
    BY <1>1, <2>1, NoTreeIs
  <2> QED
    BY <2>1, <2>2, FS_EmptySet
<1>2. CASE root # NoNode
  <2>1. PICK h, lo, hi : TreeOf(node, root, h, lo, hi)
    BY <1>2 DEF IndexInv
  <2> QED
    BY <2>1, TreeIs, KeysOfTree
<1> QED
  BY <1>1, <1>2

\* The types follow.
LEMMA IndexTypes ==
    ASSUME IndexInv
    PROVE  TypeOKIndex
<1>1. Cardinality(DOMAIN node) \in Nat /\ Cardinality(Bound(node)) \in Nat
  BY TreeAndValues
<1>2. space \in 0 .. Blocks /\ taken \in 0 .. Blocks
  <2>1. PICK a, b, d : a = Cardinality(DOMAIN node) /\ b = Cardinality(Bound(node)) /\ d = (IF direct THEN 1 ELSE 0)
    OBVIOUS
  <2>2. a \in Nat /\ b \in Nat /\ d \in Nat /\ space \in Nat /\ taken \in Nat
        /\ space + taken + a + b + d <= Blocks /\ Blocks \in Nat
    BY <1>1, <2>1, TreeAssumption DEF IndexInv, Accounted
  <2> QED
    BY <2>2
<1>3. direct \in BOOLEAN /\ ret.ok \in BOOLEAN /\ ret.key \in Key
  BY DEF IndexInv
<1>4. CASE root = NoNode
  <2>1. DOMAIN node = {}
    BY <1>4 DEF IndexInv
  <2> QED
    BY <1>2, <1>3, <1>4, <2>1 DEF TypeOKIndex
<1>5. CASE root # NoNode
  <2>1. PICK h, lo, hi : TreeOf(node, root, h, lo, hi)
    BY <1>5 DEF IndexInv
  <2>2. DOMAIN node \subseteq NodeLba /\ root \in NodeLba \cup {NoNode}
    BY <2>1 DEF TreeOf
  <2>3. \A i \in DOMAIN node :
            /\ node[i] \in Node
            /\ Len(node[i].keys) < M
            /\ Len(node[i].vals) = Len(node[i].keys) + (IF node[i].leaf THEN 0 ELSE 1)
    BY <2>1, NodeIs DEF Shaped
  <2> QED
    BY <1>2, <1>3, <2>2, <2>3 DEF TypeOKIndex
<1> QED
  BY <1>4, <1>5

\* A key below a node is of its share.
LEMMA KeysWithin ==
    ASSUME NEW h, NEW lo, NEW hi, TreeOf(node, root, h, lo, hi), NEW i \in DOMAIN node,
           NEW k \in KeysBelow(i)
    PROVE  k \in Int /\ lo[i] <= k /\ k < hi[i]
<1>1. PICK j \in Under(node, h, lo, hi, i) : node[j].leaf /\ k \in Range(node[j].keys)
  BY ReachedIs DEF KeysBelow
<1>2. j \in DOMAIN node /\ lo[i] <= lo[j] /\ hi[j] <= hi[i]
  BY DEF Under
<1>3. DOMAIN node[j].keys = 1 .. Len(node[j].keys) /\ \A a \in 1 .. Len(node[j].keys) : node[j].keys[a] \in Int
  BY <1>2, NodeIs, ShapedIs, KeysAre
<1>4. PICK a \in 1 .. Len(node[j].keys) : k = node[j].keys[a]
  BY <1>1, <1>3 DEF Range
<1>5. lo[j] <= k /\ k < hi[j]
  <2>1. LeafFits(node, h, lo, hi, j)
    BY <1>1, <1>2, NodeIs
  <2> QED
    BY <1>3, <1>4, <2>1 DEF LeafFits
<1>6. lo[i] \in Int /\ hi[i] \in Int /\ lo[j] \in Int /\ hi[j] \in Int /\ k \in Int
  BY <1>2, <1>3, <1>4, NodeIs
<1> QED
  BY <1>2, <1>5, <1>6

LEMMA SearchTreeHolds ==
    ASSUME IndexInv
    PROVE  SearchTree
<1> SUFFICES ASSUME NEW i \in DOMAIN node
             PROVE  /\ \A a, b \in DOMAIN node[i].keys : a < b => node[i].keys[a] < node[i].keys[b]
                    /\ ~node[i].leaf => \A a \in DOMAIN node[i].vals : \A k \in KeysBelow(node[i].vals[a]) :
                        /\ a > 1 => node[i].keys[a - 1] <= k
                        /\ a <= Len(node[i].keys) => k < node[i].keys[a]
  BY TreeAndValues DEF SearchTree, Tree, Inner
<1>1. PICK h, lo, hi : TreeOf(node, root, h, lo, hi)
  BY DEF IndexInv
<1>2. PICK n : n = node[i]
  OBVIOUS
<1>3. /\ DOMAIN n.keys = 1 .. Len(n.keys) /\ DOMAIN n.vals = 1 .. Len(n.vals) /\ Len(n.keys) \in Nat
      /\ Len(n.vals) = Len(n.keys) + (IF n.leaf THEN 0 ELSE 1)
      /\ \A a, b \in 1 .. Len(n.keys) : a < b => n.keys[a] < n.keys[b]
  BY <1>1, <1>2, NodeIs, ShapedIs
<1>4. ASSUME ~n.leaf, NEW a \in 1 .. Len(n.vals), NEW k \in KeysBelow(n.vals[a])
      PROVE  /\ a > 1 => n.keys[a - 1] <= k
             /\ a <= Len(n.keys) => k < n.keys[a]
  <2>1. PICK c : c = n.vals[a]
    OBVIOUS
  <2>2. c \in DOMAIN node /\ lo[c] = From(n, a, lo[i]) /\ hi[c] = To(n, a, hi[i])
    BY <1>1, <1>2, <1>4, <2>1, ChildIs
  <2>3. lo[c] <= k /\ k < hi[c]
    BY <1>1, <1>4, <2>1, <2>2, KeysWithin
  <2>4. ASSUME a > 1
        PROVE  n.keys[a - 1] <= k
    BY <2>2, <2>3, <2>4 DEF From
  <2>5. ASSUME a <= Len(n.keys)
        PROVE  k < n.keys[a]
    <3>1. a # Len(n.vals)
      BY <1>3, <1>4, <2>5
    <3> QED
      BY <2>2, <2>3, <3>1 DEF To
  <2> QED
    BY <2>4, <2>5
<1> QED
  BY <1>2, <1>3, <1>4

LEMMA BalancedHolds ==
    ASSUME IndexInv
    PROVE  Balanced
<1> SUFFICES ASSUME root # NoNode
             PROVE  /\ Cardinality(Depths(root)) = 1
                    /\ \A i \in DOMAIN node : node[i].keys # <<>>
                    /\ \A i, j \in DOMAIN node : ~node[i].leaf /\ ~node[j].leaf =>
                        \A a \in DOMAIN node[i].vals, b \in DOMAIN node[j].vals :
                            node[i].vals[a] = node[j].vals[b] => <<i, a>> = <<j, b>>
  BY TreeAndValues DEF Balanced, Tree, Inner
<1>1. PICK h, lo, hi : TreeOf(node, root, h, lo, hi)
  BY DEF IndexInv
<1>2. Cardinality(Depths(root)) = 1
  BY <1>1, DepthsIs, FS_Singleton
<1>3. \A i \in DOMAIN node : node[i].keys # <<>>
  BY DEF IndexInv, NoneEmpty
<1>4. ASSUME NEW i \in DOMAIN node, NEW j \in DOMAIN node, ~node[i].leaf, ~node[j].leaf,
             NEW a \in DOMAIN node[i].vals, NEW b \in DOMAIN node[j].vals, node[i].vals[a] = node[j].vals[b]
      PROVE  <<i, a>> = <<j, b>>
  <2>1. a \in 1 .. Len(node[i].vals) /\ b \in 1 .. Len(node[j].vals)
    BY <1>1, <1>4, NodeIs, ShapedIs
  <2>2. i = j /\ a = b
    BY <1>1, <1>4, <2>1, OneFather
  <2> QED
    BY <2>2
<1> QED
  BY <1>2, <1>3, <1>4

\* The first key of a leaf that has one.
LEMMA FirstKey ==
    ASSUME NEW nd, NEW r, NEW h, NEW lo, NEW hi, TreeOf(nd, r, h, lo, hi), NEW i \in DOMAIN nd,
           nd[i].leaf, nd[i].keys # <<>>
    PROVE  nd[i].keys[1] \in Int /\ lo[i] <= nd[i].keys[1] /\ nd[i].keys[1] < hi[i]
<1>1. /\ nd[i].keys \in Seq(Key) /\ DOMAIN nd[i].keys = 1 .. Len(nd[i].keys)
      /\ \A a \in 1 .. Len(nd[i].keys) : nd[i].keys[a] \in Int
  BY NodeIs, ShapedIs, KeysAre
<1>2. 1 \in 1 .. Len(nd[i].keys)
  <2>1. PICK s \in Seq(Key) : s = nd[i].keys
    BY <1>1
  <2>2. Len(s) \in Nat /\ Len(s) # 0
    BY <2>1, EmptySeq
  <2> QED
    BY <2>1, <2>2
<1>3. LeafFits(nd, h, lo, hi, i)
  BY NodeIs
<1> QED
  BY <1>1, <1>2, <1>3 DEF LeafFits

LEMMA LeafChainHolds ==
    ASSUME IndexInv
    PROVE  LeafChain
<1> DEFINE Above1(i) == {j \in DOMAIN node : node[j].leaf /\ node[j].keys[1] > node[i].keys[1]}
<1> SUFFICES ASSUME NEW i \in DOMAIN node, node[i].leaf
             PROVE  IF Above1(i) = {} THEN node[i].nxt = NoNode
                    ELSE /\ node[i].nxt \in Above1(i)
                         /\ \A j \in Above1(i) : node[node[i].nxt].keys[1] <= node[j].keys[1]
  BY TreeAndValues DEF LeafChain, Tree
<1>1. PICK h, lo, hi : TreeOf(node, root, h, lo, hi)
  BY DEF IndexInv
<1>2. \A j \in DOMAIN node : node[j].keys # <<>>
  BY DEF IndexInv, NoneEmpty
<1>3. \A j \in DOMAIN node : node[j].leaf =>
        node[j].keys[1] \in Int /\ lo[j] <= node[j].keys[1] /\ node[j].keys[1] < hi[j]
  BY <1>1, <1>2, FirstKey
<1>4. \A j \in DOMAIN node :
        lo[j] \in Int /\ hi[j] \in Int /\ hi[j] <= Top /\ (node[j].leaf <=> h[j] = 0)
  BY <1>1, NodeIs
<1>5. ASSUME NEW j \in DOMAIN node, NEW l \in DOMAIN node, node[j].leaf, node[l].leaf,
             lo[l] <= node[j].keys[1], node[j].keys[1] < hi[l]
      PROVE  j = l
  <2>1. PICK x : x = node[j].keys[1]
    OBVIOUS
  <2>2. Covers(lo, hi, j, x) /\ Covers(lo, hi, l, x) /\ x \in Int /\ h[j] = h[l]
    BY <1>3, <1>4, <1>5, <2>1 DEF Covers
  <2> QED
    BY <1>1, <2>2, LevelUnique
<1>6. ASSUME NEW j \in Above1(i)
      PROVE  j \in DOMAIN node /\ node[j].leaf /\ hi[i] <= node[j].keys[1]
  <2>1. j \in DOMAIN node /\ node[j].leaf /\ node[j].keys[1] > node[i].keys[1]
    BY <1>6
  <2>2. node[j].keys[1] \in Int /\ node[i].keys[1] \in Int /\ lo[i] <= node[i].keys[1] /\ lo[i] \in Int /\ hi[i] \in Int
    BY <1>3, <1>4, <2>1
  <2>3. lo[i] <= node[j].keys[1] /\ j # i
    BY <2>1, <2>2
  <2>4. ~(node[j].keys[1] < hi[i])
    BY <1>5, <2>1, <2>3
  <2> QED
    BY <2>1, <2>2, <2>4
<1>7. LeafFits(node, h, lo, hi, i)
  BY <1>1, NodeIs
<1>8. CASE hi[i] = Top
  <2>1. node[i].nxt = NoNode
    BY <1>7, <1>8 DEF LeafFits
  <2>2. ASSUME NEW j \in Above1(i)
        PROVE  FALSE
    <3>1. j \in DOMAIN node /\ node[j].leaf /\ Top <= node[j].keys[1]
      BY <1>6, <1>8, <2>2
    <3>2. node[j].keys[1] \in Int /\ node[j].keys[1] < hi[j] /\ hi[j] <= Top /\ hi[j] \in Int /\ Top \in Int
      BY <1>3, <1>4, <1>8, <3>1
    <3> QED
      BY <3>1, <3>2
  <2> QED
    BY <2>1, <2>2
<1>9. CASE hi[i] # Top
  <2>1. PICK c : c = node[i].nxt
    OBVIOUS
  <2>2. c \in DOMAIN node /\ node[c].leaf /\ lo[c] = hi[i]
    <3>1. c \in DOMAIN node /\ h[c] = 0 /\ lo[c] = hi[i]
      BY <1>7, <1>9, <2>1 DEF LeafFits
    <3> QED
      BY <1>4, <3>1
  <2>3. /\ node[c].keys[1] \in Int /\ node[i].keys[1] \in Int /\ lo[c] \in Int /\ hi[c] \in Int
        /\ lo[c] <= node[c].keys[1] /\ node[c].keys[1] < hi[c] /\ node[i].keys[1] < hi[i]
    BY <1>3, <1>4, <2>2
  <2>4. node[c].keys[1] > node[i].keys[1]
    BY <2>2, <2>3
  <2>5. c \in Above1(i)
    BY <2>2, <2>4
  <2>6. ASSUME NEW j \in Above1(i)
        PROVE  node[c].keys[1] <= node[j].keys[1]
    <3>1. j \in DOMAIN node /\ node[j].leaf /\ lo[c] <= node[j].keys[1]
      BY <1>6, <2>2, <2>6
    <3>2. node[j].keys[1] \in Int
      BY <1>3, <3>1
    <3>3. CASE node[j].keys[1] < hi[c]
      <4>1. j = c
        BY <1>5, <2>2, <3>1, <3>3
      <4> QED
        BY <2>3, <4>1
    <3>4. CASE ~(node[j].keys[1] < hi[c])
      BY <2>3, <3>2, <3>4
    <3> QED
      BY <3>3, <3>4
  <2> HIDE DEF Above1
  <2> QED
    BY <2>1, <2>5, <2>6
<1> QED
  BY <1>8, <1>9

\* What a reader of the tree relies on follows from the invariant.
LEMMA WellFormedHolds == IndexInv => WellFormed
<1> SUFFICES ASSUME IndexInv PROVE WellFormed
  OBVIOUS
<1> QED
  BY IndexTypes, SearchTreeHolds, BalancedHolds, LeafChainHolds DEF WellFormed

-----------------------------------------------------------------------------
\* Sequence w is s with e at position i.
Inserted(s, i, e, w) ==
    /\ Len(w) = Len(s) + 1 /\ w[i] = e
    /\ \A a \in 1 .. i - 1 : w[a] = s[a]
    /\ \A a \in i .. Len(s) : w[a + 1] = s[a]

LEMMA InsertAtInserts ==
    ASSUME NEW S, NEW s, s \in Seq(S), NEW i, i \in 1 .. Len(s) + 1, NEW e, e \in S,
           NEW w, w = InsertAt(s, i, e)
    PROVE  w \in Seq(S) /\ Inserted(s, i, e, w)
<1>1. /\ InsertAt(s, i, e) \in Seq(S) /\ Len(InsertAt(s, i, e)) = Len(s) + 1
      /\ InsertAt(s, i, e)[i] = e
      /\ \A a \in 1 .. i - 1 : InsertAt(s, i, e)[a] = s[a]
      /\ \A a \in i .. Len(s) : InsertAt(s, i, e)[a + 1] = s[a]
  BY InsertAtIs
<1> QED
  BY <1>1 DEF Inserted

-----------------------------------------------------------------------------
\* Both halves of a full node have keys.
LEMMA MiddleIs == M \in Nat /\ Middle \in Nat /\ 1 <= Middle /\ Middle + 2 <= M - 1
BY TreeAssumption DEF Middle

\* How many keys of a node its right half has not.
Before(n) == IF n.leaf THEN Middle ELSE Middle + 1

LEMMA BeforeIs ==
    ASSUME NEW n, Shaped(n)
    PROVE  /\ Before(n) \in Nat /\ Before(n) <= M - 2 /\ Before(n) >= Middle
           /\ Before(n) = Middle + (IF n.leaf THEN 0 ELSE 1)
  BY MiddleIs, ShapedIs DEF Before

\* The left half of a full node.
LEMMA LeftIs ==
    ASSUME NEW n, Shaped(n), Full(n), NEW new \in Nat, NEW l, l = Left(n, new)
    PROVE  /\ Shaped(l) /\ l.leaf = n.leaf /\ Len(l.keys) = Middle
           /\ \A a \in 1 .. Middle : l.keys[a] = n.keys[a]
           /\ Len(l.vals) = Before(n)
           /\ \A a \in 1 .. Before(n) : l.vals[a] = n.vals[a]
           /\ l.nxt = IF n.leaf THEN new ELSE n.nxt
           /\ n.leaf /\ n.vals = n.keys => l.vals = l.keys
<1>1. /\ n \in Node /\ n.keys \in Seq(Key) /\ n.vals \in Seq(Nat) /\ n.leaf \in BOOLEAN /\ n.nxt \in Nat
      /\ Len(n.keys) = M - 1 /\ Len(n.vals) = M - 1 + (IF n.leaf THEN 0 ELSE 1)
      /\ \A a \in 1 .. M - 1 : n.keys[a] \in Key
      /\ \A a, b \in 1 .. M - 1 : a < b => n.keys[a] < n.keys[b]
  BY ShapedIs DEF Full, Shaped
<1>2. PICK m, b : m = Middle /\ b = Before(n)
  OBVIOUS
<1>3. /\ M \in Nat /\ m \in Nat /\ 1 <= m /\ m + 2 <= M - 1
      /\ b \in Nat /\ b <= M - 2 /\ b >= m /\ b = m + (IF n.leaf THEN 0 ELSE 1)
  BY <1>2, MiddleIs, BeforeIs
<1>4. l = [n EXCEPT !.keys = SubSeq(n.keys, 1, m), !.vals = SubSeq(n.vals, 1, b),
                    !.nxt = IF n.leaf THEN new ELSE n.nxt]
  BY <1>2 DEF Left, Before
<1>5. /\ l.leaf = n.leaf /\ l.keys = SubSeq(n.keys, 1, m) /\ l.vals = SubSeq(n.vals, 1, b)
      /\ l.nxt = IF n.leaf THEN new ELSE n.nxt
  BY <1>1, <1>4 DEF Node
<1>6. /\ l.keys \in Seq(Key) /\ Len(l.keys) = m /\ \A a \in 1 .. m : l.keys[a] = n.keys[a]
  BY <1>1, <1>3, <1>5
<1>7. /\ l.vals \in Seq(Nat) /\ Len(l.vals) = b /\ \A a \in 1 .. b : l.vals[a] = n.vals[a]
  BY <1>1, <1>3, <1>5, SMTT(20)
<1>8. l \in Node
  <2>1. l.nxt \in Nat
    BY <1>1, <1>5
  <2> QED
    BY <1>1, <1>4, <1>5, <1>6, <1>7, <2>1 DEF Node
<1>9. Ascending(l.keys)
  <2>1. DOMAIN l.keys = 1 .. m /\ \A a \in 1 .. m : a \in 1 .. M - 1
    BY <1>3, <1>6
  <2> QED
    BY <1>1, <1>6, <2>1 DEF Ascending
<1>10. Shaped(l)
  BY <1>3, <1>5, <1>6, <1>7, <1>8, <1>9 DEF Shaped
<1>11. ASSUME n.leaf, n.vals = n.keys
       PROVE  l.vals = l.keys
  BY <1>3, <1>5, <1>11
<1> QED
  BY <1>2, <1>5, <1>6, <1>7, <1>10, <1>11

\* The right half.
LEMMA RightIs ==
    ASSUME NEW n, Shaped(n), Full(n), NEW l, l = Right(n)
    PROVE  /\ Shaped(l) /\ l.leaf = n.leaf /\ Len(l.keys) = M - 1 - Before(n)
           /\ \A a \in 1 .. M - 1 - Before(n) : l.keys[a] = n.keys[a + Before(n)]
           /\ Len(l.vals) = Len(n.vals) - Before(n)
           /\ \A a \in 1 .. Len(n.vals) - Before(n) : l.vals[a] = n.vals[a + Before(n)]
           /\ n.leaf => l.nxt = n.nxt
           /\ n.leaf /\ n.vals = n.keys => l.vals = l.keys
<1>1. /\ n \in Node /\ n.keys \in Seq(Key) /\ n.vals \in Seq(Nat) /\ n.leaf \in BOOLEAN /\ n.nxt \in Nat
      /\ Len(n.keys) = M - 1 /\ Len(n.vals) = M - 1 + (IF n.leaf THEN 0 ELSE 1)
      /\ \A a \in 1 .. M - 1 : n.keys[a] \in Key
      /\ \A a, b \in 1 .. M - 1 : a < b => n.keys[a] < n.keys[b]
  BY ShapedIs DEF Full, Shaped
<1>2. PICK b, v : b = Before(n) /\ v = Len(n.vals)
  OBVIOUS
<1>3. M \in Nat /\ b \in Nat /\ b <= M - 2 /\ v \in Nat /\ v = M - 1 + (IF n.leaf THEN 0 ELSE 1)
  BY <1>1, <1>2, MiddleIs, BeforeIs
<1>4. l = [leaf |-> n.leaf, keys |-> SubSeq(n.keys, b + 1, M - 1), vals |-> SubSeq(n.vals, b + 1, v),
           nxt |-> IF n.leaf THEN n.nxt ELSE NoNode]
  <2>1. b + 1 = IF n.leaf THEN Middle + 1 ELSE Middle + 2
    BY <1>1, <1>2, MiddleIs DEF Before
  <2> QED
    BY <1>2, <2>1 DEF Right
<1>5. /\ l.keys = SubSeq(n.keys, b + 1, M - 1) /\ l.vals = SubSeq(n.vals, b + 1, v)
      /\ l.leaf = n.leaf /\ l.nxt = IF n.leaf THEN n.nxt ELSE NoNode
  <2>1. PICK w : w = [leaf |-> n.leaf, keys |-> SubSeq(n.keys, b + 1, M - 1), vals |-> SubSeq(n.vals, b + 1, v),
                      nxt |-> IF n.leaf THEN n.nxt ELSE NoNode]
    OBVIOUS
  <2>2. /\ w.keys = SubSeq(n.keys, b + 1, M - 1) /\ w.vals = SubSeq(n.vals, b + 1, v)
        /\ w.leaf = n.leaf /\ w.nxt = IF n.leaf THEN n.nxt ELSE NoNode
    BY <2>1
  <2>3. l = w
    BY <1>4, <2>1
  <2> QED
    BY <2>2, <2>3
<1>6. l.keys \in Seq(Key) /\ Len(l.keys) = M - 1 - b /\ \A a \in 1 .. M - 1 - b : l.keys[a] = n.keys[a + b]
  <2>1. PICK s \in Seq(Key), e \in Nat : s = n.keys /\ Len(s) = e /\ e = M - 1
    BY <1>1, <1>3
  <2>2. l.keys = SubSeq(s, b + 1, e)
    BY <1>5, <2>1
  <2>3. /\ SubSeq(s, b + 1, e) \in Seq(Key) /\ Len(SubSeq(s, b + 1, e)) = e - b
        /\ \A a \in 1 .. e - b : SubSeq(s, b + 1, e)[a] = s[a + b]
    BY <1>3, <2>1
  <2> QED
    BY <2>1, <2>2, <2>3
<1>7. l.vals \in Seq(Nat) /\ Len(l.vals) = v - b /\ \A a \in 1 .. v - b : l.vals[a] = n.vals[a + b]
  <2>1. PICK s \in Seq(Nat) : s = n.vals /\ Len(s) = v
    BY <1>1, <1>2
  <2>2. l.vals = SubSeq(s, b + 1, v)
    BY <1>5, <2>1
  <2>3. /\ SubSeq(s, b + 1, v) \in Seq(Nat) /\ Len(SubSeq(s, b + 1, v)) = v - b
        /\ \A a \in 1 .. v - b : SubSeq(s, b + 1, v)[a] = s[a + b]
    BY <1>3, <2>1
  <2> QED
    BY <2>1, <2>2, <2>3
<1>8. l \in Node
  <2>1. l.nxt \in Nat
    BY <1>1, <1>5 DEF NoNode
  <2> QED
    BY <1>1, <1>4, <1>5, <1>6, <1>7, <2>1 DEF Node
<1>9. Ascending(l.keys)
  <2> SUFFICES ASSUME NEW c \in 1 .. M - 1 - b, NEW d \in 1 .. M - 1 - b, c < d
               PROVE  l.keys[c] < l.keys[d]
    BY <1>6 DEF Ascending
  <2>1. c + b \in 1 .. M - 1 /\ d + b \in 1 .. M - 1 /\ c + b < d + b
    BY <1>3
  <2> QED
    BY <1>1, <1>6, <2>1
<1>10. Shaped(l)
  BY <1>1, <1>3, <1>5, <1>6, <1>7, <1>8, <1>9, SMTT(20) DEF Shaped
<1>11. ASSUME n.leaf, n.vals = n.keys
       PROVE  l.vals = l.keys
  BY <1>1, <1>3, <1>5, <1>11
<1> QED
  BY <1>2, <1>5, <1>6, <1>7, <1>10, <1>11

\* An insertion between its neighbours keeps the order.
LEMMA AscendingInsert ==
    ASSUME NEW s \in Seq(Key), Ascending(s), NEW i \in 1 .. Len(s) + 1, NEW k \in Key,
           i > 1 => s[i - 1] < k, i <= Len(s) => k < s[i]
    PROVE  Ascending(InsertAt(s, i, k))
<1>1. PICK w : w = InsertAt(s, i, k)
  OBVIOUS
<1>2. /\ w \in Seq(Key) /\ Len(w) = Len(s) + 1 /\ w[i] = k
      /\ \A a \in 1 .. i - 1 : w[a] = s[a]
      /\ \A a \in i .. Len(s) : w[a + 1] = s[a]
  <2>1. /\ InsertAt(s, i, k) \in Seq(Key) /\ Len(InsertAt(s, i, k)) = Len(s) + 1
        /\ InsertAt(s, i, k)[i] = k
        /\ \A a \in 1 .. i - 1 : InsertAt(s, i, k)[a] = s[a]
        /\ \A a \in i .. Len(s) : InsertAt(s, i, k)[a + 1] = s[a]
    BY InsertAtIs
  <2> QED
    BY <1>1, <2>1
<1>3. /\ Len(s) \in Nat /\ \A a \in 1 .. Len(s) : s[a] \in Int
      /\ \A a, b \in 1 .. Len(s) : a < b => s[a] < s[b]
      /\ k \in Int
  BY KeysAre, ElementOfSeq, LenProperties DEF Ascending
<1>4. \A a \in 1 .. i - 1 : w[a] = s[a] /\ s[a] < k /\ s[a] \in Int
  <2> SUFFICES ASSUME NEW a \in 1 .. i - 1 PROVE s[a] < k
    BY <1>2, <1>3
  <2>1. i > 1 /\ i - 1 \in 1 .. Len(s) /\ (a = i - 1 \/ a < i - 1) /\ a \in 1 .. Len(s)
    BY <1>3
  <2> QED
    BY <1>3, <2>1
<1>5. \A a \in i + 1 .. Len(s) + 1 : w[a] = s[a - 1] /\ k < s[a - 1] /\ s[a - 1] \in Int
  <2> SUFFICES ASSUME NEW a \in i + 1 .. Len(s) + 1 PROVE w[a] = s[a - 1] /\ k < s[a - 1] /\ s[a - 1] \in Int
    OBVIOUS
  <2>1. a - 1 \in i .. Len(s) /\ i \in 1 .. Len(s) /\ i <= Len(s) /\ a - 1 \in 1 .. Len(s) /\ (i = a - 1 \/ i < a - 1)
        /\ (a - 1) + 1 = a
    BY <1>3
  <2>2. w[(a - 1) + 1] = s[a - 1]
    BY <1>2, <2>1
  <2> QED
    BY <1>3, <2>1, <2>2
<1>6. ASSUME NEW a \in 1 .. Len(s) + 1, NEW b \in 1 .. Len(s) + 1, a < b
      PROVE  w[a] < w[b]
  <2>1. CASE b <= i - 1
    BY <1>3, <1>4, <1>6, <2>1, SMTT(20)
  <2>2. CASE b = i
    BY <1>2, <1>3, <1>4, <1>6, <2>2
  <2>3. CASE b >= i + 1
    <3>1. w[b] = s[b - 1] /\ k < s[b - 1] /\ s[b - 1] \in Int
      BY <1>5, <2>3
    <3>2. CASE a <= i - 1
      BY <1>3, <1>4, <3>1, <3>2
    <3>3. CASE a = i
      BY <1>2, <3>1, <3>3
    <3>4. CASE a >= i + 1
      <4>1. w[a] = s[a - 1] /\ a - 1 \in 1 .. Len(s) /\ b - 1 \in 1 .. Len(s) /\ a - 1 < b - 1
        BY <1>3, <1>5, <1>6, <3>4
      <4> QED
        BY <1>3, <3>1, <4>1
    <3> QED
      BY <3>2, <3>3, <3>4
  <2> QED
    BY <2>1, <2>2, <2>3
<1>7. DOMAIN w = 1 .. Len(s) + 1
  BY <1>2, LenProperties
<1>8. Ascending(w)
  BY <1>6, <1>7 DEF Ascending
<1> QED
  BY <1>1, <1>8

\* The key k has its place at position i of node n.
Between(n, i, k) == (i > 1 => n.keys[i - 1] < k) /\ (i <= Len(n.keys) => k < n.keys[i])

\* A father with one child more.
LEMMA WithChildIs ==
    ASSUME NEW n, Shaped(n), ~n.leaf, Len(n.keys) < M - 1, NEW i \in 1 .. Len(n.vals), NEW k \in Key,
           Between(n, i, k), NEW new \in Nat, NEW w, w = WithChild(n, i, k, new)
    PROVE  /\ Shaped(w) /\ ~w.leaf
           /\ Inserted(n.keys, i, k, w.keys) /\ Inserted(n.vals, i + 1, new, w.vals)
<1>1. /\ n \in Node /\ n.keys \in Seq(Key) /\ n.vals \in Seq(Nat) /\ n.leaf \in BOOLEAN /\ n.nxt \in Nat
      /\ Len(n.keys) \in Nat /\ Len(n.vals) = Len(n.keys) + 1 /\ Ascending(n.keys)
  BY ShapedIs DEF Shaped
<1>2. w = [n EXCEPT !.keys = InsertAt(n.keys, i, k), !.vals = InsertAt(n.vals, i + 1, new)]
  BY DEF WithChild
<1>3. w.leaf = n.leaf /\ w.keys = InsertAt(n.keys, i, k) /\ w.vals = InsertAt(n.vals, i + 1, new) /\ w.nxt = n.nxt
  BY <1>1, <1>2 DEF Node
<1>4. w.keys \in Seq(Key) /\ Inserted(n.keys, i, k, w.keys)
  <2>1. n.keys \in Seq(Key) /\ i \in 1 .. Len(n.keys) + 1 /\ w.keys = InsertAt(n.keys, i, k)
    BY <1>1, <1>3
  <2> QED
    BY <2>1, InsertAtInserts
<1>5. w.vals \in Seq(Nat) /\ Inserted(n.vals, i + 1, new, w.vals)
  <2>1. n.vals \in Seq(Nat) /\ i + 1 \in 1 .. Len(n.vals) + 1 /\ w.vals = InsertAt(n.vals, i + 1, new)
    BY <1>1, <1>3
  <2> QED
    BY <2>1, InsertAtInserts
<1>6. Ascending(w.keys)
  <2>1. i \in 1 .. Len(n.keys) + 1
    BY <1>1
  <2>2. /\ i > 1 => n.keys[i - 1] < k
        /\ i <= Len(n.keys) => k < n.keys[i]
    BY DEF Between
  <2> QED
    BY <1>1, <1>3, <2>1, <2>2, AscendingInsert
<1>7. w \in Node
  BY <1>1, <1>2, <1>3, <1>4, <1>5 DEF Node
<1>8. Len(w.keys) = Len(n.keys) + 1 /\ Len(w.vals) = Len(n.vals) + 1
  BY <1>4, <1>5 DEF Inserted
<1>9. Shaped(w)
  BY <1>1, <1>3, <1>6, <1>7, <1>8, TreeAssumption DEF Shaped
<1> QED
  BY <1>3, <1>4, <1>5, <1>9

\* A leaf with one key more.
Gains(s, w, k) == Range(w) = Range(s) \cup {k}

LEMMA WithKeyIs ==
    ASSUME NEW n, Shaped(n), n.leaf, n.vals = n.keys, Len(n.keys) < M - 1,
           NEW k \in Key, k \notin Range(n.keys), NEW w, w = WithKey(n, Index(n, k) + 1, k)
    PROVE  /\ Shaped(w) /\ w.leaf /\ w.vals = w.keys /\ w.nxt = n.nxt
           /\ Gains(n.keys, w.keys, k) /\ w.keys # <<>>
<1>1. /\ n \in Node /\ n.keys \in Seq(Key) /\ n.vals \in Seq(Nat) /\ n.leaf \in BOOLEAN /\ n.nxt \in Nat
      /\ Len(n.keys) \in Nat /\ Ascending(n.keys) /\ DOMAIN n.keys = 1 .. Len(n.keys)
      /\ \A a \in 1 .. Len(n.keys) : n.keys[a] \in Int
  BY ShapedIs, KeysAre DEF Shaped
<1>2. PICK i : i = Index(n, k) + 1
  OBVIOUS
<1>3. /\ i \in 1 .. Len(n.keys) + 1
      /\ \A a \in 1 .. Len(n.keys) : a <= i - 1 <=> n.keys[a] <= k
      /\ k \in Int
  <2>1. k \in Int
    BY KeysAre
  <2>2. /\ Index(n, k) \in 0 .. Len(n.keys)
        /\ \A a \in 1 .. Len(n.keys) : a <= Index(n, k) <=> n.keys[a] <= k
    BY <2>1, IndexIs
  <2>3. PICK m : m = Index(n, k)
    OBVIOUS
  <2>4. m \in 0 .. Len(n.keys) /\ i = m + 1 /\ m = i - 1
    BY <1>1, <1>2, <2>2, <2>3
  <2>5. \A a \in 1 .. Len(n.keys) : a <= m <=> n.keys[a] <= k
    BY <2>2, <2>3
  <2> QED
    BY <1>1, <2>1, <2>4, <2>5
<1>4. w = [n EXCEPT !.keys = InsertAt(n.keys, i, k), !.vals = InsertAt(n.vals, i, k)]
  BY <1>2 DEF WithKey
<1>5. w.leaf = n.leaf /\ w.keys = InsertAt(n.keys, i, k) /\ w.vals = InsertAt(n.keys, i, k) /\ w.nxt = n.nxt
  BY <1>1, <1>4 DEF Node
<1>6. /\ w.keys \in Seq(Key) /\ Len(w.keys) = Len(n.keys) + 1 /\ w.keys[i] = k
      /\ \A a \in 1 .. i - 1 : w.keys[a] = n.keys[a]
      /\ \A a \in i .. Len(n.keys) : w.keys[a + 1] = n.keys[a]
  <2>1. n.keys \in Seq(Key) /\ w.keys = InsertAt(n.keys, i, k)
    BY <1>1, <1>5
  <2>2. w.keys \in Seq(Key) /\ Inserted(n.keys, i, k, w.keys)
    BY <1>3, <2>1, InsertAtInserts
  <2> QED
    BY <2>2 DEF Inserted
<1>7. i > 1 => n.keys[i - 1] < k
  <2> SUFFICES ASSUME i > 1 PROVE n.keys[i - 1] < k
    OBVIOUS
  <2>1. i - 1 \in 1 .. Len(n.keys) /\ i - 1 <= i - 1
    BY <1>1, <1>3
  <2>2. n.keys[i - 1] <= k /\ n.keys[i - 1] # k
    BY <1>1, <1>3, <2>1 DEF Range
  <2> QED
    BY <1>1, <1>3, <2>1, <2>2
<1>8. i <= Len(n.keys) => k < n.keys[i]
  <2> SUFFICES ASSUME i <= Len(n.keys) PROVE k < n.keys[i]
    OBVIOUS
  <2>1. i \in 1 .. Len(n.keys) /\ ~(i <= i - 1)
    BY <1>1, <1>3
  <2> QED
    BY <1>1, <1>3, <2>1
<1>9. Ascending(w.keys)
  BY <1>1, <1>3, <1>5, <1>7, <1>8, AscendingInsert
<1>10. w \in Node
  <2>1. w.vals \in Seq(Nat)
    <3>1. k \in Nat /\ Len(n.keys) = Len(n.vals)
      BY DEF Key
    <3> QED
      BY <1>1, <1>3, <1>5, <3>1, InsertAtIs
  <2> QED
    BY <1>1, <1>4, <1>5, <1>6, <2>1 DEF Node
<1>11. Shaped(w)
  <2>1. w.leaf /\ w.vals = w.keys
    BY <1>5
  <2>2. Len(w.keys) < M
    BY <1>1, <1>6, TreeAssumption
  <2>3. Len(w.vals) = Len(w.keys) + (IF w.leaf THEN 0 ELSE 1)
    BY <1>1, <1>6, <2>1
  <2> QED
    BY <1>9, <1>10, <2>2, <2>3 DEF Shaped
<1>12. DOMAIN w.keys = 1 .. Len(n.keys) + 1
  BY <1>6, LenProperties
<1>13. ASSUME NEW x \in Range(w.keys)
       PROVE  x \in Range(n.keys) \cup {k}
  <2>1. PICK a \in 1 .. Len(n.keys) + 1 : x = w.keys[a]
    BY <1>12, <1>13 DEF Range
  <2>2. CASE a \in 1 .. i - 1
    <3>1. a \in 1 .. Len(n.keys) /\ x = n.keys[a]
      BY <1>3, <1>6, <2>1, <2>2
    <3> QED
      BY <1>1, <3>1 DEF Range
  <2>3. CASE a = i
    BY <1>6, <2>1, <2>3
  <2>4. CASE a \in i + 1 .. Len(n.keys) + 1
    <3>1. a - 1 \in i .. Len(n.keys) /\ (a - 1) + 1 = a /\ a - 1 \in 1 .. Len(n.keys)
      BY <1>1, <1>3, <2>4
    <3>2. w.keys[(a - 1) + 1] = n.keys[a - 1]
      BY <1>6, <3>1
    <3> QED
      BY <1>1, <2>1, <3>1, <3>2 DEF Range
  <2> QED
    BY <1>3, <2>2, <2>3, <2>4
<1>14. k \in Range(w.keys)
  BY <1>3, <1>6, <1>12 DEF Range
<1>15. ASSUME NEW x \in Range(n.keys)
       PROVE  x \in Range(w.keys)
  <2>1. PICK a \in 1 .. Len(n.keys) : x = n.keys[a]
    BY <1>1, <1>15 DEF Range
  <2>2. CASE a <= i - 1
    <3>1. a \in 1 .. i - 1 /\ a \in DOMAIN w.keys
      BY <1>12, <2>2
    <3> QED
      BY <1>6, <2>1, <3>1 DEF Range
  <2>3. CASE ~(a <= i - 1)
    <3>1. a \in i .. Len(n.keys) /\ a + 1 \in DOMAIN w.keys
      BY <1>1, <1>3, <1>12, <2>3
    <3> QED
      BY <1>6, <2>1, <3>1 DEF Range
  <2> QED
    BY <2>2, <2>3
<1>16. w.keys # <<>>
  BY <1>1, <1>6, EmptySeq
<1>17. Gains(n.keys, w.keys, k)
  BY <1>13, <1>14, <1>15 DEF Gains
<1> QED
  BY <1>5, <1>11, <1>16, <1>17

-----------------------------------------------------------------------------
\* A split of the full child c, at position i of the father f: k, in the middle
\* of the child, goes up, and what follows it goes to the block new.
Splittable(nd, f, i, c, new, k) ==
    /\ f \in DOMAIN nd /\ ~nd[f].leaf /\ Len(nd[f].keys) < M - 1
    /\ i \in 1 .. Len(nd[f].vals) /\ c = nd[f].vals[i]
    /\ Full(nd[c]) /\ k = nd[c].keys[Middle + 1]
    /\ new \in NodeLba /\ new \notin DOMAIN nd

Splits(nd, f, i, c, new, k, nd2) ==
    /\ Splittable(nd, f, i, c, new, k)
    /\ DOMAIN nd2 = DOMAIN nd \cup {new}
    /\ nd2[f] = WithChild(nd[f], i, k, new) /\ nd2[c] = Left(nd[c], new) /\ nd2[new] = Right(nd[c])
    /\ \A x \in DOMAIN nd : x # f /\ x # c => nd2[x] = nd[x]

\* The child shares its keys with the new node.
Parts(nd, c, new, k, h, lo, hi, h2, lo2, hi2) ==
    /\ \A x \in DOMAIN nd : h2[x] = h[x] /\ lo2[x] = lo[x] /\ (x # c => hi2[x] = hi[x])
    /\ h2[new] = h[c] /\ lo2[new] = k /\ hi2[new] = hi[c] /\ hi2[c] = k

\* What is split, and where.
LEMMA SplitAt ==
    ASSUME NEW nd, NEW r, NEW h, NEW lo, NEW hi, TreeOf(nd, r, h, lo, hi),
           NEW f, NEW i, NEW c, NEW new, NEW k, NEW nd2, Splits(nd, f, i, c, new, k, nd2)
    PROVE  /\ f \in DOMAIN nd /\ ~nd[f].leaf /\ i \in 1 .. Len(nd[f].vals) /\ i \in Nat
           /\ c \in DOMAIN nd /\ h[c] + 1 = h[f] /\ c # f /\ c # r
           /\ lo[c] = From(nd[f], i, lo[f]) /\ hi[c] = To(nd[f], i, hi[f])
           /\ Shaped(nd[c]) /\ Full(nd[c]) /\ k \in Key /\ k \in Int
           /\ lo[c] < k /\ k < hi[c] /\ k # Top
           /\ new \in Nat /\ new \notin DOMAIN nd
<1>1. /\ f \in DOMAIN nd /\ ~nd[f].leaf /\ i \in 1 .. Len(nd[f].vals) /\ i \in Nat
      /\ c = nd[f].vals[i] /\ Full(nd[c]) /\ k = nd[c].keys[Middle + 1] /\ new \in Nat /\ new \notin DOMAIN nd
  BY DEF Splits, Splittable, NodeLba
<1>2. /\ c \in DOMAIN nd /\ h[c] + 1 = h[f]
      /\ lo[c] = From(nd[f], i, lo[f]) /\ hi[c] = To(nd[f], i, hi[f])
  BY <1>1, ChildIs
<1>3. h[c] \in Nat /\ h[f] \in Nat /\ h[r] \in Nat /\ h[f] <= h[r] /\ Shaped(nd[c])
  BY <1>1, <1>2, NodeIs
<1>4. c # f /\ c # r
  BY <1>2, <1>3
<1>5. PICK n, m : n = nd[c] /\ m = Middle + 1
  OBVIOUS
<1>6. /\ Len(n.keys) = M - 1 /\ m \in 1 .. M - 1 /\ 1 \in 1 .. M - 1 /\ 1 < m /\ DOMAIN n.keys = 1 .. M - 1
      /\ \A a \in 1 .. M - 1 : n.keys[a] \in Key /\ n.keys[a] \in Int
      /\ \A a, b \in 1 .. M - 1 : a < b => n.keys[a] < n.keys[b]
  <2>1. m \in 1 .. M - 1 /\ 1 \in 1 .. M - 1 /\ 1 < m
    BY <1>5, MiddleIs
  <2>2. Shaped(n) /\ Len(n.keys) = M - 1
    BY <1>1, <1>3, <1>5 DEF Full
  <2>3. /\ DOMAIN n.keys = 1 .. M - 1
        /\ \A a \in 1 .. M - 1 : n.keys[a] \in Key
        /\ \A a, b \in 1 .. M - 1 : a < b => n.keys[a] < n.keys[b]
    BY <2>2, ShapedIs
  <2>4. \A a \in 1 .. M - 1 : n.keys[a] \in Int
    BY <2>3, KeysAre
  <2> QED
    BY <2>1, <2>2, <2>3, <2>4
<1>7. k \in Key /\ k \in Int /\ k < Top /\ Top \in Int
  BY <1>1, <1>5, <1>6, KeysAre DEF Top
<1>8. lo[c] < k /\ k < hi[c]
  <2>1. CASE n.leaf
    <3>1. \A a \in 1 .. M - 1 : lo[c] <= n.keys[a] /\ n.keys[a] < hi[c]
      BY <1>2, <1>5, <1>6, <2>1, NodeIs DEF LeafFits
    <3>2. lo[c] <= n.keys[1] /\ n.keys[1] < n.keys[m] /\ n.keys[m] < hi[c] /\ n.keys[1] \in Int /\ n.keys[m] \in Int
      BY <1>6, <3>1
    <3>3. lo[c] \in Int
      BY <1>2, NodeIs
    <3> QED
      BY <1>1, <1>5, <3>2, <3>3
  <2>2. CASE ~n.leaf
    <3>1. \A a \in 1 .. M - 1 : lo[c] < n.keys[a] /\ n.keys[a] < hi[c]
      BY <1>2, <1>5, <1>6, <2>2, NodeIs DEF InnerFits
    <3> QED
      BY <1>1, <1>5, <1>6, <3>1
  <2> QED
    BY <2>1, <2>2
<1> QED
  BY <1>1, <1>2, <1>3, <1>4, <1>7, <1>8

\* The father after the split.
LEMMA SplitFather ==
    ASSUME NEW nd, NEW r, NEW h, NEW lo, NEW hi, TreeOf(nd, r, h, lo, hi),
           NEW f, NEW i, NEW c, NEW new, NEW k, NEW nd2, Splits(nd, f, i, c, new, k, nd2)
    PROVE  /\ Shaped(nd2[f]) /\ ~nd2[f].leaf
           /\ Len(nd2[f].keys) = Len(nd[f].keys) + 1 /\ nd2[f].keys[i] = k
           /\ \A a \in 1 .. i - 1 : nd2[f].keys[a] = nd[f].keys[a]
           /\ \A a \in i .. Len(nd[f].keys) : nd2[f].keys[a + 1] = nd[f].keys[a]
           /\ Len(nd2[f].vals) = Len(nd[f].vals) + 1 /\ nd2[f].vals[i + 1] = new
           /\ \A a \in 1 .. i : nd2[f].vals[a] = nd[f].vals[a]
           /\ \A a \in i + 1 .. Len(nd[f].vals) : nd2[f].vals[a + 1] = nd[f].vals[a]
<1>1. PICK n, w : n = nd[f] /\ w = nd2[f]
  OBVIOUS
<1>2. /\ f \in DOMAIN nd /\ ~n.leaf /\ i \in 1 .. Len(n.vals) /\ i \in Nat /\ Len(n.keys) < M - 1
      /\ c \in DOMAIN nd /\ lo[c] = From(n, i, lo[f]) /\ hi[c] = To(n, i, hi[f])
      /\ k \in Key /\ k \in Int /\ lo[c] < k /\ k < hi[c] /\ new \in Nat
      /\ w = WithChild(n, i, k, new)
  <2>1. /\ f \in DOMAIN nd /\ ~nd[f].leaf /\ i \in 1 .. Len(nd[f].vals) /\ i \in Nat
        /\ c \in DOMAIN nd /\ lo[c] = From(nd[f], i, lo[f]) /\ hi[c] = To(nd[f], i, hi[f])
        /\ k \in Key /\ k \in Int /\ lo[c] < k /\ k < hi[c] /\ new \in Nat
    BY SplitAt
  <2>2. Len(nd[f].keys) < M - 1 /\ nd2[f] = WithChild(nd[f], i, k, new)
    BY DEF Splits, Splittable
  <2> QED
    BY <1>1, <2>1, <2>2
<1>3. Shaped(n) /\ Len(n.vals) = Len(n.keys) + 1 /\ Len(n.keys) \in Nat
  BY <1>1, <1>2, NodeIs, ShapedIs
<1>4. i > 1 => n.keys[i - 1] < k
  BY <1>2 DEF From
<1>5. Between(n, i, k)
  <2>1. i <= Len(n.keys) => k < n.keys[i]
    BY <1>2, <1>3 DEF To
  <2> QED
    BY <1>4, <2>1 DEF Between
<1>6. /\ Shaped(w) /\ ~w.leaf /\ Len(w.keys) = Len(n.keys) + 1 /\ w.keys[i] = k
      /\ \A a \in 1 .. i - 1 : w.keys[a] = n.keys[a]
      /\ \A a \in i .. Len(n.keys) : w.keys[a + 1] = n.keys[a]
      /\ Len(w.vals) = Len(n.vals) + 1 /\ w.vals[i + 1] = new
      /\ \A a \in 1 .. i : w.vals[a] = n.vals[a]
      /\ \A a \in i + 1 .. Len(n.vals) : w.vals[a + 1] = n.vals[a]
  <2>1. Shaped(n) /\ ~n.leaf /\ Len(n.keys) < M - 1 /\ Between(n, i, k) /\ w = WithChild(n, i, k, new)
        /\ i \in 1 .. Len(n.vals) /\ k \in Key /\ new \in Nat
    BY <1>2, <1>3, <1>5
  <2>2. /\ Shaped(w) /\ ~w.leaf
        /\ Inserted(n.keys, i, k, w.keys) /\ Inserted(n.vals, i + 1, new, w.vals)
    BY <2>1, WithChildIs
  <2>3. (i + 1) - 1 = i
    BY <2>1
  <2> QED
    BY <2>2, <2>3 DEF Inserted
<1> QED
  BY <1>1, <1>6

\* Its other children keep their shares.
LEMMA OtherChild ==
    ASSUME NEW nd, NEW r, NEW h, NEW lo, NEW hi, TreeOf(nd, r, h, lo, hi),
           NEW f, NEW i, NEW c, NEW new, NEW k, NEW nd2, Splits(nd, f, i, c, new, k, nd2),
           NEW h2, NEW lo2, NEW hi2, Parts(nd, c, new, k, h, lo, hi, h2, lo2, hi2),
           NEW x \in DOMAIN nd, ~nd[x].leaf, NEW a \in 1 .. Len(nd[x].vals), x # f \/ a # i,
           NEW y, y = nd[x].vals[a]
    PROVE  /\ y \in DOMAIN nd2 /\ h2[y] + 1 = h[x] /\ y # c
           /\ lo2[y] = From(nd[x], a, lo[x]) /\ hi2[y] = To(nd[x], a, hi[x])
<1>1. /\ y \in DOMAIN nd /\ h[y] + 1 = h[x]
      /\ lo[y] = From(nd[x], a, lo[x]) /\ hi[y] = To(nd[x], a, hi[x])
  BY ChildIs
<1>2. f \in DOMAIN nd /\ ~nd[f].leaf /\ i \in 1 .. Len(nd[f].vals) /\ c = nd[f].vals[i]
  BY DEF Splits, Splittable
<1>3. y # c
  BY <1>2, OneFather
<1>4. h2[y] = h[y] /\ lo2[y] = lo[y] /\ hi2[y] = hi[y]
  BY <1>1, <1>3 DEF Parts
<1>5. y \in DOMAIN nd2
  BY <1>1 DEF Splits, Splittable
<1> QED
  BY <1>1, <1>3, <1>4, <1>5

LEMMA FatherFits ==
    ASSUME NEW nd, NEW r, NEW h, NEW lo, NEW hi, TreeOf(nd, r, h, lo, hi),
           NEW f, NEW i, NEW c, NEW new, NEW k, NEW nd2, Splits(nd, f, i, c, new, k, nd2),
           NEW h2, NEW lo2, NEW hi2, Parts(nd, c, new, k, h, lo, hi, h2, lo2, hi2)
    PROVE  InnerFits(nd2, h2, lo2, hi2, f)
<1>1. PICK n, w, low, high : n = nd[f] /\ w = nd2[f] /\ low = lo[f] /\ high = hi[f]
  OBVIOUS
<1>2. /\ f \in DOMAIN nd /\ ~n.leaf /\ i \in 1 .. Len(n.vals) /\ i \in Nat
      /\ c \in DOMAIN nd /\ c # f /\ h[c] + 1 = h[f]
      /\ lo[c] = From(n, i, low) /\ hi[c] = To(n, i, high)
      /\ k \in Int /\ lo[c] < k /\ k < hi[c] /\ c = n.vals[i]
  <2>1. /\ f \in DOMAIN nd /\ ~nd[f].leaf /\ i \in 1 .. Len(nd[f].vals) /\ i \in Nat
        /\ c \in DOMAIN nd /\ c # f /\ h[c] + 1 = h[f]
        /\ lo[c] = From(nd[f], i, lo[f]) /\ hi[c] = To(nd[f], i, hi[f])
        /\ k \in Int /\ lo[c] < k /\ k < hi[c]
    BY SplitAt
  <2>2. c = nd[f].vals[i]
    BY DEF Splits, Splittable
  <2> QED
    BY <1>1, <2>1, <2>2
<1>3. /\ Len(n.vals) = Len(n.keys) + 1 /\ Len(n.keys) \in Nat
      /\ \A a \in 1 .. Len(n.keys) : n.keys[a] \in Int /\ low < n.keys[a] /\ n.keys[a] < high
      /\ low \in Int /\ high \in Int
  <2>1. Shaped(n) /\ low \in Int /\ high \in Int /\ InnerFits(nd, h, lo, hi, f)
    BY <1>1, <1>2, NodeIs
  <2>2. /\ Len(n.vals) = Len(n.keys) + 1 /\ Len(n.keys) \in Nat /\ DOMAIN n.keys = 1 .. Len(n.keys)
        /\ \A a \in 1 .. Len(n.keys) : n.keys[a] \in Int
    BY <1>2, <2>1, ShapedIs, KeysAre
  <2>3. \A a \in 1 .. Len(n.keys) : low < n.keys[a] /\ n.keys[a] < high
    BY <1>1, <2>1, <2>2 DEF InnerFits
  <2> QED
    BY <2>1, <2>2, <2>3
<1>4. /\ DOMAIN w.keys = 1 .. Len(n.keys) + 1 /\ w.keys[i] = k
      /\ \A a \in 1 .. i - 1 : w.keys[a] = n.keys[a]
      /\ \A a \in i .. Len(n.keys) : w.keys[a + 1] = n.keys[a]
      /\ DOMAIN w.vals = 1 .. Len(n.vals) + 1 /\ Len(w.vals) = Len(n.vals) + 1 /\ w.vals[i + 1] = new
      /\ \A a \in 1 .. i : w.vals[a] = n.vals[a]
      /\ \A a \in i + 1 .. Len(n.vals) : w.vals[a + 1] = n.vals[a]
  <2>1. Shaped(w) /\ Len(w.keys) = Len(n.keys) + 1 /\ Len(w.vals) = Len(n.vals) + 1
    BY <1>1, SplitFather
  <2>2. DOMAIN w.keys = 1 .. Len(n.keys) + 1 /\ DOMAIN w.vals = 1 .. Len(n.vals) + 1
    BY <2>1, ShapedIs
  <2> QED
    BY <1>1, <2>1, <2>2, SplitFather
<1>5. h2[f] = h[f] /\ lo2[f] = low /\ hi2[f] = high
  BY <1>1, <1>2 DEF Parts
<1>6. \A a \in i + 1 .. Len(n.keys) + 1 : w.keys[a] = n.keys[a - 1]
  <2> SUFFICES ASSUME NEW a \in i + 1 .. Len(n.keys) + 1 PROVE w.keys[a] = n.keys[a - 1]
    OBVIOUS
  <2>1. a - 1 \in i .. Len(n.keys) /\ (a - 1) + 1 = a
    BY <1>2, <1>3
  <2>2. w.keys[(a - 1) + 1] = n.keys[a - 1]
    BY <1>4, <2>1
  <2> QED
    BY <2>1, <2>2
<1>7. low < k /\ k < high
  <2>1. low <= lo[c] /\ hi[c] <= high
    BY <1>1, <1>2, ChildIs
  <2>2. lo[c] \in Int /\ hi[c] \in Int
    BY <1>2, NodeIs
  <2> QED
    BY <1>2, <1>3, <2>1, <2>2
<1>8. ASSUME NEW a \in DOMAIN w.keys
      PROVE  low < w.keys[a] /\ w.keys[a] < high
  <2>1. a \in 1 .. Len(n.keys) + 1
    BY <1>4
  <2>2. CASE a \in 1 .. i - 1
    <3>1. a \in 1 .. Len(n.keys)
      BY <1>2, <1>3, <2>2
    <3>2. w.keys[a] = n.keys[a]
      BY <1>4, <2>2
    <3> QED
      BY <1>3, <3>1, <3>2
  <2>3. CASE a = i
    BY <1>4, <1>7, <2>3
  <2>4. CASE a \in i + 1 .. Len(n.keys) + 1
    <3>1. a - 1 \in 1 .. Len(n.keys)
      BY <1>2, <1>3, <2>4
    <3> QED
      BY <1>3, <1>6, <2>4, <3>1
  <2> QED
    BY <1>2, <1>3, <2>1, <2>2, <2>3, <2>4
<1>9. ASSUME NEW a \in DOMAIN w.vals, NEW y, y = w.vals[a]
      PROVE  y \in DOMAIN nd2 /\ h2[y] + 1 = h[f] /\ lo2[y] = From(w, a, low) /\ hi2[y] = To(w, a, high)
  <2>1. a \in 1 .. Len(n.vals) + 1
    BY <1>4
  <2>2. CASE a \in 1 .. i - 1
    <3>1. a \in 1 .. Len(n.vals) /\ a # i /\ y = n.vals[a]
      <4>1. a \in 1 .. Len(n.vals) /\ a # i /\ a \in 1 .. i
        BY <1>2, <1>3, <2>2
      <4> QED
        BY <1>4, <1>9, <4>1
    <3>2. y \in DOMAIN nd2 /\ h2[y] + 1 = h[f] /\ lo2[y] = From(n, a, low) /\ hi2[y] = To(n, a, high)
      BY <1>1, <1>2, <3>1, OtherChild
    <3>3. From(w, a, low) = From(n, a, low)
      <4>1. a # 1 => a - 1 \in 1 .. i - 1
        BY <1>2, <2>2
      <4> QED
        BY <1>4, <4>1 DEF From
    <3>4. To(w, a, high) = To(n, a, high)
      BY <1>2, <1>3, <1>4, <2>2, SMTT(20) DEF To
    <3> QED
      BY <3>2, <3>3, <3>4
  <2>3. CASE a = i
    <3>1. y = c /\ c \in DOMAIN nd2
      BY <1>2, <1>4, <1>9, <2>3 DEF Splits, Splittable
    <3>2. h2[c] = h[c] /\ lo2[c] = lo[c] /\ hi2[c] = k
      BY <1>2 DEF Parts
    <3>3. From(w, a, low) = From(n, a, low)
      <4>1. a # 1 => a - 1 \in 1 .. i - 1
        BY <1>2, <2>3
      <4> QED
        BY <1>4, <4>1 DEF From
    <3>4. To(w, a, high) = k
      BY <1>2, <1>3, <1>4, <2>3 DEF To
    <3> QED
      BY <1>2, <2>3, <3>1, <3>2, <3>3, <3>4
  <2>4. CASE a = i + 1
    <3>1. y = new /\ new \in DOMAIN nd2
      BY <1>4, <1>9, <2>4 DEF Splits, Splittable
    <3>2. h2[new] = h[c] /\ lo2[new] = k /\ hi2[new] = hi[c]
      BY DEF Parts
    <3>3. From(w, a, low) = k
      <4>1. a # 1 /\ a - 1 = i
        BY <1>2, <2>4
      <4> QED
        BY <1>4, <4>1 DEF From
    <3>4. To(w, a, high) = To(n, i, high)
      <4>1. CASE i = Len(n.vals)
        BY <1>4, <2>4, <4>1 DEF To
      <4>2. CASE i # Len(n.vals)
        <5>1. i \in i .. Len(n.keys) /\ a # Len(w.vals)
          BY <1>2, <1>3, <1>4, <2>4, <4>2
        <5> QED
          BY <1>4, <2>4, <4>2, <5>1 DEF To
      <4> QED
        BY <4>1, <4>2
    <3> QED
      BY <1>2, <3>1, <3>2, <3>3, <3>4
  <2>5. CASE a \in i + 2 .. Len(n.vals) + 1
    <3>1. PICK b : b = a - 1
      OBVIOUS
    <3>2. b \in 1 .. Len(n.vals) /\ b \in i + 1 .. Len(n.vals) /\ b # i /\ b # 1 /\ a # 1 /\ a = b + 1
      BY <1>2, <1>3, <2>5, <3>1, SMTT(20)
    <3>3. y = n.vals[b]
      BY <1>4, <1>9, <3>2
    <3>4. y \in DOMAIN nd2 /\ h2[y] + 1 = h[f] /\ lo2[y] = From(n, b, low) /\ hi2[y] = To(n, b, high)
      BY <1>1, <1>2, <3>2, <3>3, OtherChild
    <3>5. From(w, a, low) = From(n, b, low)
      <4>1. a - 1 \in i + 1 .. Len(n.keys) + 1 /\ (a - 1) - 1 = b - 1
        BY <1>2, <1>3, <2>5, <3>1, SMTT(20)
      <4>2. w.keys[a - 1] = n.keys[(a - 1) - 1]
        BY <1>6, <4>1
      <4> QED
        BY <3>2, <4>1, <4>2 DEF From
    <3>6. To(w, a, high) = To(n, b, high)
      <4>1. CASE b = Len(n.vals)
        BY <1>4, <3>2, <4>1 DEF To
      <4>2. CASE b # Len(n.vals)
        <5>1. b \in i .. Len(n.keys) /\ a # Len(w.vals)
          BY <1>2, <1>3, <1>4, <3>2, <4>2, SMTT(20)
        <5> QED
          BY <1>4, <3>2, <4>2, <5>1 DEF To
      <4> QED
        BY <4>1, <4>2
    <3> QED
      BY <3>4, <3>5, <3>6
  <2> QED
    BY <1>2, <1>3, <2>1, <2>2, <2>3, <2>4, <2>5
<1>10. \A a \in DOMAIN w.keys : low < w.keys[a] /\ w.keys[a] < high
  BY <1>8
<1> QED
  BY <1>1, <1>5, <1>9, <1>10 DEF InnerFits

\* The child after the split.
LEMMA LeftFits ==
    ASSUME NEW nd, NEW r, NEW h, NEW lo, NEW hi, TreeOf(nd, r, h, lo, hi),
           NEW f, NEW i, NEW c, NEW new, NEW k, NEW nd2, Splits(nd, f, i, c, new, k, nd2),
           NEW h2, NEW lo2, NEW hi2, Parts(nd, c, new, k, h, lo, hi, h2, lo2, hi2)
    PROVE  /\ Shaped(nd2[c]) /\ nd2[c].leaf = nd[c].leaf
           /\ Len(nd2[c].keys) = Middle
           /\ nd2[c].leaf => LeafFits(nd2, h2, lo2, hi2, c)
           /\ ~nd2[c].leaf => InnerFits(nd2, h2, lo2, hi2, c)
<1>1. PICK n, l, low, high : n = nd[c] /\ l = nd2[c] /\ low = lo[c] /\ high = hi[c]
  OBVIOUS
<1>2. /\ c \in DOMAIN nd /\ c # f /\ Shaped(n) /\ Full(n) /\ k \in Int /\ low < k /\ k < high /\ k # Top
      /\ new \in Nat /\ new \notin DOMAIN nd
  BY <1>1, SplitAt
<1>3. l = Left(n, new) /\ k = n.keys[Middle + 1] /\ new \in DOMAIN nd2
  BY <1>1 DEF Splits, Splittable
<1>4. /\ Shaped(l) /\ l.leaf = n.leaf /\ Len(l.keys) = Middle
      /\ \A a \in 1 .. Middle : l.keys[a] = n.keys[a]
      /\ Len(l.vals) = Before(n)
      /\ \A a \in 1 .. Before(n) : l.vals[a] = n.vals[a]
      /\ l.nxt = IF n.leaf THEN new ELSE n.nxt
      /\ n.leaf /\ n.vals = n.keys => l.vals = l.keys
  BY <1>2, <1>3, LeftIs
<1>5. h2[c] = h[c] /\ lo2[c] = low /\ hi2[c] = k /\ h2[new] = h[c] /\ lo2[new] = k
  BY <1>1, <1>2 DEF Parts
<1>6. PICK m : m = Middle
  OBVIOUS
<1>7. M \in Nat /\ m \in Nat /\ 1 <= m /\ m + 2 <= M - 1
  BY <1>6, MiddleIs
<1>8. /\ Len(n.keys) = M - 1 /\ DOMAIN n.keys = 1 .. M - 1
      /\ \A a \in 1 .. M - 1 : n.keys[a] \in Int
      /\ \A a, b \in 1 .. M - 1 : a < b => n.keys[a] < n.keys[b]
      /\ Len(n.vals) = M - 1 + (IF n.leaf THEN 0 ELSE 1)
      /\ DOMAIN l.keys = 1 .. m /\ DOMAIN l.vals = 1 .. Len(l.vals)
  <2>1. Len(n.keys) = M - 1
    BY <1>2 DEF Full
  <2>2. DOMAIN l.keys = 1 .. m /\ DOMAIN l.vals = 1 .. Len(l.vals)
    BY <1>4, <1>6, ShapedIs
  <2>3. /\ DOMAIN n.keys = 1 .. M - 1
        /\ \A a \in 1 .. M - 1 : n.keys[a] \in Key
        /\ \A a, b \in 1 .. M - 1 : a < b => n.keys[a] < n.keys[b]
        /\ Len(n.vals) = M - 1 + (IF n.leaf THEN 0 ELSE 1)
    BY <1>2, <2>1, ShapedIs
  <2>4. \A a \in 1 .. M - 1 : n.keys[a] \in Int
    BY <2>3, KeysAre
  <2> QED
    BY <2>1, <2>2, <2>3, <2>4
<1>9. \A a \in DOMAIN l.keys : l.keys[a] = n.keys[a] /\ l.keys[a] < k /\ a \in DOMAIN n.keys
  <2> SUFFICES ASSUME NEW a \in 1 .. m PROVE l.keys[a] = n.keys[a] /\ l.keys[a] < k /\ a \in DOMAIN n.keys
    BY <1>8
  <2>1. a \in 1 .. M - 1 /\ m + 1 \in 1 .. M - 1 /\ a < m + 1
    BY <1>7
  <2> QED
    BY <1>3, <1>4, <1>6, <1>8, <2>1
<1>10. ASSUME l.leaf
       PROVE  LeafFits(nd2, h2, lo2, hi2, c)
  <2>1. LeafFits(nd, h, lo, hi, c) /\ h[c] = 0
    <3>1. nd[c].leaf
      BY <1>1, <1>4, <1>10
    <3> QED
      BY <1>2, <3>1, NodeIs
  <2>2. l.vals = l.keys
    BY <1>1, <1>4, <1>10, <2>1 DEF LeafFits
  <2>3. \A a \in DOMAIN l.keys : low <= l.keys[a] /\ l.keys[a] < k
    BY <1>1, <1>9, <2>1 DEF LeafFits
  <2>4. l.nxt = new
    BY <1>4, <1>10
  <2> QED
    BY <1>1, <1>2, <1>3, <1>5, <2>1, <2>2, <2>3, <2>4 DEF LeafFits
<1>11. ASSUME ~l.leaf
       PROVE  InnerFits(nd2, h2, lo2, hi2, c)
  <2>1. InnerFits(nd, h, lo, hi, c)
    BY <1>1, <1>2, <1>4, <1>11, NodeIs
  <2>2. \A a \in DOMAIN l.keys : low < l.keys[a] /\ l.keys[a] < k
    BY <1>1, <1>9, <2>1 DEF InnerFits
  <2>3. ASSUME NEW a \in DOMAIN l.vals, NEW y, y = l.vals[a]
        PROVE  y \in DOMAIN nd2 /\ h2[y] + 1 = h[c] /\ lo2[y] = From(l, a, low) /\ hi2[y] = To(l, a, k)
    <3>1. Len(l.vals) = m + 1 /\ Before(n) = m + 1 /\ Len(n.vals) = M
      BY <1>4, <1>6, <1>7, <1>8, <1>11 DEF Before
    <3>2. a \in 1 .. m + 1 /\ a \in 1 .. Len(n.vals) /\ a # Len(n.vals)
      BY <1>7, <1>8, <2>3, <3>1
    <3>3. y = n.vals[a]
      BY <1>4, <2>3, <3>1, <3>2
    <3>4. y \in DOMAIN nd2 /\ h2[y] + 1 = h[c] /\ lo2[y] = From(n, a, low) /\ hi2[y] = To(n, a, high)
      BY <1>1, <1>2, <1>4, <1>11, <3>2, <3>3, OtherChild
    <3>5. From(l, a, low) = From(n, a, low)
      <4>1. a # 1 => a - 1 \in 1 .. m
        BY <1>7, <3>2
      <4> QED
        BY <1>4, <1>6, <4>1 DEF From
    <3>6. To(l, a, k) = To(n, a, high)
      <4>1. CASE a = m + 1
        BY <1>3, <1>6, <3>1, <3>2, <4>1 DEF To
      <4>2. CASE a # m + 1
        <5>1. a \in 1 .. m
          BY <1>7, <3>2, <4>2
        <5> QED
          BY <1>4, <1>6, <3>1, <3>2, <4>2, <5>1 DEF To
      <4> QED
        BY <4>1, <4>2
    <3> QED
      BY <3>4, <3>5, <3>6
  <2> QED
    BY <1>1, <1>5, <2>2, <2>3 DEF InnerFits
<1> QED
  BY <1>1, <1>4, <1>10, <1>11

\* The new node.
LEMMA RightFits ==
    ASSUME NEW nd, NEW r, NEW h, NEW lo, NEW hi, TreeOf(nd, r, h, lo, hi),
           NEW f, NEW i, NEW c, NEW new, NEW k, NEW nd2, Splits(nd, f, i, c, new, k, nd2),
           NEW h2, NEW lo2, NEW hi2, Parts(nd, c, new, k, h, lo, hi, h2, lo2, hi2)
    PROVE  /\ Shaped(nd2[new]) /\ nd2[new].leaf = nd[c].leaf
           /\ 1 <= Len(nd2[new].keys) /\ Len(nd2[new].keys) < M - 1
           /\ nd2[new].leaf => LeafFits(nd2, h2, lo2, hi2, new)
           /\ ~nd2[new].leaf => InnerFits(nd2, h2, lo2, hi2, new)
<1>1. PICK n, l, low, high : n = nd[c] /\ l = nd2[new] /\ low = lo[c] /\ high = hi[c]
  OBVIOUS
<1>2. /\ c \in DOMAIN nd /\ c # f /\ Shaped(n) /\ Full(n) /\ k \in Int /\ low < k /\ k < high
      /\ new \notin DOMAIN nd
  BY <1>1, SplitAt
<1>3. l = Right(n) /\ k = n.keys[Middle + 1]
  BY <1>1 DEF Splits, Splittable
<1>4. PICK m, b, v : m = Middle + 1 /\ b = Before(n) /\ v = Len(n.vals)
  OBVIOUS
<1>5. /\ M \in Nat /\ m \in Nat /\ 2 <= m /\ m + 1 <= M - 1
      /\ b \in Nat /\ b <= M - 2 /\ b = m - 1 + (IF n.leaf THEN 0 ELSE 1)
  <2>1. Middle \in Nat /\ m = Middle + 1
    BY <1>4, MiddleIs
  <2>2. M \in Nat /\ 2 <= m /\ m + 1 <= M - 1
    BY <2>1, MiddleIs
  <2>3. b \in Nat /\ b <= M - 2 /\ b = Middle + (IF n.leaf THEN 0 ELSE 1)
    BY <1>2, <1>4, BeforeIs
  <2> QED
    BY <2>1, <2>2, <2>3
<1>6. /\ Shaped(l) /\ l.leaf = n.leaf /\ Len(l.keys) = M - 1 - b
      /\ \A a \in 1 .. M - 1 - b : l.keys[a] = n.keys[a + b]
      /\ Len(l.vals) = v - b
      /\ \A a \in 1 .. v - b : l.vals[a] = n.vals[a + b]
      /\ n.leaf => l.nxt = n.nxt
      /\ n.leaf /\ n.vals = n.keys => l.vals = l.keys
  BY <1>2, <1>3, <1>4, RightIs
<1>7. h2[new] = h[c] /\ lo2[new] = k /\ hi2[new] = high
  BY <1>1, <1>2 DEF Parts
<1>8. /\ Len(n.keys) = M - 1 /\ DOMAIN n.keys = 1 .. M - 1
      /\ \A a \in 1 .. M - 1 : n.keys[a] \in Int
      /\ \A a, d \in 1 .. M - 1 : a < d => n.keys[a] < n.keys[d]
      /\ v = M - 1 + (IF n.leaf THEN 0 ELSE 1)
      /\ DOMAIN l.keys = 1 .. M - 1 - b /\ DOMAIN l.vals = 1 .. v - b
  <2>1. Len(n.keys) = M - 1
    BY <1>2 DEF Full
  <2>2. DOMAIN l.keys = 1 .. M - 1 - b /\ DOMAIN l.vals = 1 .. v - b
    BY <1>6, ShapedIs
  <2>3. /\ DOMAIN n.keys = 1 .. M - 1
        /\ \A a \in 1 .. M - 1 : n.keys[a] \in Key
        /\ \A a, d \in 1 .. M - 1 : a < d => n.keys[a] < n.keys[d]
        /\ Len(n.vals) = M - 1 + (IF n.leaf THEN 0 ELSE 1)
    BY <1>2, <2>1, ShapedIs
  <2>4. \A a \in 1 .. M - 1 : n.keys[a] \in Int
    BY <2>3, KeysAre
  <2> QED
    BY <1>4, <2>1, <2>2, <2>3, <2>4
<1>9. \A a \in DOMAIN l.keys : a + b \in DOMAIN n.keys /\ l.keys[a] = n.keys[a + b] /\ (m < a + b => k < l.keys[a])
  <2> SUFFICES ASSUME NEW a \in 1 .. M - 1 - b
               PROVE  a + b \in DOMAIN n.keys /\ l.keys[a] = n.keys[a + b] /\ (m < a + b => k < l.keys[a])
    BY <1>8
  <2>1. a + b \in 1 .. M - 1 /\ m \in 1 .. M - 1
    BY <1>5
  <2> QED
    BY <1>3, <1>4, <1>6, <1>8, <2>1
<1>10. 1 <= Len(l.keys) /\ Len(l.keys) < M - 1
  BY <1>5, <1>6
<1>11. ASSUME l.leaf
       PROVE  LeafFits(nd2, h2, lo2, hi2, new)
  <2>1. LeafFits(nd, h, lo, hi, c) /\ h[c] = 0
    <3>1. nd[c].leaf
      BY <1>1, <1>6, <1>11
    <3> QED
      BY <1>2, <3>1, NodeIs
  <2>2. l.vals = l.keys
    BY <1>1, <1>6, <1>11, <2>1 DEF LeafFits
  <2>3. \A a \in DOMAIN l.keys : k <= l.keys[a] /\ l.keys[a] < high
    <3> SUFFICES ASSUME NEW a \in DOMAIN l.keys PROVE k <= l.keys[a] /\ l.keys[a] < high
      OBVIOUS
    <3>1. l.keys[a] < high
      BY <1>1, <1>9, <2>1 DEF LeafFits
    <3>2. m = a + b \/ m < a + b
      BY <1>5, <1>6, <1>8, <1>11, SMTT(20)
    <3>3. l.keys[a] = n.keys[a + b] /\ (m < a + b => k < l.keys[a]) /\ l.keys[a] \in Int
      BY <1>8, <1>9
    <3>4. k <= l.keys[a]
      BY <1>2, <1>3, <1>4, <3>2, <3>3
    <3> QED
      BY <3>1, <3>4
  <2>4. l.nxt = n.nxt
    BY <1>6, <1>11
  <2>5. IF high = Top THEN l.nxt = NoNode
        ELSE l.nxt \in DOMAIN nd2 /\ h2[l.nxt] = 0 /\ lo2[l.nxt] = high
    <3>1. CASE high = Top
      BY <1>1, <2>1, <2>4, <3>1 DEF LeafFits
    <3>2. CASE high # Top
      <4>1. n.nxt \in DOMAIN nd /\ h[n.nxt] = 0 /\ lo[n.nxt] = high
        BY <1>1, <2>1, <3>2 DEF LeafFits
      <4>2. n.nxt \in DOMAIN nd2 /\ h2[n.nxt] = 0 /\ lo2[n.nxt] = high
        BY <4>1 DEF Splits, Parts
      <4> QED
        BY <2>4, <3>2, <4>2
    <3> QED
      BY <3>1, <3>2
  <2> QED
    BY <1>1, <1>7, <2>2, <2>3, <2>5 DEF LeafFits
<1>12. ASSUME ~l.leaf
       PROVE  InnerFits(nd2, h2, lo2, hi2, new)
  <2>1. InnerFits(nd, h, lo, hi, c)
    BY <1>1, <1>2, <1>6, <1>12, NodeIs
  <2>2. ~n.leaf /\ b = m /\ v = M
    BY <1>5, <1>6, <1>8, <1>12
  <2>3. \A a \in DOMAIN l.keys : k < l.keys[a] /\ l.keys[a] < high
    <3> SUFFICES ASSUME NEW a \in DOMAIN l.keys PROVE k < l.keys[a] /\ l.keys[a] < high
      OBVIOUS
    <3>1. l.keys[a] < high
      BY <1>1, <1>9, <2>1 DEF InnerFits
    <3>2. m < a + b
      BY <1>5, <1>8, <2>2
    <3> QED
      BY <1>9, <3>1, <3>2
  <2>4. ASSUME NEW a \in DOMAIN l.vals, NEW y, y = l.vals[a]
        PROVE  y \in DOMAIN nd2 /\ h2[y] + 1 = h[c] /\ lo2[y] = From(l, a, k) /\ hi2[y] = To(l, a, high)
    <3>1. PICK d : d = a + b
      OBVIOUS
    <3>2. a \in 1 .. v - b /\ d \in 1 .. v /\ d - b = a /\ d # 1
      BY <1>5, <1>8, <2>2, <2>4, <3>1
    <3>3. y = n.vals[d]
      BY <1>6, <2>4, <3>1, <3>2
    <3>4. y \in DOMAIN nd2 /\ h2[y] + 1 = h[c] /\ lo2[y] = From(n, d, low) /\ hi2[y] = To(n, d, high)
      <4>1. d \in 1 .. Len(nd[c].vals) /\ y = nd[c].vals[d] /\ ~nd[c].leaf
        BY <1>1, <1>4, <2>2, <3>2, <3>3
      <4>2. y \in DOMAIN nd2 /\ h2[y] + 1 = h[c] /\ lo2[y] = From(nd[c], d, lo[c]) /\ hi2[y] = To(nd[c], d, hi[c])
        BY <1>2, <4>1, OtherChild
      <4> QED
        BY <1>1, <4>2
    <3>5. From(l, a, k) = From(n, d, low)
      <4>1. CASE a = 1
        <5>1. d - 1 = m
          BY <1>5, <2>2, <3>1, <4>1
        <5> QED
          BY <1>3, <1>4, <3>2, <4>1, <5>1 DEF From
      <4>2. CASE a # 1
        <5>1. a - 1 \in DOMAIN l.keys /\ (a - 1) + b = d - 1
          BY <1>5, <1>8, <2>2, <3>1, <3>2, <4>2
        <5>2. l.keys[a - 1] = n.keys[d - 1]
          BY <1>9, <5>1
        <5> QED
          BY <3>2, <4>2, <5>2 DEF From
      <4> QED
        BY <4>1, <4>2
    <3>6. To(l, a, high) = To(n, d, high)
      <4>1. CASE d = v
        <5>1. a = Len(l.vals) /\ d = Len(n.vals)
          BY <1>4, <1>5, <1>6, <2>2, <3>1, <3>2, <4>1
        <5> QED
          BY <5>1 DEF To
      <4>2. CASE d # v
        <5>1. a # Len(l.vals) /\ d # Len(n.vals) /\ a \in DOMAIN l.keys
          <6>1. a \in 1 .. M - b /\ a # M - b /\ v = M /\ M \in Nat /\ b \in Nat
            BY <1>5, <2>2, <3>1, <3>2, <4>2
          <6>2. a \in 1 .. M - 1 - b
            BY <6>1
          <6> QED
            BY <1>4, <1>6, <1>8, <4>2, <6>1, <6>2
        <5>2. l.keys[a] = n.keys[d]
          BY <1>9, <3>1, <5>1
        <5> QED
          BY <5>1, <5>2 DEF To
      <4> QED
        BY <4>1, <4>2
    <3> QED
      BY <3>4, <3>5, <3>6
  <2> QED
    BY <1>1, <1>7, <2>3, <2>4 DEF InnerFits
<1> QED
  BY <1>1, <1>6, <1>10, <1>11, <1>12

\* The nodes the split has not touched.
LEMMA OtherFits ==
    ASSUME NEW nd, NEW r, NEW h, NEW lo, NEW hi, TreeOf(nd, r, h, lo, hi),
           NEW f, NEW i, NEW c, NEW new, NEW k, NEW nd2, Splits(nd, f, i, c, new, k, nd2),
           NEW h2, NEW lo2, NEW hi2, Parts(nd, c, new, k, h, lo, hi, h2, lo2, hi2),
           NEW x \in DOMAIN nd, x # f, x # c
    PROVE  /\ nd2[x] = nd[x]
           /\ nd2[x].leaf => LeafFits(nd2, h2, lo2, hi2, x)
           /\ ~nd2[x].leaf => InnerFits(nd2, h2, lo2, hi2, x)
<1>1. nd2[x] = nd[x] /\ h2[x] = h[x] /\ lo2[x] = lo[x] /\ hi2[x] = hi[x]
  BY DEF Splits, Parts
<1>2. ASSUME nd[x].leaf
      PROVE  LeafFits(nd2, h2, lo2, hi2, x)
  <2>1. LeafFits(nd, h, lo, hi, x)
    BY <1>2, NodeIs
  <2>2. ASSUME hi[x] # Top
        PROVE  nd[x].nxt \in DOMAIN nd2 /\ h2[nd[x].nxt] = 0 /\ lo2[nd[x].nxt] = hi[x]
    <3>1. nd[x].nxt \in DOMAIN nd /\ h[nd[x].nxt] = 0 /\ lo[nd[x].nxt] = hi[x]
      BY <2>1, <2>2 DEF LeafFits
    <3> QED
      BY <3>1 DEF Splits, Parts
  <2> QED
    BY <1>1, <2>1, <2>2 DEF LeafFits
<1>3. ASSUME ~nd[x].leaf
      PROVE  InnerFits(nd2, h2, lo2, hi2, x)
  <2>1. InnerFits(nd, h, lo, hi, x) /\ DOMAIN nd[x].vals = 1 .. Len(nd[x].vals)
    BY <1>3, NodeIs, ShapedIs
  <2>2. ASSUME NEW a \in 1 .. Len(nd[x].vals), NEW y, y = nd[x].vals[a]
        PROVE  y \in DOMAIN nd2 /\ h2[y] + 1 = h[x] /\ lo2[y] = From(nd[x], a, lo[x]) /\ hi2[y] = To(nd[x], a, hi[x])
    BY <1>3, <2>2, OtherChild
  <2>3. \A a \in DOMAIN nd[x].keys : lo[x] < nd[x].keys[a] /\ nd[x].keys[a] < hi[x]
    BY <2>1 DEF InnerFits
  <2> QED
    BY <1>1, <2>1, <2>2, <2>3 DEF InnerFits
<1> QED
  BY <1>1, <1>2, <1>3

\* Everyone but the root still has a father.
LEMMA SplitFathers ==
    ASSUME NEW nd, NEW r, NEW h, NEW lo, NEW hi, TreeOf(nd, r, h, lo, hi),
           NEW f, NEW i, NEW c, NEW new, NEW k, NEW nd2, Splits(nd, f, i, c, new, k, nd2),
           NEW j \in DOMAIN nd2, j # r
    PROVE  HasFather(nd2, j)
<1>1. /\ f \in DOMAIN nd /\ ~nd[f].leaf /\ i \in 1 .. Len(nd[f].vals) /\ i \in Nat
      /\ c \in DOMAIN nd /\ c # f /\ Shaped(nd[c]) /\ Full(nd[c]) /\ new \in Nat
  BY SplitAt
<1>2. /\ DOMAIN nd2 = DOMAIN nd \cup {new}
      /\ nd2[c] = Left(nd[c], new) /\ nd2[new] = Right(nd[c])
      /\ \A x \in DOMAIN nd : x # f /\ x # c => nd2[x] = nd[x]
  BY DEF Splits, Splittable
<1>3. /\ Shaped(nd2[f]) /\ ~nd2[f].leaf
      /\ Len(nd2[f].vals) = Len(nd[f].vals) + 1 /\ nd2[f].vals[i + 1] = new
      /\ \A a \in 1 .. i : nd2[f].vals[a] = nd[f].vals[a]
      /\ \A a \in i + 1 .. Len(nd[f].vals) : nd2[f].vals[a + 1] = nd[f].vals[a]
  BY SplitFather
<1>4. PICK v, v2, len : v = nd[f].vals /\ v2 = nd2[f].vals /\ len = Len(v)
  OBVIOUS
<1>5. len \in Nat /\ i \in 1 .. len /\ DOMAIN v2 = 1 .. len + 1
  <2>1. Len(nd[f].vals) = Len(nd[f].keys) + 1 /\ Len(nd[f].keys) \in Nat
    BY <1>1, NodeIs, ShapedIs
  <2>2. DOMAIN nd2[f].vals = 1 .. Len(nd2[f].vals)
    BY <1>3, ShapedIs
  <2>3. Len(nd[f].vals) = len /\ Len(nd2[f].vals) = len + 1 /\ v2 = nd2[f].vals
    BY <1>3, <1>4
  <2>4. len \in Nat
    BY <2>1, <2>3
  <2>5. i \in 1 .. len
    BY <1>1, <2>3
  <2> QED
    BY <2>2, <2>3, <2>4, <2>5
<1>6. /\ v2[i + 1] = new /\ \A a \in 1 .. i : v2[a] = v[a]
      /\ \A a \in i + 1 .. len : v2[a + 1] = v[a]
  BY <1>3, <1>4
<1>7. ASSUME NEW b \in 1 .. len + 1
      PROVE  HasFather(nd2, v2[b])
  BY <1>1, <1>2, <1>3, <1>4, <1>5, <1>7 DEF HasFather
<1>8. CASE j = new
  <2>1. i + 1 \in 1 .. len + 1
    BY <1>5
  <2> QED
    BY <1>6, <1>7, <1>8, <2>1
<1>9. CASE j # new
  <2>1. j \in DOMAIN nd
    BY <1>2, <1>9
  <2>2. PICK x \in DOMAIN nd, a \in Nat : ~nd[x].leaf /\ a \in 1 .. Len(nd[x].vals) /\ nd[x].vals[a] = j
    BY <2>1, FatherIs
  <2>3. CASE x = f
    <3>1. a \in 1 .. len /\ v[a] = j
      BY <1>4, <2>2, <2>3
    <3>2. CASE a \in 1 .. i
      <4>1. a \in 1 .. len + 1
        BY <1>5, <3>1
      <4> QED
        BY <1>6, <1>7, <3>1, <3>2, <4>1
    <3>3. CASE a \in i + 1 .. len
      <4>1. a + 1 \in 1 .. len + 1
        BY <1>5, <3>1
      <4> QED
        BY <1>6, <1>7, <3>1, <3>3, <4>1
    <3> QED
      BY <1>1, <1>5, <3>1, <3>2, <3>3
  <2>4. CASE x = c
    <3>1. PICK n, b : n = nd[c] /\ b = Before(n)
      OBVIOUS
    <3>2. /\ nd2[c].leaf = n.leaf /\ Shaped(nd2[c]) /\ Len(nd2[c].vals) = b
          /\ \A d \in 1 .. b : nd2[c].vals[d] = n.vals[d]
      BY <1>1, <1>2, <3>1, LeftIs
    <3>3. /\ nd2[new].leaf = n.leaf /\ Shaped(nd2[new]) /\ Len(nd2[new].vals) = Len(n.vals) - b
          /\ \A d \in 1 .. Len(n.vals) - b : nd2[new].vals[d] = n.vals[d + b]
      BY <1>1, <1>2, <3>1, RightIs
    <3>4. ~n.leaf /\ a \in 1 .. Len(n.vals) /\ n.vals[a] = j
      BY <2>2, <2>4, <3>1
    <3>5. /\ DOMAIN nd2[c].vals = 1 .. b /\ DOMAIN nd2[new].vals = 1 .. Len(n.vals) - b
          /\ b \in Nat /\ Len(n.vals) \in Nat
      <4>1. DOMAIN nd2[c].vals = 1 .. b
        BY <3>2, ShapedIs
      <4>2. DOMAIN nd2[new].vals = 1 .. Len(n.vals) - b
        BY <3>3, ShapedIs
      <4>3. b \in Nat
        BY <1>1, <3>1, BeforeIs
      <4>4. Len(n.vals) \in Nat
        BY <1>1, <3>1, <3>4, ShapedIs
      <4> QED
        BY <4>1, <4>2, <4>3, <4>4
    <3>6. CASE a \in 1 .. b
      <4>1. c \in DOMAIN nd2 /\ ~nd2[c].leaf /\ a \in DOMAIN nd2[c].vals /\ nd2[c].vals[a] = j
        BY <1>1, <1>2, <3>2, <3>4, <3>5, <3>6
      <4> QED
        BY <4>1 DEF HasFather
    <3>7. CASE a \notin 1 .. b
      <4>1. a - b \in 1 .. Len(n.vals) - b /\ (a - b) + b = a
        BY <3>4, <3>5, <3>7
      <4>2. new \in DOMAIN nd2 /\ ~nd2[new].leaf /\ a - b \in DOMAIN nd2[new].vals
        BY <1>2, <3>3, <3>4, <3>5, <4>1
      <4>3. nd2[new].vals[a - b] = j
        BY <3>3, <3>4, <4>1
      <4> QED
        BY <4>2, <4>3 DEF HasFather
    <3> QED
      BY <3>6, <3>7
  <2>5. CASE x # f /\ x # c
    <3>1. DOMAIN nd[x].vals = 1 .. Len(nd[x].vals)
      BY NodeIs, ShapedIs
    <3> QED
      BY <1>2, <2>2, <2>5, <3>1 DEF HasFather
  <2> QED
    BY <2>3, <2>4, <2>5
<1> QED
  BY <1>8, <1>9

\* The leaves have the keys they had.
LEMMA SplitBound ==
    ASSUME NEW nd, NEW r, NEW h, NEW lo, NEW hi, TreeOf(nd, r, h, lo, hi),
           NEW f, NEW i, NEW c, NEW new, NEW k, NEW nd2, Splits(nd, f, i, c, new, k, nd2)
    PROVE  Bound(nd2) = Bound(nd)
<1>1. /\ f \in DOMAIN nd /\ ~nd[f].leaf /\ c \in DOMAIN nd /\ c # f
      /\ Shaped(nd[c]) /\ Full(nd[c]) /\ new \in Nat /\ new \notin DOMAIN nd
  BY SplitAt
<1>2. /\ DOMAIN nd2 = DOMAIN nd \cup {new}
      /\ nd2[c] = Left(nd[c], new) /\ nd2[new] = Right(nd[c])
      /\ \A x \in DOMAIN nd : x # f /\ x # c => nd2[x] = nd[x]
  BY DEF Splits, Splittable
<1>3. ~nd2[f].leaf
  BY SplitFather
<1>4. PICK n, b, l, g : n = nd[c] /\ b = Before(n) /\ l = nd2[c] /\ g = nd2[new]
  OBVIOUS
<1>5. /\ l.leaf = n.leaf /\ Shaped(l) /\ Len(l.keys) = Middle
      /\ \A d \in 1 .. Middle : l.keys[d] = n.keys[d]
  BY <1>1, <1>2, <1>4, LeftIs
<1>6. /\ g.leaf = n.leaf /\ Shaped(g) /\ Len(g.keys) = M - 1 - b
      /\ \A d \in 1 .. M - 1 - b : g.keys[d] = n.keys[d + b]
  BY <1>1, <1>2, <1>4, RightIs
<1>7. /\ DOMAIN l.keys = 1 .. Middle /\ DOMAIN g.keys = 1 .. M - 1 - b
      /\ DOMAIN n.keys = 1 .. M - 1 /\ b \in Nat
      /\ b = Middle + (IF n.leaf THEN 0 ELSE 1)
  <2>1. DOMAIN l.keys = 1 .. Middle
    BY <1>5, ShapedIs
  <2>2. DOMAIN g.keys = 1 .. M - 1 - b
    BY <1>6, ShapedIs
  <2>3. DOMAIN n.keys = 1 .. M - 1
    BY <1>1, <1>4, ShapedIs DEF Full
  <2>4. b \in Nat /\ b = Middle + (IF n.leaf THEN 0 ELSE 1)
    BY <1>1, <1>4, BeforeIs
  <2> QED
    BY <2>1, <2>2, <2>3, <2>4
<1>8. ASSUME n.leaf
      PROVE  Range(n.keys) = Range(l.keys) \cup Range(g.keys)
  <2>1. PICK m : m = Middle
    OBVIOUS
  <2>2. M \in Nat /\ m \in Nat /\ m + 2 <= M - 1 /\ b = m
    <3>1. M \in Nat /\ Middle \in Nat /\ Middle + 2 <= M - 1
      BY MiddleIs
    <3> QED
      BY <1>7, <1>8, <2>1, <3>1
  <2>3. ASSUME NEW a \in 1 .. M - 1
        PROVE  n.keys[a] \in Range(l.keys) \cup Range(g.keys)
    <3>1. CASE a \in 1 .. m
      BY <1>5, <1>7, <2>1, <3>1 DEF Range
    <3>2. CASE a \notin 1 .. m
      <4>1. a - m \in 1 .. M - 1 - b /\ (a - m) + b = a
        BY <2>2, <3>2
      <4>2. g.keys[a - m] = n.keys[a]
        BY <1>6, <4>1
      <4> QED
        BY <1>7, <4>1, <4>2 DEF Range
    <3> QED
      BY <3>1, <3>2
  <2>4. ASSUME NEW a \in 1 .. m
        PROVE  l.keys[a] \in Range(n.keys)
    <3>1. a \in 1 .. M - 1
      BY <2>2
    <3> QED
      BY <1>5, <1>7, <2>1, <3>1 DEF Range
  <2>5. ASSUME NEW a \in 1 .. M - 1 - b
        PROVE  g.keys[a] \in Range(n.keys)
    <3>1. a + b \in 1 .. M - 1
      BY <2>2
    <3> QED
      BY <1>6, <1>7, <3>1 DEF Range
  <2>6. \A y \in Range(n.keys) : y \in Range(l.keys) \cup Range(g.keys)
    BY <1>7, <2>3 DEF Range
  <2>7. \A y \in Range(l.keys) : y \in Range(n.keys)
    BY <1>7, <2>1, <2>4 DEF Range
  <2>8. \A y \in Range(g.keys) : y \in Range(n.keys)
    BY <1>7, <2>5 DEF Range
  <2> QED
    BY <2>6, <2>7, <2>8
<1>9. ASSUME NEW y \in Bound(nd)
      PROVE  y \in Bound(nd2)
  <2>1. PICK x \in DOMAIN nd : nd[x].leaf /\ y \in Range(nd[x].keys)
    BY <1>9 DEF Bound
  <2>2. x # f
    BY <1>1, <2>1
  <2>3. CASE x = c
    <3>1. n.leaf /\ y \in Range(l.keys) \cup Range(g.keys) /\ c \in DOMAIN nd2 /\ new \in DOMAIN nd2
      BY <1>1, <1>2, <1>4, <1>8, <2>1, <2>3
    <3> QED
      BY <1>4, <1>5, <1>6, <3>1 DEF Bound
  <2>4. CASE x # c
    <3>1. nd2[x] = nd[x] /\ x \in DOMAIN nd2
      BY <1>2, <2>2, <2>4
    <3> QED
      BY <2>1, <3>1 DEF Bound
  <2> QED
    BY <2>3, <2>4
<1>10. ASSUME NEW y \in Bound(nd2)
       PROVE  y \in Bound(nd)
  <2>1. PICK x \in DOMAIN nd2 : nd2[x].leaf /\ y \in Range(nd2[x].keys)
    BY <1>10 DEF Bound
  <2>2. x # f
    BY <1>3, <2>1
  <2>3. CASE x = c \/ x = new
    <3>1. n.leaf /\ y \in Range(n.keys)
      BY <1>4, <1>5, <1>6, <1>8, <2>1, <2>3
    <3> QED
      BY <1>1, <1>4, <3>1 DEF Bound
  <2>4. CASE x # c /\ x # new
    <3>1. x \in DOMAIN nd /\ nd2[x] = nd[x]
      BY <1>2, <2>2, <2>4
    <3> QED
      BY <2>1, <3>1 DEF Bound
  <2> QED
    BY <2>3, <2>4
<1> QED
  BY <1>9, <1>10

\* One node more.
LEMMA OneMore ==
    ASSUME NEW nd, NEW nd2, NEW new, DOMAIN nd \subseteq NodeLba, new \notin DOMAIN nd,
           DOMAIN nd2 = DOMAIN nd \cup {new}
    PROVE  /\ Cardinality(DOMAIN nd) \in Nat
           /\ Cardinality(DOMAIN nd2) = Cardinality(DOMAIN nd) + 1
<1>1. IsFiniteSet(DOMAIN nd)
  <2>1. IsFiniteSet(NodeLba)
    BY TreeAssumption, FS_Interval DEF NodeLba
  <2> QED
    BY <2>1, FS_Subset
<1> QED
  BY <1>1, FS_AddElement, FS_CardinalityType

\* A split makes a tree of a tree.
LEMMA SplitKeeps ==
    ASSUME NEW nd, NEW r, NEW h, NEW lo, NEW hi, TreeOf(nd, r, h, lo, hi),
           NEW f, NEW i, NEW c, NEW new, NEW k, NEW nd2, Splits(nd, f, i, c, new, k, nd2),
           NEW h2, NEW lo2, NEW hi2, Parts(nd, c, new, k, h, lo, hi, h2, lo2, hi2)
    PROVE  TreeOf(nd2, r, h2, lo2, hi2)
<1>1. /\ f \in DOMAIN nd /\ ~nd[f].leaf /\ c \in DOMAIN nd /\ h[c] + 1 = h[f] /\ c # f /\ c # r
      /\ k \in Key /\ k \in Int /\ lo[c] < k /\ k < hi[c] /\ k # Top
      /\ new \notin DOMAIN nd
  BY SplitAt
<1>2. DOMAIN nd2 = DOMAIN nd \cup {new} /\ new \in NodeLba
  BY DEF Splits, Splittable
<1>3. /\ \A x \in DOMAIN nd : h2[x] = h[x] /\ lo2[x] = lo[x] /\ (x # c => hi2[x] = hi[x])
      /\ h2[new] = h[c] /\ lo2[new] = k /\ hi2[new] = hi[c] /\ hi2[c] = k
  BY DEF Parts
<1>4. /\ DOMAIN nd \subseteq NodeLba /\ r \in DOMAIN nd /\ h[r] \in Nat
      /\ h[r] + 1 <= Cardinality(DOMAIN nd) /\ lo[r] = 0 /\ hi[r] = Top
  BY DEF TreeOf
<1>5. DOMAIN nd2 \subseteq NodeLba /\ r \in DOMAIN nd2 /\ h2[r] \in Nat /\ lo2[r] = 0 /\ hi2[r] = Top
  BY <1>1, <1>2, <1>3, <1>4
<1>6. h2[r] + 1 <= Cardinality(DOMAIN nd2)
  <2>1. Cardinality(DOMAIN nd) \in Nat /\ Cardinality(DOMAIN nd2) = Cardinality(DOMAIN nd) + 1
    BY <1>1, <1>2, <1>4, OneMore
  <2>2. h2[r] = h[r]
    BY <1>3, <1>4
  <2> QED
    BY <1>4, <2>1, <2>2
<1>7. /\ Shaped(nd2[c]) /\ nd2[c].leaf = nd[c].leaf
      /\ nd2[c].leaf => LeafFits(nd2, h2, lo2, hi2, c)
      /\ ~nd2[c].leaf => InnerFits(nd2, h2, lo2, hi2, c)
  BY LeftFits
<1>8. /\ Shaped(nd2[new]) /\ nd2[new].leaf = nd[c].leaf
      /\ nd2[new].leaf => LeafFits(nd2, h2, lo2, hi2, new)
      /\ ~nd2[new].leaf => InnerFits(nd2, h2, lo2, hi2, new)
  BY RightFits
<1>9. Shaped(nd2[f]) /\ ~nd2[f].leaf /\ InnerFits(nd2, h2, lo2, hi2, f)
  BY SplitFather, FatherFits
<1>10. \A x \in DOMAIN nd :
        /\ h[x] \in Nat /\ h[x] <= h[r] /\ (nd[x].leaf <=> h[x] = 0) /\ Shaped(nd[x])
        /\ lo[x] \in Nat /\ hi[x] \in Nat /\ lo[x] < hi[x] /\ hi[x] <= Top
  BY NodeIs
<1>11. ASSUME NEW x \in DOMAIN nd2
       PROVE  /\ Shaped(nd2[x]) /\ Placed(nd2, r, h2, lo2, hi2, x)
              /\ nd2[x].leaf => LeafFits(nd2, h2, lo2, hi2, x)
              /\ ~nd2[x].leaf => InnerFits(nd2, h2, lo2, hi2, x)
  <2>1. k \in Nat /\ Top \in Nat /\ k < Top /\ h2[r] = h[r] /\ h[r] \in Nat
    BY <1>1, <1>3, <1>4, KeysAre DEF Key, Top
  <2>2. CASE x = new
    <3>1. h[c] \in Nat /\ h[c] <= h[r] /\ (nd[c].leaf <=> h[c] = 0) /\ hi[c] \in Nat /\ hi[c] <= Top
      BY <1>1, <1>10
    <3>2. Placed(nd2, r, h2, lo2, hi2, new)
      BY <1>1, <1>3, <1>8, <2>1, <3>1 DEF Placed
    <3> QED
      BY <1>8, <2>2, <3>2
  <2>3. CASE x = c
    <3>1. h[c] \in Nat /\ h[c] <= h[r] /\ (nd[c].leaf <=> h[c] = 0) /\ lo[c] \in Nat
      BY <1>1, <1>10
    <3>2. h2[c] = h[c] /\ lo2[c] = lo[c] /\ hi2[c] = k
      BY <1>1, <1>3
    <3>3. Placed(nd2, r, h2, lo2, hi2, c)
      BY <1>1, <1>7, <2>1, <3>1, <3>2 DEF Placed
    <3> QED
      BY <1>7, <2>3, <3>3
  <2>4. CASE x \in DOMAIN nd /\ x # c
    <3>1. /\ h[x] \in Nat /\ h[x] <= h[r] /\ (nd[x].leaf <=> h[x] = 0) /\ Shaped(nd[x])
          /\ lo[x] \in Nat /\ hi[x] \in Nat /\ lo[x] < hi[x] /\ hi[x] <= Top
      BY <1>10, <2>4
    <3>2. h2[x] = h[x] /\ lo2[x] = lo[x] /\ hi2[x] = hi[x]
      BY <1>3, <2>4
    <3>3. nd2[x].leaf <=> nd[x].leaf
      <4>1. CASE x = f
        BY <1>1, <1>9, <4>1
      <4>2. CASE x # f
        BY <2>4, <4>2, OtherFits
      <4> QED
        BY <4>1, <4>2
    <3>4. Placed(nd2, r, h2, lo2, hi2, x)
      BY <2>1, <3>1, <3>2, <3>3 DEF Placed
    <3>5. CASE x = f
      BY <1>9, <3>4, <3>5
    <3>6. CASE x # f
      <4>1. /\ nd2[x] = nd[x]
            /\ nd2[x].leaf => LeafFits(nd2, h2, lo2, hi2, x)
            /\ ~nd2[x].leaf => InnerFits(nd2, h2, lo2, hi2, x)
        BY <2>4, <3>6, OtherFits
      <4> QED
        BY <3>1, <3>4, <4>1
    <3> QED
      BY <3>5, <3>6
  <2> QED
    BY <1>2, <2>2, <2>3, <2>4
<1>12. \A j \in DOMAIN nd2 \ {r} : HasFather(nd2, j)
  BY SplitFathers
<1> QED
  BY <1>5, <1>6, <1>11, <1>12 DEF TreeOf

\* And leaves no node without keys.
LEMMA SplitNoneEmpty ==
    ASSUME NEW nd, NEW r, NEW h, NEW lo, NEW hi, TreeOf(nd, r, h, lo, hi),
           NEW f, NEW i, NEW c, NEW new, NEW k, NEW nd2, Splits(nd, f, i, c, new, k, nd2),
           NEW h2, NEW lo2, NEW hi2, Parts(nd, c, new, k, h, lo, hi, h2, lo2, hi2),
           NoneEmpty(nd, {f})
    PROVE  NoneEmpty(nd2, {})
<1> SUFFICES ASSUME NEW x \in DOMAIN nd2 PROVE nd2[x].keys # <<>>
  BY DEF NoneEmpty
<1>1. DOMAIN nd2 = DOMAIN nd \cup {new}
  BY DEF Splits, Splittable
<1>2. Len(nd2[c].keys) = Middle /\ 1 <= Middle /\ Middle \in Nat
  BY LeftFits, MiddleIs
<1>3. 1 <= Len(nd2[new].keys)
  BY RightFits
<1>4. Len(nd2[f].keys) = Len(nd[f].keys) + 1 /\ Len(nd[f].keys) \in Nat
  BY SplitFather, SplitAt, NodeIs, ShapedIs
<1>5. Len(<<>>) = 0
  OBVIOUS
<1>6. CASE x = c
  BY <1>2, <1>5, <1>6
<1>7. CASE x = new
  BY <1>3, <1>5, <1>7
<1>8. CASE x = f
  BY <1>4, <1>5, <1>8
<1>9. CASE x # c /\ x # new /\ x # f
  BY <1>1, <1>9, OtherFits DEF NoneEmpty
<1> QED
  BY <1>6, <1>7, <1>8, <1>9

\* The shares can be given so.
LEMMA PartsExist ==
    ASSUME NEW nd, NEW c \in DOMAIN nd, NEW new, new \notin DOMAIN nd, NEW k, NEW h, NEW lo, NEW hi
    PROVE  \E h2, lo2, hi2 : Parts(nd, c, new, k, h, lo, hi, h2, lo2, hi2)
<1> DEFINE h2 == [x \in DOMAIN nd \cup {new} |-> IF x = new THEN h[c] ELSE h[x]]
           lo2 == [x \in DOMAIN nd \cup {new} |-> IF x = new THEN k ELSE lo[x]]
           hi2 == [x \in DOMAIN nd \cup {new} |-> IF x = new THEN hi[c] ELSE IF x = c THEN k ELSE hi[x]]
<1>1. \A x \in DOMAIN nd : h2[x] = h[x] /\ lo2[x] = lo[x] /\ (x # c => hi2[x] = hi[x])
  OBVIOUS
<1>2. h2[new] = h[c] /\ lo2[new] = k /\ hi2[new] = hi[c] /\ hi2[c] = k
  OBVIOUS
<1> HIDE DEF h2, lo2, hi2
<1>3. Parts(nd, c, new, k, h, lo, hi, h2, lo2, hi2)
  BY <1>1, <1>2 DEF Parts
<1> QED
  BY <1>3

-----------------------------------------------------------------------------
\* A leaf takes a key of its share.
LEMMA LeafKeeps ==
    ASSUME NEW nd, NEW r, NEW h, NEW lo, NEW hi, TreeOf(nd, r, h, lo, hi), NoneEmpty(nd, {}),
           NEW l \in DOMAIN nd, nd[l].leaf, Len(nd[l].keys) < M - 1,
           NEW k \in Key, Covers(lo, hi, l, k), k \notin Bound(nd),
           NEW nd2, DOMAIN nd2 = DOMAIN nd, nd2[l] = WithKey(nd[l], Index(nd[l], k) + 1, k),
           \A x \in DOMAIN nd : x # l => nd2[x] = nd[x]
    PROVE  TreeOf(nd2, r, h, lo, hi) /\ NoneEmpty(nd2, {}) /\ Bound(nd2) = Bound(nd) \cup {k}
<1>1. PICK n, w : n = nd[l] /\ w = nd2[l]
  OBVIOUS
<1>2. Shaped(n) /\ LeafFits(nd, h, lo, hi, l) /\ h[l] = 0
  BY <1>1, NodeIs
<1>3. n.leaf /\ n.vals = n.keys /\ Len(n.keys) < M - 1 /\ k \notin Range(n.keys)
  <2>1. n.vals = n.keys
    BY <1>1, <1>2 DEF LeafFits
  <2>2. k \notin Range(n.keys)
    BY <1>1 DEF Bound
  <2> QED
    BY <1>1, <2>1, <2>2
<1>4. /\ Shaped(w) /\ w.leaf /\ w.vals = w.keys /\ w.nxt = n.nxt
      /\ Range(w.keys) = Range(n.keys) \cup {k} /\ w.keys # <<>>
  <2>1. w = WithKey(n, Index(n, k) + 1, k)
    BY <1>1
  <2>2. Shaped(n) /\ n.leaf /\ n.vals = n.keys /\ Len(n.keys) < M - 1 /\ k \in Key /\ k \notin Range(n.keys)
    BY <1>2, <1>3
  <2>3. Shaped(w)
    BY <2>1, <2>2, WithKeyIs
  <2>4. w.leaf /\ w.vals = w.keys /\ w.nxt = n.nxt
    BY <2>1, <2>2, WithKeyIs
  <2>5. Gains(n.keys, w.keys, k)
    BY <2>1, <2>2, WithKeyIs
  <2>6. w.keys # <<>>
    BY <2>1, <2>2, WithKeyIs
  <2> QED
    BY <2>3, <2>4, <2>5, <2>6 DEF Gains
<1>5. \A y \in Range(w.keys) : lo[l] <= y /\ y < hi[l]
  <2>1. lo[l] <= k /\ k < hi[l]
    BY DEF Covers
  <2>2. \A y \in Range(n.keys) : lo[l] <= y /\ y < hi[l]
    BY <1>1, <1>2 DEF LeafFits, Range
  <2> QED
    BY <1>4, <2>1, <2>2
<1>6. LeafFits(nd2, h, lo, hi, l)
  <2>1. \A a \in DOMAIN w.keys : lo[l] <= w.keys[a] /\ w.keys[a] < hi[l]
    BY <1>5 DEF Range
  <2>2. IF hi[l] = Top THEN w.nxt = NoNode
        ELSE w.nxt \in DOMAIN nd2 /\ h[w.nxt] = 0 /\ lo[w.nxt] = hi[l]
    BY <1>1, <1>2, <1>4 DEF LeafFits
  <2>3. nd2[l].vals = nd2[l].keys
    BY <1>1, <1>4
  <2>4. \A a \in DOMAIN nd2[l].keys : lo[l] <= nd2[l].keys[a] /\ nd2[l].keys[a] < hi[l]
    BY <1>1, <2>1
  <2>5. IF hi[l] = Top THEN nd2[l].nxt = NoNode
        ELSE nd2[l].nxt \in DOMAIN nd2 /\ h[nd2[l].nxt] = 0 /\ lo[nd2[l].nxt] = hi[l]
    BY <1>1, <2>2
  <2> QED
    BY <2>3, <2>4, <2>5 DEF LeafFits
<1>7. ASSUME NEW x \in DOMAIN nd2
      PROVE  /\ Shaped(nd2[x]) /\ Placed(nd2, r, h, lo, hi, x)
             /\ nd2[x].leaf => LeafFits(nd2, h, lo, hi, x)
             /\ ~nd2[x].leaf => InnerFits(nd2, h, lo, hi, x)
  <2>1. Shaped(nd[x]) /\ Placed(nd, r, h, lo, hi, x)
    BY DEF TreeOf
  <2>2. CASE x = l
    <3>1. Placed(nd2, r, h, lo, hi, l)
      BY <1>1, <1>3, <1>4, <2>1, <2>2 DEF Placed
    <3> QED
      BY <1>1, <1>4, <1>6, <2>2, <3>1
  <2>3. CASE x # l
    <3>1. nd2[x] = nd[x]
      BY <2>3
    <3>2. Placed(nd2, r, h, lo, hi, x)
      BY <2>1, <3>1 DEF Placed
    <3>3. nd[x].leaf => LeafFits(nd2, h, lo, hi, x)
      <4>1. nd[x].leaf => LeafFits(nd, h, lo, hi, x)
        BY NodeIs
      <4> QED
        BY <3>1, <4>1 DEF LeafFits
    <3>4. ~nd[x].leaf => InnerFits(nd2, h, lo, hi, x)
      <4>1. ~nd[x].leaf => InnerFits(nd, h, lo, hi, x)
        BY NodeIs
      <4> QED
        BY <3>1, <4>1 DEF InnerFits
    <3> QED
      BY <2>1, <3>1, <3>2, <3>3, <3>4
  <2> QED
    BY <2>2, <2>3
<1>8. ASSUME NEW j \in DOMAIN nd2 \ {r}
      PROVE  HasFather(nd2, j)
  <2>1. PICK x \in DOMAIN nd : ~nd[x].leaf /\ \E a \in DOMAIN nd[x].vals : nd[x].vals[a] = j
    BY DEF TreeOf, HasFather
  <2>2. nd2[x] = nd[x] /\ x \in DOMAIN nd2
    BY <2>1
  <2> QED
    BY <2>1, <2>2 DEF HasFather
<1>9. TreeOf(nd2, r, h, lo, hi)
  <2>1. /\ DOMAIN nd \subseteq NodeLba /\ r \in DOMAIN nd /\ h[r] \in Nat
        /\ h[r] + 1 <= Cardinality(DOMAIN nd) /\ lo[r] = 0 /\ hi[r] = Top
    BY DEF TreeOf
  <2> QED
    BY <1>7, <1>8, <2>1 DEF TreeOf
<1>10. NoneEmpty(nd2, {})
  BY <1>1, <1>4 DEF NoneEmpty
<1>11. ASSUME NEW y
       PROVE  y \in Bound(nd2) <=> y \in Bound(nd) \cup {k}
  <2>1. \A x \in DOMAIN nd : nd2[x].leaf <=> nd[x].leaf
    BY <1>1, <1>3, <1>4
  <2>2. \A x \in DOMAIN nd : x # l => Range(nd2[x].keys) = Range(nd[x].keys)
    OBVIOUS
  <2>3. Range(nd2[l].keys) = Range(nd[l].keys) \cup {k}
    BY <1>1, <1>4
  <2>4. y \in Bound(nd2) <=> \E x \in DOMAIN nd : nd[x].leaf /\ y \in Range(nd2[x].keys)
    BY <2>1 DEF Bound
  <2>5. y \in Bound(nd) <=> \E x \in DOMAIN nd : nd[x].leaf /\ y \in Range(nd[x].keys)
    BY DEF Bound
  <2>6. ASSUME y \in Bound(nd2)
        PROVE  y \in Bound(nd) \cup {k}
    <3>1. PICK x \in DOMAIN nd : nd[x].leaf /\ y \in Range(nd2[x].keys)
      BY <2>4, <2>6
    <3>2. CASE x = l
      BY <2>3, <2>5, <3>1, <3>2
    <3>3. CASE x # l
      BY <2>2, <2>5, <3>1, <3>3
    <3> QED
      BY <3>2, <3>3
  <2>7. ASSUME y \in Bound(nd)
        PROVE  y \in Bound(nd2)
    <3>1. PICK x \in DOMAIN nd : nd[x].leaf /\ y \in Range(nd[x].keys)
      BY <2>5, <2>7
    <3>2. CASE x = l
      BY <2>3, <2>4, <3>1, <3>2
    <3>3. CASE x # l
      BY <2>2, <2>4, <3>1, <3>3
    <3> QED
      BY <3>2, <3>3
  <2>8. k \in Bound(nd2)
    <3>1. k \in Range(nd2[l].keys) /\ nd2[l].leaf /\ l \in DOMAIN nd2
      BY <1>1, <1>4
    <3> QED
      BY <3>1 DEF Bound
  <2> QED
    BY <2>6, <2>7, <2>8
<1> QED
  BY <1>9, <1>10, <1>11

\* The father of the root, before the root is split.
FatherOf(r) == [leaf |-> FALSE, keys |-> <<>>, vals |-> <<r>>, nxt |-> NoNode]

LEMMA TopKeeps ==
    ASSUME NEW nd, NEW r, NEW h, NEW lo, NEW hi, TreeOf(nd, r, h, lo, hi), NoneEmpty(nd, {}),
           NEW top \in NodeLba, top \notin DOMAIN nd,
           NEW nd2, DOMAIN nd2 = DOMAIN nd \cup {top}, nd2[top] = FatherOf(r),
           \A x \in DOMAIN nd : nd2[x] = nd[x]
    PROVE  /\ \E h2, lo2, hi2 : TreeOf(nd2, top, h2, lo2, hi2)
           /\ NoneEmpty(nd2, {top}) /\ Bound(nd2) = Bound(nd)
<1> DEFINE h2 == [x \in DOMAIN nd \cup {top} |-> IF x = top THEN h[r] + 1 ELSE h[x]]
           lo2 == [x \in DOMAIN nd \cup {top} |-> IF x = top THEN 0 ELSE lo[x]]
           hi2 == [x \in DOMAIN nd \cup {top} |-> IF x = top THEN Top ELSE hi[x]]
<1>1. \A x \in DOMAIN nd : h2[x] = h[x] /\ lo2[x] = lo[x] /\ hi2[x] = hi[x]
  OBVIOUS
<1>2. h2[top] = h[r] + 1 /\ lo2[top] = 0 /\ hi2[top] = Top
  OBVIOUS
<1> HIDE DEF h2, lo2, hi2
<1>3. /\ DOMAIN nd \subseteq NodeLba /\ r \in DOMAIN nd /\ h[r] \in Nat
      /\ h[r] + 1 <= Cardinality(DOMAIN nd) /\ lo[r] = 0 /\ hi[r] = Top
  BY DEF TreeOf
<1>4. PICK w : w = nd2[top]
  OBVIOUS
<1>5. /\ ~w.leaf /\ w.leaf \in BOOLEAN /\ w.keys = <<>> /\ w.vals = <<r>> /\ w.nxt = NoNode
      /\ w = [leaf |-> FALSE, keys |-> <<>>, vals |-> <<r>>, nxt |-> NoNode]
  BY <1>4 DEF FatherOf
<1>6. Shaped(w)
  <2>1. w.vals \in Seq(Nat) /\ w.keys \in Seq(Key) /\ w.nxt \in Nat
    BY <1>3, <1>5 DEF NodeLba, NoNode
  <2>2. w \in Node
    BY <1>5, <2>1 DEF Node
  <2>3. Len(w.keys) < M /\ Len(w.vals) = Len(w.keys) + 1
    BY <1>5, TreeAssumption
  <2>4. Ascending(w.keys)
    BY <1>5 DEF Ascending
  <2> QED
    BY <1>5, <2>2, <2>3, <2>4 DEF Shaped
<1>7. InnerFits(nd2, h2, lo2, hi2, top)
  <2>1. \A a \in DOMAIN w.keys : lo2[top] < w.keys[a] /\ w.keys[a] < hi2[top]
    BY <1>5
  <2>2. ASSUME NEW a \in DOMAIN w.vals
        PROVE  /\ w.vals[a] \in DOMAIN nd2 /\ h2[w.vals[a]] + 1 = h2[top]
               /\ lo2[w.vals[a]] = From(w, a, lo2[top]) /\ hi2[w.vals[a]] = To(w, a, hi2[top])
    <3>1. a = 1 /\ Len(w.vals) = 1 /\ w.vals[a] = r
      BY <1>5
    <3>2. From(w, a, lo2[top]) = 0 /\ To(w, a, hi2[top]) = Top
      BY <1>2, <3>1 DEF From, To
    <3> QED
      BY <1>1, <1>2, <1>3, <3>1, <3>2
  <2> QED
    BY <1>4, <2>1, <2>2 DEF InnerFits
<1>8. Top \in Nat /\ 0 < Top
  BY TreeAssumption DEF Top
<1>9. ASSUME NEW x \in DOMAIN nd2
      PROVE  /\ Shaped(nd2[x]) /\ Placed(nd2, top, h2, lo2, hi2, x)
             /\ nd2[x].leaf => LeafFits(nd2, h2, lo2, hi2, x)
             /\ ~nd2[x].leaf => InnerFits(nd2, h2, lo2, hi2, x)
  <2>1. CASE x = top
    <3>1. Placed(nd2, top, h2, lo2, hi2, top)
      BY <1>2, <1>3, <1>4, <1>5, <1>8 DEF Placed
    <3> QED
      BY <1>4, <1>5, <1>6, <1>7, <2>1, <3>1
  <2>2. CASE x # top
    <3>1. x \in DOMAIN nd /\ nd2[x] = nd[x] /\ h2[x] = h[x] /\ lo2[x] = lo[x] /\ hi2[x] = hi[x]
      BY <1>1, <2>2
    <3>2. /\ Shaped(nd[x]) /\ h[x] \in Nat /\ h[x] <= h[r] /\ (nd[x].leaf <=> h[x] = 0)
          /\ lo[x] \in Nat /\ hi[x] \in Nat /\ lo[x] < hi[x] /\ hi[x] <= Top
      BY <3>1, NodeIs
    <3>3. Placed(nd2, top, h2, lo2, hi2, x)
      BY <1>2, <1>3, <3>1, <3>2 DEF Placed
    <3>4. nd[x].leaf => LeafFits(nd2, h2, lo2, hi2, x)
      <4>1. nd[x].leaf => LeafFits(nd, h, lo, hi, x)
        BY <3>1, NodeIs
      <4> QED
        BY <1>1, <3>1, <4>1 DEF LeafFits
    <3>5. ~nd[x].leaf => InnerFits(nd2, h2, lo2, hi2, x)
      <4>1. ~nd[x].leaf => InnerFits(nd, h, lo, hi, x)
        BY <3>1, NodeIs
      <4> QED
        BY <1>1, <3>1, <4>1 DEF InnerFits
    <3> QED
      BY <3>1, <3>2, <3>3, <3>4, <3>5
  <2> QED
    BY <2>1, <2>2
<1>10. ASSUME NEW j \in DOMAIN nd2 \ {top}
       PROVE  HasFather(nd2, j)
  <2>1. CASE j = r
    <3>1. ~nd2[top].leaf /\ 1 \in DOMAIN nd2[top].vals /\ nd2[top].vals[1] = r
      BY <1>4, <1>5
    <3> QED
      BY <2>1, <3>1 DEF HasFather
  <2>2. CASE j # r
    <3>1. PICK x \in DOMAIN nd : ~nd[x].leaf /\ \E a \in DOMAIN nd[x].vals : nd[x].vals[a] = j
      BY <2>2 DEF TreeOf, HasFather
    <3> QED
      BY <3>1 DEF HasFather
  <2> QED
    BY <2>1, <2>2
<1>11. TreeOf(nd2, top, h2, lo2, hi2)
  <2>1. DOMAIN nd2 \subseteq NodeLba /\ top \in DOMAIN nd2
    BY <1>3
  <2>2. h2[top] \in Nat /\ h2[top] + 1 <= Cardinality(DOMAIN nd2)
    <3>1. Cardinality(DOMAIN nd) \in Nat /\ Cardinality(DOMAIN nd2) = Cardinality(DOMAIN nd) + 1
      BY <1>3, OneMore
    <3> QED
      BY <1>2, <1>3, <3>1
  <2> QED
    BY <1>2, <1>9, <1>10, <2>1, <2>2 DEF TreeOf
<1>12. NoneEmpty(nd2, {top})
  BY DEF NoneEmpty
<1>13. Bound(nd2) = Bound(nd)
  <2>1. {j \in DOMAIN nd2 : nd2[j].leaf} = {j \in DOMAIN nd : nd[j].leaf}
    BY <1>4, <1>5
  <2>2. {Range(nd2[i].keys) : i \in {j \in DOMAIN nd : nd[j].leaf}}
          = {Range(nd[i].keys) : i \in {j \in DOMAIN nd : nd[j].leaf}}
    OBVIOUS
  <2> QED
    BY <2>1, <2>2 DEF Bound
<1> QED
  BY <1>11, <1>12, <1>13

-----------------------------------------------------------------------------
\* A state of insert_block.
IsState(st) ==
    st = [node |-> st.node, space |-> st.space, root |-> st.root, at |-> st.at, status |-> st.status]

\* allocate_node finds a block while there is one.
LEMMA FreshIs ==
    ASSUME NEW st, DOMAIN st.node \subseteq NodeLba, Cardinality(DOMAIN st.node) < Blocks
    PROVE  Fresh(st) \in NodeLba /\ Fresh(st) \notin DOMAIN st.node
<1> DEFINE T == NodeLba \ DOMAIN st.node
<1>1. T # {}
  <2>1. Cardinality(NodeLba) = Blocks
    BY TreeAssumption, FS_Interval DEF NodeLba
  <2>2. Blocks \in Nat
    BY TreeAssumption
  <2>3. ASSUME T = {}
        PROVE  FALSE
    <3>1. DOMAIN st.node = NodeLba
      BY <2>3
    <3> QED
      BY <2>1, <2>2, <3>1
  <2> QED
    BY <2>3
<1>2. \E x \in T : \A y \in T : x <= y
  <2>1. T \in SUBSET Nat
    BY DEF NodeLba
  <2> HIDE DEF T
  <2> QED
    BY <1>1, <2>1, LeastElement
<1>3. Fresh(st) = CHOOSE x \in T : \A y \in T : x <= y
  BY DEF Fresh
<1> HIDE DEF T
<1>4. Fresh(st) \in T
  BY <1>2, <1>3
<1> QED
  BY <1>4 DEF T

\* split_node, of a state whose allocator has a block.
LEMMA SplitIs ==
    ASSUME NEW st, IsState(st), NEW f, NEW i, NEW c, NEW new, NEW k,
           Splittable(st.node, f, i, c, new, k), c \in DOMAIN st.node, c # f, new = Fresh(st),
           NEW s2, s2 = Split(st, f, i)
    PROVE  /\ Splits(st.node, f, i, c, new, k, s2.node)
           /\ s2.space = st.space - 1 /\ s2.root = st.root /\ s2.at = st.at /\ s2.status = st.status
           /\ IsState(s2)
<1>1. PICK nd : /\ nd = st.node /\ nd[f].vals[i] = c /\ f \in DOMAIN nd /\ new \notin DOMAIN nd
                /\ k = nd[c].keys[Middle + 1]
  BY DEF Splittable
<1>2. PICK left, right, father :
        left = Left(nd[c], new) /\ right = Right(nd[c]) /\ father = WithChild(nd[f], i, k, new)
  OBVIOUS
<1>3. PICK nd1 : nd1 = [x \in DOMAIN nd \cup {new} |-> IF x = new THEN right ELSE nd[x]]
  OBVIOUS
<1>4. PICK nd2 : nd2 = [nd1 EXCEPT ![c] = left, ![f] = father]
  OBVIOUS
<1>5. PICK st1 : st1 = [st EXCEPT !.space = st.space - 1, !.node = nd1]
  OBVIOUS
<1>6. /\ st1.space = st.space - 1 /\ st1.node = nd1 /\ st1.root = st.root
      /\ st1.at = st.at /\ st1.status = st.status
      /\ st1 = [node |-> nd1, space |-> st.space - 1, root |-> st.root, at |-> st.at, status |-> st.status]
  BY <1>5 DEF IsState
<1>7. WithNode(st, right) = st1
  BY <1>1, <1>3, <1>5 DEF WithNode
<1>8. s2 = [st1 EXCEPT !.node = nd2]
  BY <1>1, <1>2, <1>4, <1>6, <1>7 DEF Split
<1>9. /\ s2.space = st.space - 1 /\ s2.node = nd2 /\ s2.root = st.root /\ s2.at = st.at
      /\ s2.status = st.status
      /\ s2 = [node |-> nd2, space |-> st.space - 1, root |-> st.root, at |-> st.at, status |-> st.status]
  BY <1>6, <1>8
<1>10. IsState(s2)
  BY <1>9 DEF IsState
<1>11. /\ DOMAIN nd2 = DOMAIN nd \cup {new}
       /\ nd2[f] = father /\ nd2[c] = left /\ nd2[new] = right
       /\ \A x \in DOMAIN nd : x # f /\ x # c => nd2[x] = nd[x]
  BY <1>1, <1>3, <1>4
<1>12. Splits(nd, f, i, c, new, k, nd2)
  BY <1>1, <1>2, <1>11 DEF Splits
<1> QED
  BY <1>1, <1>9, <1>10, <1>12

\* Where node_insert is, on its way down with key k.
Stands(st, k, t, h, lo, hi) ==
    /\ st.at \in DOMAIN st.node /\ Len(st.node[st.at].keys) < M - 1
    /\ Covers(lo, hi, st.at, k) /\ h[st.at] + t <= Blocks - 1

\* insert_block after t calls of node_insert: N is how many blocks are nodes or
\* free, and the leaves had the keys B.
Going(st, k, t, N, B) ==
    /\ IsState(st)
    /\ st.space \in Nat /\ st.space + Cardinality(DOMAIN st.node) = N
    /\ NoneEmpty(st.node, {})
    /\ st.status \in {"go", "done", "lost"}
    /\ Bound(st.node) = IF st.status = "done" THEN B \cup {k} ELSE B
    /\ st.status = "lost" => st.space = 0
    /\ \E h, lo, hi :
        /\ TreeOf(st.node, st.root, h, lo, hi)
        /\ st.status = "go" => Stands(st, k, t, h, lo, hi)

\* Key k meets a full child, at position i of node f.
Meets(st, k, f, i) ==
    /\ f \in DOMAIN st.node /\ ~st.node[f].leaf /\ Len(st.node[f].keys) < M - 1
    /\ i = Index(st.node[f], k) + 1 /\ Full(st.node[st.node[f].vals[i]])

\* A child of node f has been split for the call that goes on at node at2, which
\* has room.
Descends(st, s2, f, at2, k, h) ==
    /\ s2.space = st.space - 1 /\ s2.root = st.root /\ s2.at = st.at /\ s2.status = st.status
    /\ IsState(s2) /\ NoneEmpty(s2.node, {}) /\ Bound(s2.node) = Bound(st.node)
    /\ Cardinality(DOMAIN s2.node) = Cardinality(DOMAIN st.node) + 1
    /\ \E h2, lo2, hi2 :
        /\ TreeOf(s2.node, st.root, h2, lo2, hi2)
        /\ at2 \in DOMAIN s2.node /\ Len(s2.node[at2].keys) < M - 1
        /\ Covers(lo2, hi2, at2, k) /\ h2[at2] + 1 = h[f]

\* It is split and the call goes on below.
LEMMA DownSplit ==
    ASSUME NEW st, IsState(st), NEW h, NEW lo, NEW hi, TreeOf(st.node, st.root, h, lo, hi),
           NEW k \in Key, NEW f, NEW i, Meets(st, k, f, i), Covers(lo, hi, f, k),
           NoneEmpty(st.node, {f}), Cardinality(DOMAIN st.node) < Blocks,
           NEW s2, s2 = Split(st, f, i), NEW at2, at2 = ChildFor(s2.node[f], i, k)
    PROVE  Descends(st, s2, f, at2, k, h)
<1>1. PICK nd, c, new, m : nd = st.node /\ c = nd[f].vals[i] /\ new = Fresh(st) /\ m = nd[c].keys[Middle + 1]
  OBVIOUS
<1>2. PICK nd2 : nd2 = s2.node
  OBVIOUS
<1>3. /\ TreeOf(nd, st.root, h, lo, hi) /\ f \in DOMAIN nd /\ ~nd[f].leaf /\ Full(nd[c])
      /\ i = Index(nd[f], k) + 1
  BY <1>1 DEF Meets
<1>4. new \in NodeLba /\ new \notin DOMAIN nd
  <2>1. DOMAIN st.node \subseteq NodeLba
    BY DEF TreeOf
  <2> QED
    BY <1>1, <2>1, FreshIs
<1>5. k \in Int
  BY KeysAre
<1>6. i \in 1 .. Len(nd[f].vals) /\ Covers(lo, hi, c, k)
  BY <1>1, <1>3, <1>5, ChildFound
<1>7. c \in DOMAIN nd /\ h[c] + 1 = h[f]
  BY <1>1, <1>3, <1>6, ChildIs
<1>8. c # f /\ h[c] \in Int
  <2>1. h[c] \in Nat /\ h[f] \in Nat
    BY <1>3, <1>7, NodeIs
  <2> QED
    BY <1>7, <2>1
<1>9. /\ Splits(nd, f, i, c, new, m, nd2)
      /\ s2.space = st.space - 1 /\ s2.root = st.root /\ s2.at = st.at /\ s2.status = st.status
      /\ IsState(s2)
  <2>1. Splittable(st.node, f, i, c, new, m) /\ c \in DOMAIN st.node /\ new = Fresh(st)
    BY <1>1, <1>3, <1>4, <1>6, <1>7 DEF Meets, Splittable
  <2>2. /\ Splits(st.node, f, i, c, new, m, s2.node)
        /\ s2.space = st.space - 1 /\ s2.root = st.root /\ s2.at = st.at /\ s2.status = st.status
        /\ IsState(s2)
    BY <1>8, <2>1, SplitIs
  <2> QED
    BY <1>1, <1>2, <2>2
<1>10. PICK h2, lo2, hi2 : Parts(nd, c, new, m, h, lo, hi, h2, lo2, hi2)
  BY <1>4, <1>7, PartsExist
<1>11. TreeOf(nd2, st.root, h2, lo2, hi2)
  BY <1>3, <1>9, <1>10, SplitKeeps
<1>12. NoneEmpty(nd2, {})
  <2>1. NoneEmpty(nd, {f})
    BY <1>1
  <2> QED
    BY <1>3, <1>9, <1>10, <2>1, SplitNoneEmpty
<1>13. Bound(nd2) = Bound(nd)
  BY <1>3, <1>9, SplitBound
<1>14. DOMAIN nd2 = DOMAIN nd \cup {new}
  BY <1>9 DEF Splits
<1>15. Cardinality(DOMAIN nd2) = Cardinality(DOMAIN nd) + 1
  <2>1. DOMAIN nd \subseteq NodeLba
    BY <1>3 DEF TreeOf
  <2> QED
    BY <1>4, <1>14, <2>1, OneMore
<1>16. /\ Shaped(nd2[f]) /\ Len(nd2[f].keys) = Len(nd[f].keys) + 1 /\ nd2[f].keys[i] = m
       /\ nd2[f].vals[i + 1] = new
       /\ \A a \in 1 .. i : nd2[f].vals[a] = nd[f].vals[a]
  BY <1>3, <1>9, SplitFather
<1>17. i \in DOMAIN nd2[f].keys /\ nd2[f].vals[i] = c
  <2>1. Len(nd[f].vals) = Len(nd[f].keys) + 1 /\ Len(nd[f].keys) \in Nat
    BY <1>3, NodeIs, ShapedIs
  <2>2. DOMAIN nd2[f].keys = 1 .. Len(nd2[f].keys)
    BY <1>16, ShapedIs
  <2>3. i \in 1 .. i /\ i \in 1 .. Len(nd[f].keys) + 1
    BY <1>6, <2>1
  <2> QED
    BY <1>1, <1>16, <2>2, <2>3
<1>18. at2 = IF k >= m THEN new ELSE c
  BY <1>2, <1>16, <1>17 DEF ChildFor
<1>19. lo[c] <= k /\ k < hi[c]
  BY <1>6 DEF Covers
<1>20. m \in Int
  BY <1>3, <1>9, SplitAt
<1>21. /\ h2[c] = h[c] /\ lo2[c] = lo[c] /\ hi2[c] = m
       /\ h2[new] = h[c] /\ lo2[new] = m /\ hi2[new] = hi[c]
  BY <1>7, <1>10 DEF Parts
<1>22. Len(nd2[c].keys) = Middle /\ Len(nd2[new].keys) < M - 1
  BY <1>3, <1>9, <1>10, LeftFits, RightFits
<1>23. Middle < M - 1
  BY MiddleIs
<1>24. CASE k >= m
  <2>1. at2 = new /\ Covers(lo2, hi2, new, k)
    BY <1>5, <1>18, <1>19, <1>20, <1>21, <1>24 DEF Covers
  <2>2. at2 \in DOMAIN nd2 /\ Len(nd2[at2].keys) < M - 1 /\ Covers(lo2, hi2, at2, k) /\ h2[at2] + 1 = h[f]
    BY <1>7, <1>14, <1>21, <1>22, <2>1
  <2> QED
    BY <1>1, <1>2, <1>9, <1>11, <1>12, <1>13, <1>15, <2>2 DEF Descends
<1>25. CASE ~(k >= m)
  <2>1. at2 = c /\ Covers(lo2, hi2, c, k)
    BY <1>5, <1>18, <1>19, <1>20, <1>21, <1>25 DEF Covers
  <2>2. at2 \in DOMAIN nd2 /\ Len(nd2[at2].keys) < M - 1 /\ Covers(lo2, hi2, at2, k) /\ h2[at2] + 1 = h[f]
    BY <1>7, <1>14, <1>21, <1>22, <1>23, <2>1
  <2> QED
    BY <1>1, <1>2, <1>9, <1>11, <1>12, <1>13, <1>15, <2>2 DEF Descends
<1> QED
  BY <1>24, <1>25

\* One call of node_insert.
LEMMA DownKeeps ==
    ASSUME NEW st, NEW k \in Key, NEW t \in Nat, NEW N \in Nat, N <= Blocks, NEW B, k \notin B,
           Going(st, k, t, N, B), NEW s2, s2 = Down(st, k)
    PROVE  Going(s2, k, t + 1, N, B)
<1>1. /\ IsState(st) /\ st.space \in Nat /\ st.space + Cardinality(DOMAIN st.node) = N
      /\ NoneEmpty(st.node, {}) /\ st.status \in {"go", "done", "lost"}
      /\ Bound(st.node) = IF st.status = "done" THEN B \cup {k} ELSE B
      /\ st.status = "lost" => st.space = 0
  BY DEF Going
<1>2. PICK h, lo, hi : /\ TreeOf(st.node, st.root, h, lo, hi)
                       /\ st.status = "go" => Stands(st, k, t, h, lo, hi)
  BY DEF Going
<1>3. Cardinality(DOMAIN st.node) \in Nat
  BY <1>2, KeysOfTree
<1>4. CASE st.status # "go"
  <2>1. s2 = st
    BY <1>4 DEF Down
  <2> QED
    BY <1>1, <1>2, <1>4, <2>1 DEF Going
<1>5. CASE st.status = "go"
  <2>1. PICK nd, f, n, i, c : nd = st.node /\ f = st.at /\ n = nd[f] /\ i = Index(n, k) + 1 /\ c = n.vals[i]
    OBVIOUS
  <2>2. /\ f \in DOMAIN nd /\ Len(n.keys) < M - 1 /\ Covers(lo, hi, f, k) /\ h[f] + t <= Blocks - 1
        /\ TreeOf(nd, st.root, h, lo, hi) /\ Bound(nd) = B
    BY <1>1, <1>2, <1>5, <2>1 DEF Stands
  <2>3. h[f] \in Nat /\ k \in Int
    BY <2>2, NodeIs, KeysAre
  <2>4. CASE n.leaf
    <3>1. PICK w, nd2 : w = WithKey(n, i, k) /\ nd2 = [nd EXCEPT ![f] = w]
      OBVIOUS
    <3>2. s2 = [st EXCEPT !.status = "done", !.node[st.at] = WithKey(n, i, k)]
      BY <1>5, <2>1, <2>4 DEF Down
    <3>3. s2 = [st EXCEPT !.status = "done", !.node = nd2]
      BY <1>1, <2>1, <3>1, <3>2 DEF IsState
    <3>4. /\ s2.node = nd2 /\ s2.space = st.space /\ s2.root = st.root /\ s2.at = st.at /\ s2.status = "done"
          /\ s2 = [node |-> nd2, space |-> st.space, root |-> st.root, at |-> st.at, status |-> "done"]
      BY <1>1, <3>3 DEF IsState
    <3>5. IsState(s2)
      BY <3>4 DEF IsState
    <3>6. /\ DOMAIN nd2 = DOMAIN nd /\ nd2[f] = WithKey(nd[f], Index(nd[f], k) + 1, k)
          /\ \A x \in DOMAIN nd : x # f => nd2[x] = nd[x]
      BY <2>1, <2>2, <3>1
    <3>7. TreeOf(nd2, st.root, h, lo, hi) /\ NoneEmpty(nd2, {}) /\ Bound(nd2) = Bound(nd) \cup {k}
      <4>1. nd[f].leaf /\ Len(nd[f].keys) < M - 1 /\ k \notin Bound(nd) /\ NoneEmpty(nd, {})
        BY <1>1, <2>1, <2>2, <2>4
      <4> QED
        BY <2>2, <3>6, <4>1, LeafKeeps
    <3>8. s2.space + Cardinality(DOMAIN s2.node) = N
      BY <1>1, <2>1, <3>4, <3>6
    <3> QED
      BY <1>1, <2>2, <3>4, <3>5, <3>7, <3>8 DEF Going
  <2>5. CASE ~n.leaf
    <3>1. i \in 1 .. Len(n.vals) /\ Covers(lo, hi, c, k)
      BY <2>1, <2>2, <2>3, <2>5, ChildFound
    <3>2. c \in DOMAIN nd /\ h[c] + 1 = h[f]
      BY <2>1, <2>2, <2>5, <3>1, ChildIs
    <3>3. h[c] \in Nat /\ Shaped(nd[c])
      BY <2>2, <3>2, NodeIs
    <3>4. CASE Full(nd[c]) /\ st.space = 0
      <4>1. s2 = [st EXCEPT !.status = "lost"]
        BY <1>5, <2>1, <2>5, <3>4 DEF Down
      <4>2. /\ s2.node = nd /\ s2.space = st.space /\ s2.root = st.root /\ s2.at = st.at /\ s2.status = "lost"
            /\ s2 = [node |-> nd, space |-> st.space, root |-> st.root, at |-> st.at, status |-> "lost"]
        BY <1>1, <2>1, <4>1 DEF IsState
      <4>3. IsState(s2)
        BY <4>2 DEF IsState
      <4> QED
        BY <1>1, <2>1, <2>2, <3>4, <4>2, <4>3 DEF Going
    <3>5. CASE Full(nd[c]) /\ st.space # 0
      <4>1. PICK s1 : s1 = Split(st, f, i)
        OBVIOUS
      <4>2. PICK at2 : at2 = ChildFor(s1.node[f], i, k)
        OBVIOUS
      <4>3. Cardinality(DOMAIN st.node) < Blocks
        BY <1>1, <1>3, <3>5, TreeAssumption
      <4>4. NoneEmpty(st.node, {f})
        BY <1>1 DEF NoneEmpty
      <4>5. Descends(st, s1, f, at2, k, h)
        <5>1. Meets(st, k, f, i)
          BY <2>1, <2>2, <2>5, <3>5 DEF Meets
        <5>2. IsState(st) /\ TreeOf(st.node, st.root, h, lo, hi) /\ Covers(lo, hi, f, k)
          BY <1>1, <1>2, <2>2
        <5> QED
          BY <4>1, <4>2, <4>3, <4>4, <5>1, <5>2, DownSplit
      <4>6. s2 = [s1 EXCEPT !.at = at2]
        BY <1>5, <2>1, <2>5, <3>5, <4>1, <4>2 DEF Down
      <4>7. /\ s2.node = s1.node /\ s2.space = s1.space /\ s2.root = s1.root /\ s2.at = at2 /\ s2.status = s1.status
            /\ s2 = [node |-> s1.node, space |-> s1.space, root |-> s1.root, at |-> at2, status |-> s1.status]
        BY <4>5, <4>6 DEF IsState, Descends
      <4>8. IsState(s2)
        BY <4>7 DEF IsState
      <4>9. s2.status = "go" /\ s2.space \in Nat /\ s2.space + Cardinality(DOMAIN s2.node) = N
        BY <1>1, <1>3, <1>5, <3>5, <4>5, <4>7 DEF Descends
      <4>10. PICK h2, lo2, hi2 :
                 /\ TreeOf(s1.node, st.root, h2, lo2, hi2)
                 /\ at2 \in DOMAIN s1.node /\ Len(s1.node[at2].keys) < M - 1
                 /\ Covers(lo2, hi2, at2, k) /\ h2[at2] + 1 = h[f]
        BY <4>5 DEF Descends
      <4>11. h2[at2] + (t + 1) <= Blocks - 1
        <5>1. h2[at2] \in Nat
          BY <4>10, NodeIs
        <5> QED
          BY <2>2, <2>3, <4>10, <5>1, TreeAssumption
      <4>12. TreeOf(s2.node, s2.root, h2, lo2, hi2) /\ Stands(s2, k, t + 1, h2, lo2, hi2)
        BY <4>5, <4>7, <4>10, <4>11 DEF Stands, Descends
      <4>13. NoneEmpty(s2.node, {}) /\ Bound(s2.node) = B
        BY <2>1, <2>2, <4>5, <4>7 DEF Descends
      <4> QED
        BY <4>8, <4>9, <4>12, <4>13 DEF Going
    <3>6. CASE ~Full(nd[c])
      <4>1. PICK at2 : at2 = ChildFor(n, i, k)
        OBVIOUS
      <4>2. s2 = [st EXCEPT !.at = at2]
        BY <1>5, <2>1, <2>5, <3>6, <4>1 DEF Down
      <4>3. /\ s2.node = nd /\ s2.space = st.space /\ s2.root = st.root /\ s2.at = at2 /\ s2.status = "go"
            /\ s2 = [node |-> nd, space |-> st.space, root |-> st.root, at |-> at2, status |-> "go"]
        BY <1>1, <1>5, <2>1, <4>2 DEF IsState
      <4>4. IsState(s2)
        BY <4>3 DEF IsState
      <4>5. at2 = c
        <5>1. Shaped(n)
          BY <2>1, <2>2, NodeIs
        <5>2. DOMAIN n.keys = 1 .. Len(n.keys) /\ \A a \in 1 .. Len(n.keys) : n.keys[a] \in Int
          BY <5>1, ShapedIs, KeysAre
        <5>3. /\ Index(n, k) \in 0 .. Len(n.keys)
              /\ \A a \in 1 .. Len(n.keys) : a <= Index(n, k) <=> n.keys[a] <= k
          BY <2>3, <5>1, IndexIs
        <5>4. PICK m : m = Index(n, k)
          OBVIOUS
        <5>5. m \in Int /\ i = m + 1 /\ ~(i <= m)
          BY <2>1, <5>3, <5>4
        <5>6. ~(i \in DOMAIN n.keys /\ k >= n.keys[i])
          BY <2>3, <5>2, <5>3, <5>4, <5>5
        <5> QED
          BY <2>1, <4>1, <5>6 DEF ChildFor
      <4>6. Len(nd[c].keys) < M - 1
        <5>1. Len(nd[c].keys) \in Nat /\ Len(nd[c].keys) < M /\ Len(nd[c].keys) # M - 1 /\ M \in Nat
          BY <3>3, <3>6, ShapedIs, TreeAssumption DEF Full
        <5> QED
          BY <5>1
      <4>7. h[c] + (t + 1) <= Blocks - 1
        BY <2>2, <2>3, <3>2, <3>3, TreeAssumption
      <4>8. Stands(s2, k, t + 1, h, lo, hi)
        BY <3>1, <3>2, <4>3, <4>5, <4>6, <4>7 DEF Stands
      <4>9. TreeOf(s2.node, s2.root, h, lo, hi) /\ Bound(s2.node) = B /\ NoneEmpty(s2.node, {})
        BY <1>1, <2>1, <2>2, <4>3
      <4>10. s2.space \in Nat /\ s2.space + Cardinality(DOMAIN s2.node) = N
        BY <1>1, <2>1, <4>3
      <4> QED
        BY <4>3, <4>4, <4>8, <4>9, <4>10 DEF Going
    <3> QED
      BY <3>4, <3>5, <3>6
  <2> QED
    BY <2>4, <2>5
<1> QED
  BY <1>4, <1>5

\* node_insert, as any function of the calls.
IsCalls(f, st, k, n) == f = [t \in 0 .. n |-> IF t = 0 THEN st ELSE Down(f[t - 1], k)]

LEMMA CallsExist ==
    ASSUME NEW st, NEW k, NEW n \in Nat
    PROVE  \E f : IsCalls(f, st, k, n)
<1> DEFINE S == {m \in Nat : \E f : IsCalls(f, st, k, m)}
<1>1. 0 \in S
  <2>1. IsCalls([t \in 0 .. 0 |-> st], st, k, 0)
    BY DEF IsCalls
  <2> QED
    BY <2>1
<1>2. ASSUME NEW m \in Nat, NEW f, IsCalls(f, st, k, m)
      PROVE  \E g : IsCalls(g, st, k, m + 1)
  <2> DEFINE g == [t \in 0 .. m + 1 |-> IF t = m + 1 THEN Down(f[m], k) ELSE f[t]]
  <2>1. \A t \in 0 .. m : g[t] = f[t]
    OBVIOUS
  <2>2. g[m + 1] = Down(f[m], k)
    OBVIOUS
  <2>3. \A t \in 0 .. m : f[t] = IF t = 0 THEN st ELSE Down(f[t - 1], k)
    BY <1>2 DEF IsCalls
  <2>4. DOMAIN g = 0 .. m + 1 /\ g = [t \in DOMAIN g |-> g[t]]
    OBVIOUS
  <2> HIDE DEF g
  <2>5. \A t \in 0 .. m + 1 : g[t] = IF t = 0 THEN st ELSE Down(g[t - 1], k)
    <3> SUFFICES ASSUME NEW t \in 0 .. m + 1
                 PROVE  g[t] = IF t = 0 THEN st ELSE Down(g[t - 1], k)
      OBVIOUS
    <3>1. CASE t = 0
      BY <2>1, <2>3, <3>1
    <3>2. CASE t = m + 1
      <4>1. t - 1 = m /\ m \in 0 .. m /\ t # 0
        BY <3>2
      <4> QED
        BY <2>1, <2>2, <3>2, <4>1
    <3>3. CASE t \in 1 .. m
      <4>1. t \in 0 .. m /\ t - 1 \in 0 .. m /\ t # 0
        BY <3>3
      <4> QED
        BY <2>1, <2>3, <4>1
    <3> QED
      BY <3>1, <3>2, <3>3
  <2>6. IsCalls(g, st, k, m + 1)
    BY <2>4, <2>5 DEF IsCalls
  <2> QED
    BY <2>6
<1>3. ASSUME NEW m \in 1 .. n, m - 1 \in S
      PROVE  m \in S
  <2>1. m - 1 \in Nat /\ (m - 1) + 1 = m /\ m \in Nat
    OBVIOUS
  <2>2. \E g : IsCalls(g, st, k, (m - 1) + 1)
    BY <1>2, <1>3, <2>1
  <2> QED
    BY <2>1, <2>2
<1> HIDE DEF S
<1>4. n \in S
  BY <1>1, <1>3, Upward
<1> QED
  BY <1>4 DEF S

\* The calls end, since no tree is higher than it has nodes, and leave what
\* node_insert promises.
LEMMA NodeInsertIs ==
    ASSUME NEW st, NEW k \in Key, NEW N \in Nat, N <= Blocks, NEW B, k \notin B,
           Going(st, k, 0, N, B), NEW s2, s2 = NodeInsert(st, k)
    PROVE  Going(s2, k, Blocks, N, B) /\ s2.status \in {"done", "lost"}
<1>1. PICK f : f = CHOOSE g : IsCalls(g, st, k, Blocks)
  OBVIOUS
<1>2. s2 = f[Blocks]
  BY <1>1 DEF NodeInsert, IsCalls
<1>3. Blocks \in Nat
  BY TreeAssumption
<1>4. IsCalls(f, st, k, Blocks)
  BY <1>1, <1>3, CallsExist
<1>5. \A t \in 0 .. Blocks : f[t] = IF t = 0 THEN st ELSE Down(f[t - 1], k)
  BY <1>4 DEF IsCalls
<1> DEFINE S == {t \in Nat : Going(f[t], k, t, N, B)}
<1>6. 0 \in S
  BY <1>3, <1>5
<1>7. ASSUME NEW t \in 1 .. Blocks, t - 1 \in S
      PROVE  t \in S
  <2>1. t - 1 \in Nat /\ Going(f[t - 1], k, t - 1, N, B) /\ (t - 1) + 1 = t /\ t \in Nat
    BY <1>7
  <2>2. f[t] = Down(f[t - 1], k)
    BY <1>3, <1>5
  <2>3. Going(f[t], k, (t - 1) + 1, N, B)
    BY <2>1, <2>2, DownKeeps
  <2> QED
    BY <2>1, <2>3
<1> HIDE DEF S
<1>8. Blocks \in S
  BY <1>3, <1>6, <1>7, Upward
<1>9. Going(s2, k, Blocks, N, B)
  BY <1>2, <1>8 DEF S
<1>10. s2.status # "go"
  <2> SUFFICES ASSUME s2.status = "go" PROVE FALSE
    OBVIOUS
  <2>1. PICK h, lo, hi : TreeOf(s2.node, s2.root, h, lo, hi) /\ Stands(s2, k, Blocks, h, lo, hi)
    BY <1>9 DEF Going
  <2>2. s2.at \in DOMAIN s2.node /\ h[s2.at] + Blocks <= Blocks - 1
    BY <2>1 DEF Stands
  <2>3. h[s2.at] \in Nat
    BY <2>1, <2>2, NodeIs
  <2> QED
    BY <1>3, <2>2, <2>3
<1>11. s2.status \in {"go", "done", "lost"}
  BY <1>9 DEF Going
<1> QED
  BY <1>9, <1>10, <1>11

\* What has been refused stays so.
LEMMA RefusedIs ==
    ASSUME NEW st, NEW k, st.status = "refused"
    PROVE  NodeInsert(st, k) = st
<1>1. PICK f : f = CHOOSE g : IsCalls(g, st, k, Blocks)
  OBVIOUS
<1>2. NodeInsert(st, k) = f[Blocks] /\ Blocks \in Nat
  BY <1>1, TreeAssumption DEF NodeInsert, IsCalls
<1>3. IsCalls(f, st, k, Blocks)
  BY <1>1, <1>2, CallsExist
<1>4. \A t \in 0 .. Blocks : f[t] = IF t = 0 THEN st ELSE Down(f[t - 1], k)
  BY <1>3 DEF IsCalls
<1> DEFINE S == {t \in Nat : f[t] = st}
<1>5. 0 \in S
  BY <1>2, <1>4
<1>6. ASSUME NEW t \in 1 .. Blocks, t - 1 \in S
      PROVE  t \in S
  <2>1. t \in Nat /\ f[t - 1] = st
    BY <1>6
  <2>2. f[t] = Down(st, k)
    BY <1>2, <1>4, <2>1
  <2> QED
    BY <2>1, <2>2 DEF Down
<1> HIDE DEF S
<1>7. Blocks \in S
  BY <1>2, <1>5, <1>6, Upward
<1> QED
  BY <1>2, <1>7 DEF S

\* insert has found no block for the new root, or none for its second child.
Refuses(st, s) ==
    /\ IsState(s) /\ s.status = "refused" /\ s.node = st.node /\ s.root = st.root /\ s.space = 0

\* A tree can take a key from its root on.
LEMMA StandsAtRoot ==
    ASSUME NEW st, NEW h, NEW lo, NEW hi, TreeOf(st.node, st.root, h, lo, hi), st.at = st.root,
           Len(st.node[st.root].keys) < M - 1, NEW k \in Key, Cardinality(DOMAIN st.node) <= Blocks
    PROVE  Stands(st, k, 0, h, lo, hi)
<1>1. /\ st.root \in DOMAIN st.node /\ h[st.root] \in Nat
      /\ h[st.root] + 1 <= Cardinality(DOMAIN st.node) /\ lo[st.root] = 0 /\ hi[st.root] = Top
  BY DEF TreeOf
<1>2. Cardinality(DOMAIN st.node) \in Nat /\ Blocks \in Nat
  BY KeysOfTree, TreeAssumption
<1>3. Covers(lo, hi, st.root, k)
  BY <1>1, KeysAre DEF Covers
<1> QED
  BY <1>1, <1>2, <1>3 DEF Stands

LEMMA GrowRootIs ==
    ASSUME NEW st, IsState(st), st.status = "go", st.at = st.root,
           NEW h, NEW lo, NEW hi, TreeOf(st.node, st.root, h, lo, hi), NoneEmpty(st.node, {}),
           st.space \in Nat, NEW N, N = st.space + Cardinality(DOMAIN st.node), N <= Blocks,
           NEW k \in Key, NEW B, B = Bound(st.node), NEW s, s = GrowRoot(st)
    PROVE  Going(s, k, 0, N, B) \/ Refuses(st, s)
<1>1. PICK nd, r, space0 : nd = st.node /\ r = st.root /\ space0 = st.space
  OBVIOUS
<1>2. /\ DOMAIN nd \subseteq NodeLba /\ r \in DOMAIN nd /\ TreeOf(nd, r, h, lo, hi)
      /\ Cardinality(DOMAIN nd) \in Nat /\ Blocks \in Nat /\ space0 \in Nat
      /\ N = space0 + Cardinality(DOMAIN nd)
  BY <1>1, KeysOfTree, TreeAssumption DEF TreeOf
<1>3. Shaped(nd[r]) /\ Len(nd[r].keys) \in Nat /\ Len(nd[r].keys) < M /\ M \in Nat
  BY <1>2, NodeIs, ShapedIs, TreeAssumption DEF Shaped
<1>4. CASE ~Full(nd[r])
  <2>1. s = st
    BY <1>1, <1>4 DEF GrowRoot
  <2>2. Len(st.node[st.root].keys) < M - 1
    BY <1>1, <1>3, <1>4 DEF Full
  <2>3. Stands(st, k, 0, h, lo, hi)
    BY <1>1, <1>2, <2>2, StandsAtRoot
  <2>4. Going(st, k, 0, N, B)
    BY <2>3 DEF Going
  <2> QED
    BY <2>1, <2>4
<1>5. CASE Full(nd[r]) /\ space0 = 0
  <2>1. s = [st EXCEPT !.status = "refused"]
    BY <1>1, <1>5 DEF GrowRoot
  <2>2. /\ s.node = nd /\ s.space = 0 /\ s.root = r /\ s.at = st.at /\ s.status = "refused"
        /\ s = [node |-> nd, space |-> 0, root |-> r, at |-> st.at, status |-> "refused"]
    BY <1>1, <1>5, <2>1 DEF IsState
  <2> QED
    BY <1>1, <2>2 DEF IsState, Refuses
<1>6. CASE Full(nd[r]) /\ space0 = 1
  <2>1. s = [st EXCEPT !.status = "refused", !.space = 0]
    BY <1>1, <1>6 DEF GrowRoot
  <2>2. /\ s.node = nd /\ s.space = 0 /\ s.root = r /\ s.at = st.at /\ s.status = "refused"
        /\ s = [node |-> nd, space |-> 0, root |-> r, at |-> st.at, status |-> "refused"]
    BY <1>1, <1>6, <2>1 DEF IsState
  <2> QED
    BY <1>1, <2>2 DEF IsState, Refuses
<1>7. CASE Full(nd[r]) /\ space0 # 0 /\ space0 # 1
  <2>1. PICK top, nd1 :
          top = Fresh(st) /\ nd1 = [x \in DOMAIN nd \cup {top} |-> IF x = top THEN FatherOf(r) ELSE nd[x]]
    OBVIOUS
  <2>2. top \in NodeLba /\ top \notin DOMAIN nd
    <3>1. Cardinality(DOMAIN st.node) < Blocks /\ DOMAIN st.node \subseteq NodeLba
      BY <1>1, <1>2, <1>7
    <3> QED
      BY <1>1, <2>1, <3>1, FreshIs
  <2>3. /\ DOMAIN nd1 = DOMAIN nd \cup {top} /\ nd1[top] = FatherOf(r)
        /\ \A x \in DOMAIN nd : nd1[x] = nd[x]
    BY <2>1, <2>2
  <2>4. PICK st1 : st1 = WithNode(st, FatherOf(r))
    OBVIOUS
  <2>5. st1 = [st EXCEPT !.space = st.space - 1, !.node = nd1]
    BY <1>1, <2>1, <2>4 DEF WithNode
  <2>6. /\ st1.node = nd1 /\ st1.space = space0 - 1 /\ st1.root = r /\ st1.at = st.at /\ st1.status = "go"
        /\ st1 = [node |-> nd1, space |-> space0 - 1, root |-> r, at |-> st.at, status |-> "go"]
    BY <1>1, <2>5 DEF IsState
  <2>7. IsState(st1)
    BY <2>6 DEF IsState
  <2>8. NoneEmpty(nd, {})
    BY <1>1
  <2>9. /\ \E h1, lo1, hi1 : TreeOf(nd1, top, h1, lo1, hi1)
        /\ NoneEmpty(nd1, {top}) /\ Bound(nd1) = Bound(nd)
    BY <1>2, <2>2, <2>3, <2>8, TopKeeps
  <2>10. PICK h1, lo1, hi1 : TreeOf(nd1, top, h1, lo1, hi1)
    BY <2>9
  <2>11. Cardinality(DOMAIN nd1) = Cardinality(DOMAIN nd) + 1
    BY <1>2, <2>2, <2>3, OneMore
  <2>12. PICK new, m : new = Fresh(st1) /\ m = nd1[r].keys[Middle + 1]
    OBVIOUS
  <2>13. new \in NodeLba /\ new \notin DOMAIN nd1 /\ DOMAIN nd1 \subseteq NodeLba
    <3>1. Cardinality(DOMAIN nd1) < Blocks
      BY <1>2, <1>7, <2>11
    <3>2. DOMAIN nd1 \subseteq NodeLba
      BY <1>2, <2>2, <2>3
    <3>3. Cardinality(DOMAIN st1.node) < Blocks /\ DOMAIN st1.node \subseteq NodeLba
      BY <2>6, <3>1, <3>2
    <3> QED
      BY <2>6, <2>12, <3>2, <3>3, FreshIs
  <2>14. /\ ~nd1[top].leaf /\ nd1[top].keys = <<>> /\ Len(nd1[top].keys) = 0
         /\ nd1[top].vals = <<r>> /\ Len(nd1[top].vals) = 1 /\ nd1[top].vals[1] = r
    BY <2>3 DEF FatherOf
  <2>15. Splittable(nd1, top, 1, r, new, m) /\ r \in DOMAIN nd1 /\ r # top
    <3>1. top \in DOMAIN nd1 /\ r \in DOMAIN nd1 /\ r # top /\ nd1[r] = nd[r]
      BY <1>2, <2>2, <2>3
    <3>2. 0 < M - 1 /\ 1 \in 1 .. 1
      BY TreeAssumption
    <3> QED
      BY <1>7, <2>12, <2>13, <2>14, <3>1, <3>2 DEF Splittable
  <2>16. PICK s2 : s2 = Split(st1, top, 1)
    OBVIOUS
  <2>17. /\ Splits(nd1, top, 1, r, new, m, s2.node)
         /\ s2.space = st1.space - 1 /\ s2.root = st1.root /\ s2.at = st1.at /\ s2.status = st1.status
         /\ IsState(s2)
    <3>1. Splittable(st1.node, top, 1, r, new, m) /\ r \in DOMAIN st1.node
      BY <2>6, <2>15
    <3>2. Splits(st1.node, top, 1, r, new, m, s2.node)
      BY <2>7, <2>12, <2>15, <2>16, <3>1, SplitIs
    <3>3. /\ s2.space = st1.space - 1 /\ s2.root = st1.root /\ s2.at = st1.at /\ s2.status = st1.status
          /\ IsState(s2)
      BY <2>7, <2>12, <2>15, <2>16, <3>1, SplitIs
    <3> QED
      BY <2>6, <3>2, <3>3
  <2>18. PICK nd2 : nd2 = s2.node
    OBVIOUS
  <2>19. Splits(nd1, top, 1, r, new, m, nd2)
    BY <2>17, <2>18
  <2>20. PICK h2, lo2, hi2 : Parts(nd1, r, new, m, h1, lo1, hi1, h2, lo2, hi2)
    BY <2>13, <2>15, PartsExist
  <2>21. TreeOf(nd2, top, h2, lo2, hi2)
    BY <2>10, <2>19, <2>20, SplitKeeps
  <2>22. NoneEmpty(nd2, {})
    BY <2>9, <2>10, <2>19, <2>20, SplitNoneEmpty
  <2>23. Bound(nd2) = B
    <3>1. Bound(nd2) = Bound(nd1)
      BY <2>10, <2>19, SplitBound
    <3> QED
      BY <1>1, <2>9, <3>1
  <2>24. Cardinality(DOMAIN nd2) = Cardinality(DOMAIN nd) + 2
    <3>1. DOMAIN nd2 = DOMAIN nd1 \cup {new}
      BY <2>19 DEF Splits
    <3>2. Cardinality(DOMAIN nd2) = Cardinality(DOMAIN nd1) + 1
      BY <2>13, <3>1, OneMore
    <3> QED
      BY <1>2, <2>11, <3>2
  <2>25. Len(nd2[top].keys) = 1
    <3>1. Len(nd2[top].keys) = Len(nd1[top].keys) + 1
      BY <2>10, <2>19, SplitFather
    <3> QED
      BY <2>14, <3>1
  <2>26. s = [s2 EXCEPT !.root = top, !.at = top]
    <3>1. FatherOf(st.root) = FatherOf(r)
      BY <1>1
    <3>2. s = [Split(WithNode(st, FatherOf(st.root)), Fresh(st), 1) EXCEPT !.root = Fresh(st), !.at = Fresh(st)]
      BY <1>1, <1>7 DEF GrowRoot, FatherOf
    <3> QED
      BY <2>1, <2>4, <2>16, <3>1, <3>2
  <2>27. /\ s.node = nd2 /\ s.space = s2.space /\ s.root = top /\ s.at = top /\ s.status = s2.status
         /\ s = [node |-> nd2, space |-> s2.space, root |-> top, at |-> top, status |-> s2.status]
    BY <2>17, <2>18, <2>26 DEF IsState
  <2>28. IsState(s)
    BY <2>27 DEF IsState
  <2>29. s.space = space0 - 2 /\ s.status = "go"
    BY <1>2, <2>6, <2>17, <2>27
  <2>30. s.space \in Nat /\ s.space + Cardinality(DOMAIN s.node) = N
    BY <1>2, <1>7, <2>24, <2>27, <2>29
  <2>31. TreeOf(s.node, s.root, h2, lo2, hi2) /\ NoneEmpty(s.node, {}) /\ Bound(s.node) = B
    BY <2>21, <2>22, <2>23, <2>27
  <2>32. Stands(s, k, 0, h2, lo2, hi2)
    <3>1. Len(s.node[s.root].keys) < M - 1 /\ s.at = s.root
      <4>1. s.node[s.root] = nd2[top] /\ s.at = s.root
        BY <2>27
      <4>2. 1 < M - 1
        BY TreeAssumption
      <4> QED
        BY <2>25, <4>1, <4>2
    <3>2. Cardinality(DOMAIN s.node) <= Blocks
      BY <1>2, <2>24, <2>27, <2>30
    <3> QED
      BY <2>31, <3>1, <3>2, StandsAtRoot
  <2>33. Going(s, k, 0, N, B)
    BY <2>28, <2>29, <2>30, <2>31, <2>32 DEF Going
  <2> QED
    BY <2>33
<1> QED
  BY <1>4, <1>5, <1>6, <1>7

-----------------------------------------------------------------------------
\* Key k is new, and one block more is a value of the tree.
Adds(k) ==
    /\ k \in Key /\ k \notin Bound(node) /\ Bound(node') = Bound(node) \cup {k}
    /\ space' + Cardinality(DOMAIN node') + 1 = space + Cardinality(DOMAIN node)

\* The disk is full, and some blocks may be lost.
Fills ==
    /\ Bound(node') = Bound(node) /\ space' = 0
    /\ Cardinality(DOMAIN node') + 1 <= space + Cardinality(DOMAIN node)

\* The file has a tree after the step.
TreeStays ==
    /\ root' # NoNode /\ NoneEmpty(node', {})
    /\ \E h, lo, hi : TreeOf(node', root', h, lo, hi)
    /\ space' \in Nat

\* write_data's insertion into a tree.
LEMMA InsertIs ==
    ASSUME IndexInv, NEW k \in Key, Insert(k)
    PROVE  /\ TreeStays /\ direct' = direct /\ taken' = taken
           /\ ret' = [op |-> "insert", key |-> k, ok |-> ret'.ok] /\ ret'.ok \in BOOLEAN
           /\ \/ node' = node /\ root' = root /\ space' = space /\ ~ret'.ok
              \/ Adds(k) /\ ret'.ok
              \/ Fills
<1>1. root # NoNode /\ ~Has(k) /\ direct' = direct /\ taken' = taken
  BY DEF Insert
<1>2. ~direct /\ NoneEmpty(node, {}) /\ space \in Nat /\ Blocks \in Nat
  BY <1>1, TreeAssumption DEF IndexInv
<1>3. PICK h, lo, hi : TreeOf(node, root, h, lo, hi)
  BY <1>1 DEF IndexInv
<1>4. PICK B : B = Bound(node)
  OBVIOUS
<1>5. k \notin B
  BY <1>1, <1>3, <1>4, HasIs
<1>6. CASE space = 0
  <2>1. node' = node /\ root' = root /\ space' = space /\ ret' = [op |-> "insert", key |-> k, ok |-> FALSE]
    BY <1>6 DEF Insert, Returns
  <2>2. TreeStays
    BY <1>1, <1>2, <1>3, <2>1 DEF TreeStays
  <2> QED
    BY <1>1, <2>1, <2>2
<1>7. CASE space # 0
  <2>1. PICK st0 : st0 = [node |-> node, space |-> space - 1, root |-> root, at |-> root, status |-> "go"]
    OBVIOUS
  <2>2. PICK st1 : st1 = GrowRoot(st0)
    OBVIOUS
  <2>3. PICK st : st = NodeInsert(st1, k)
    OBVIOUS
  <2>4. /\ node' = st.node /\ root' = st.root /\ space' = st.space
        /\ ret' = [op |-> "insert", key |-> k, ok |-> st.status # "refused"]
    BY <1>7, <2>1, <2>2, <2>3 DEF Insert, Returns
  <2>5. /\ st0.node = node /\ st0.space = space - 1 /\ st0.root = root /\ st0.at = root /\ st0.status = "go"
        /\ IsState(st0)
    BY <2>1 DEF IsState
  <2>6. PICK N : N = space - 1 + Cardinality(DOMAIN node)
    OBVIOUS
  <2>7. N \in Nat /\ N <= Blocks /\ Cardinality(DOMAIN node) \in Nat /\ space - 1 \in Nat
    <3>1. Cardinality(DOMAIN node) \in Nat /\ Cardinality(Bound(node)) \in Nat
      BY TreeAndValues
    <3>2. /\ taken \in Nat
          /\ space + taken + Cardinality(DOMAIN node) + Cardinality(Bound(node)) + (IF direct THEN 1 ELSE 0) <= Blocks
      BY DEF IndexInv, Accounted
    <3> QED
      BY <1>2, <1>7, <2>6, <3>1, <3>2
  <2>8. Going(st1, k, 0, N, B) \/ Refuses(st0, st1)
    <3>1. TreeOf(st0.node, st0.root, h, lo, hi) /\ NoneEmpty(st0.node, {}) /\ st0.at = st0.root
      BY <1>2, <1>3, <2>5
    <3>2. st0.space \in Nat /\ N = st0.space + Cardinality(DOMAIN st0.node) /\ B = Bound(st0.node)
      BY <1>4, <2>5, <2>6, <2>7
    <3> QED
      BY <2>2, <2>5, <2>7, <3>1, <3>2, GrowRootIs
  <2>9. CASE Going(st1, k, 0, N, B)
    <3>1. Going(st, k, Blocks, N, B) /\ st.status \in {"done", "lost"}
      BY <1>5, <2>3, <2>7, <2>9, NodeInsertIs
    <3>2. /\ st.space \in Nat /\ st.space + Cardinality(DOMAIN st.node) = N /\ NoneEmpty(st.node, {})
          /\ Bound(st.node) = IF st.status = "done" THEN B \cup {k} ELSE B
          /\ st.status = "lost" => st.space = 0
      BY <3>1 DEF Going
    <3>3. PICK h2, lo2, hi2 : TreeOf(st.node, st.root, h2, lo2, hi2)
      BY <3>1 DEF Going
    <3>4. st.root # NoNode
      BY <3>3 DEF TreeOf, NodeLba, NoNode
    <3>5. TreeStays
      BY <2>4, <3>2, <3>3, <3>4 DEF TreeStays
    <3>6. Cardinality(DOMAIN st.node) \in Nat
      BY <3>3, KeysOfTree
    <3>7. CASE st.status = "done"
      <4>1. Adds(k)
        BY <1>2, <1>4, <1>5, <2>4, <2>6, <2>7, <3>2, <3>6, <3>7 DEF Adds
      <4>2. ret' = [op |-> "insert", key |-> k, ok |-> TRUE] /\ ret'.ok
        BY <2>4, <3>7
      <4> QED
        BY <1>1, <3>5, <4>1, <4>2
    <3>8. CASE st.status = "lost"
      <4>1. Fills
        BY <1>2, <1>4, <2>4, <2>6, <2>7, <3>2, <3>6, <3>8 DEF Fills
      <4> QED
        BY <1>1, <2>4, <3>5, <4>1
    <3> QED
      BY <3>1, <3>7, <3>8
  <2>10. CASE Refuses(st0, st1)
    <3>1. st = st1 /\ st.node = node /\ st.root = root /\ st.space = 0
      BY <2>3, <2>5, <2>10, RefusedIs DEF Refuses
    <3>2. TreeStays
      BY <1>1, <1>2, <1>3, <2>4, <3>1 DEF TreeStays
    <3>3. Fills
      BY <1>2, <1>7, <2>4, <2>7, <3>1 DEF Fills
    <3> QED
      BY <1>1, <2>4, <3>2, <3>3
  <2> QED
    BY <2>8, <2>9, <2>10
<1> QED
  BY <1>6, <1>7

\* write_data's first block of the index.
LEMMA BuildIs ==
    ASSUME IndexInv, Build, space # 0
    PROVE  /\ TreeStays /\ ~direct' /\ direct /\ taken' = taken /\ root = NoNode
           /\ ret' = [op |-> "build", key |-> 0, ok |-> TRUE]
           /\ space' = space - 1 /\ Bound(node) = {} /\ Bound(node') = {0}
           /\ DOMAIN node = {} /\ Cardinality(DOMAIN node') = 1
<1>1. /\ direct /\ taken' = taken /\ direct' = FALSE /\ space' = space - 1
      /\ root' = Fresh([node |-> node])
      /\ node' = [i \in DOMAIN node \cup {root'} |->
                    IF i = root' THEN [leaf |-> TRUE, keys |-> <<0>>, vals |-> <<0>>, nxt |-> NoNode]
                    ELSE node[i]]
      /\ ret' = [op |-> "build", key |-> 0, ok |-> TRUE]
  BY DEF Build, Returns
<1>2. root = NoNode /\ DOMAIN node = {} /\ space \in Nat /\ Bound(node) = {}
  <2>1. root = NoNode /\ DOMAIN node = {} /\ space \in Nat
    BY <1>1 DEF IndexInv
  <2> QED
    BY <2>1 DEF Bound
<1>3. PICK r, n, nd, st : /\ r = root' /\ nd = node' /\ st = [node |-> node]
                          /\ n = [leaf |-> TRUE, keys |-> <<0>>, vals |-> <<0>>, nxt |-> NoNode]
  OBVIOUS
<1>4. r \in NodeLba
  <2>1. DOMAIN st.node = {} /\ st.node = node
    BY <1>2, <1>3
  <2>2. Cardinality(DOMAIN st.node) < Blocks /\ DOMAIN st.node \subseteq NodeLba
    BY <2>1, FS_EmptySet, TreeAssumption
  <2>3. r = Fresh(st)
    BY <1>1, <1>3
  <2> QED
    BY <2>2, <2>3, FreshIs
<1>5. DOMAIN nd = {r} /\ nd[r] = n
  BY <1>1, <1>2, <1>3
<1>6. n.leaf /\ n.leaf \in BOOLEAN /\ n.keys = <<0>> /\ n.vals = <<0>> /\ n.nxt = NoNode
  BY <1>3
<1>7. Top \in Nat /\ 0 < Top /\ 0 \in Key
  BY TreeAssumption DEF Top, Key
<1>8. Shaped(n)
  <2>1. n.vals \in Seq(Nat) /\ n.keys \in Seq(Key) /\ n.nxt \in Nat
    BY <1>6, <1>7 DEF NoNode
  <2>2. n \in Node
    BY <1>3, <1>6, <2>1 DEF Node
  <2>3. Len(n.keys) < M /\ Len(n.vals) = Len(n.keys)
    BY <1>6, TreeAssumption
  <2>4. Ascending(n.keys)
    BY <1>6 DEF Ascending
  <2>5. Len(n.vals) = Len(n.keys) + 0
    BY <1>6
  <2> QED
    BY <1>6, <2>2, <2>3, <2>4, <2>5 DEF Shaped
<1>9. PICK h, lo, hi : h = [i \in {r} |-> 0] /\ lo = [i \in {r} |-> 0] /\ hi = [i \in {r} |-> Top]
  OBVIOUS
<1>10. h[r] = 0 /\ lo[r] = 0 /\ hi[r] = Top
  BY <1>9
<1>11. Placed(nd, r, h, lo, hi, r)
  BY <1>5, <1>6, <1>7, <1>10 DEF Placed
<1>12. LeafFits(nd, h, lo, hi, r)
  <2>1. DOMAIN n.keys = {1} /\ n.keys[1] = 0
    BY <1>6
  <2>2. \A a \in DOMAIN n.keys : lo[r] <= n.keys[a] /\ n.keys[a] < hi[r]
    BY <1>7, <1>10, <2>1
  <2> QED
    BY <1>5, <1>6, <1>10, <2>2 DEF LeafFits
<1>13. Cardinality(DOMAIN nd) = 1
  BY <1>5, FS_Singleton
<1>14. TreeOf(nd, r, h, lo, hi)
  <2>1. DOMAIN nd \subseteq NodeLba /\ r \in DOMAIN nd /\ h[r] \in Nat /\ h[r] + 1 <= Cardinality(DOMAIN nd)
    BY <1>4, <1>5, <1>10, <1>13
  <2>2. \A i \in DOMAIN nd :
          /\ Shaped(nd[i]) /\ Placed(nd, r, h, lo, hi, i)
          /\ nd[i].leaf => LeafFits(nd, h, lo, hi, i)
          /\ ~nd[i].leaf => InnerFits(nd, h, lo, hi, i)
    BY <1>5, <1>6, <1>8, <1>11, <1>12
  <2>3. \A j \in DOMAIN nd \ {r} : HasFather(nd, j)
    BY <1>5
  <2> QED
    BY <1>10, <2>1, <2>2, <2>3 DEF TreeOf
<1>15. NoneEmpty(nd, {})
  BY <1>5, <1>6 DEF NoneEmpty
<1>16. Bound(nd) = {0}
  <2>1. Range(n.keys) = {0}
    BY <1>6 DEF Range
  <2>2. {j \in DOMAIN nd : nd[j].leaf} = {r}
    BY <1>5, <1>6
  <2> QED
    BY <1>5, <2>1, <2>2 DEF Bound
<1>17. r # NoNode
  BY <1>4 DEF NodeLba, NoNode
<1>18. TreeStays
  BY <1>1, <1>2, <1>3, <1>14, <1>15, <1>17 DEF TreeStays
<1> QED
  BY <1>1, <1>2, <1>3, <1>13, <1>16, <1>18

\* free_inode: all of it comes back.
LEMMA ClearIs ==
    ASSUME IndexInv, Clear
    PROVE  /\ root' = NoNode /\ DOMAIN node' = {} /\ direct' = FALSE /\ taken' = taken
           /\ Bound(node') = {} /\ ret' = [op |-> "clear", key |-> 0, ok |-> TRUE]
           /\ space' = space + Cardinality(DOMAIN node) + Cardinality(Bound(node)) + (IF direct THEN 1 ELSE 0)
<1>1. /\ root' = NoNode /\ direct' = FALSE /\ taken' = taken /\ ret' = [op |-> "clear", key |-> 0, ok |-> TRUE]
      /\ node' = Restrict(node, DOMAIN node \ Reached(root))
      /\ space' = space + Cardinality(Reached(root)) + Cardinality(Values(root)) + (IF direct THEN 1 ELSE 0)
  BY DEF Clear, Returns
<1>2. Reached(root) = DOMAIN node /\ Values(root) = Bound(node)
  BY TreeAndValues
<1>3. DOMAIN node' = {}
  BY <1>1, <1>2 DEF Restrict
<1>4. Bound(node') = {}
  BY <1>3 DEF Bound
<1> QED
  BY <1>1, <1>2, <1>3, <1>4

-----------------------------------------------------------------------------
\* What a step may do to the blocks.
Effects ==
    /\ Accounted' = Accounted \/ (Accounted' < Accounted /\ space' = 0)
    /\ ret'.op = "insert" /\ ret'.ok => ret'.key \in Bound(node') \/ space' = 0

\* The sum of what is owned is one of numbers.
LEMMA AccountedIs ==
    ASSUME IndexInv
    PROVE  /\ space \in Nat /\ taken \in Nat /\ direct \in BOOLEAN /\ Blocks \in Nat /\ 0 \in Key
           /\ Cardinality(DOMAIN node) \in Nat /\ Cardinality(Bound(node)) \in Nat
           /\ Accounted \in Nat /\ Accounted <= Blocks
<1>1. /\ space \in Nat /\ taken \in Nat /\ direct \in BOOLEAN /\ Blocks \in Nat /\ 0 \in Key
      /\ Accounted <= Blocks
  BY TreeAssumption DEF IndexInv, Key
<1>2. Cardinality(DOMAIN node) \in Nat /\ Cardinality(Bound(node)) \in Nat
  BY TreeAndValues
<1> QED
  BY <1>1, <1>2 DEF Accounted

\* Nothing but the counts changes.
LEMMA SameTree ==
    ASSUME IndexInv, node' = node, root' = root, direct' \in BOOLEAN, root # NoNode => ~direct',
           space' \in Nat, taken' \in Nat, Accounted' = Accounted, ret'.ok \in BOOLEAN, ret'.key \in Key,
           ret'.op = "insert" /\ ret'.ok => ret'.key \in Bound(node') \/ space' = 0
    PROVE  IndexInv' /\ Effects
<1>1. Bound(node') = Bound(node)
  OBVIOUS
<1>2. Effects
  BY <1>1 DEF Effects
<1>3. IndexInv'
  <2>1. Accounted' <= Blocks
    BY AccountedIs
  <2>2. IF root' = NoNode THEN DOMAIN node' = {}
        ELSE ~direct' /\ NoneEmpty(node', {}) /\ \E h, lo, hi : TreeOf(node', root', h, lo, hi)
    BY DEF IndexInv
  <2> QED
    BY <2>1, <2>2 DEF IndexInv
<1> QED
  BY <1>2, <1>3

LEMMA FirstBlockKeeps ==
    ASSUME IndexInv, FirstBlock
    PROVE  IndexInv' /\ Effects
<1>1. /\ ~direct /\ root = NoNode /\ space > 0 /\ direct' = TRUE /\ space' = space - 1
      /\ ret' = [op |-> "first", key |-> 0, ok |-> TRUE]
      /\ node' = node /\ root' = root /\ taken' = taken
  BY DEF FirstBlock, Returns
<1>2. Accounted' = Accounted /\ space' \in Nat
  BY <1>1, AccountedIs DEF Accounted
<1>3. ret'.op = "first" /\ ret'.ok = TRUE /\ ret'.key = 0 /\ "first" # "insert"
  BY <1>1
<1> QED
  BY <1>1, <1>2, <1>3, AccountedIs, SameTree

LEMMA OthersKeep ==
    ASSUME IndexInv, OthersTake \/ OthersGive
    PROVE  IndexInv' /\ Effects
<1>1. /\ ret' = [op |-> "other", key |-> 0, ok |-> TRUE]
      /\ node' = node /\ root' = root /\ direct' = direct
  BY DEF OthersTake, OthersGive, Returns
<1>2. \/ space > 0 /\ space' = space - 1 /\ taken' = taken + 1
      \/ taken > 0 /\ space' = space + 1 /\ taken' = taken - 1
  BY DEF OthersTake, OthersGive
<1>3. Accounted' = Accounted /\ space' \in Nat /\ taken' \in Nat
  BY <1>1, <1>2, AccountedIs DEF Accounted
<1>4. ret'.op = "other" /\ ret'.ok = TRUE /\ ret'.key = 0 /\ "other" # "insert"
  BY <1>1
<1>5. root # NoNode => ~direct'
  BY <1>1 DEF IndexInv
<1> QED
  BY <1>1, <1>3, <1>4, <1>5, AccountedIs, SameTree

\* A tree after the step, whose blocks are no more than there were.
LEMMA TreeAfter ==
    ASSUME TreeStays, ~direct', direct' \in BOOLEAN, taken' \in Nat, Accounted' <= Blocks,
           ret'.ok \in BOOLEAN, ret'.key \in Key
    PROVE  IndexInv'
<1>1. root' # NoNode /\ NoneEmpty(node', {}) /\ space' \in Nat
  BY DEF TreeStays
<1>2. \E h, lo, hi : TreeOf(node', root', h, lo, hi)
  BY DEF TreeStays
<1> QED
  BY <1>1, <1>2 DEF IndexInv

LEMMA BuildKeeps ==
    ASSUME IndexInv, Build
    PROVE  IndexInv' /\ Effects
<1>1. CASE space = 0
  <2>1. /\ ret' = [op |-> "build", key |-> 0, ok |-> FALSE]
        /\ node' = node /\ root' = root /\ direct' = direct /\ space' = space /\ taken' = taken
    BY <1>1 DEF Build, Returns
  <2>2. Accounted' = Accounted
    BY <2>1 DEF Accounted
  <2>3. ret'.op = "build" /\ ret'.ok = FALSE /\ ret'.key = 0 /\ "build" # "insert"
    BY <2>1
  <2>4. root # NoNode => ~direct'
    BY <2>1 DEF IndexInv
  <2> QED
    BY <2>1, <2>2, <2>3, <2>4, AccountedIs, SameTree
<1>2. CASE space # 0
  <2>1. /\ TreeStays /\ ~direct' /\ direct /\ taken' = taken
        /\ ret' = [op |-> "build", key |-> 0, ok |-> TRUE]
        /\ space' = space - 1 /\ Bound(node) = {} /\ Bound(node') = {0}
        /\ DOMAIN node = {} /\ Cardinality(DOMAIN node') = 1
    BY <1>2, BuildIs
  <2>2. direct' = FALSE
    BY <1>2 DEF Build
  <2>3. Cardinality(DOMAIN node) = 0 /\ Cardinality(Bound(node)) = 0 /\ Cardinality(Bound(node')) = 1
    BY <2>1, FS_EmptySet, FS_Singleton
  <2>4. Accounted' = Accounted
    BY <1>2, <2>1, <2>2, <2>3, AccountedIs DEF Accounted
  <2>5. ret'.op = "build" /\ ret'.ok = TRUE /\ ret'.key = 0 /\ "build" # "insert"
    BY <2>1
  <2>6. Bound(node') = Bound(node) \cup {0} /\ 0 \notin Bound(node) /\ 0 \in Key
    BY <2>1, AccountedIs
  <2>7. Effects
    BY <2>4, <2>5, <2>6 DEF Effects
  <2>8. IndexInv'
    BY <2>1, <2>2, <2>4, <2>5, AccountedIs, TreeAfter
  <2> QED
    BY <2>7, <2>8
<1> QED
  BY <1>1, <1>2, AccountedIs

LEMMA InsertKeeps ==
    ASSUME IndexInv, NEW k \in Key, Insert(k)
    PROVE  IndexInv' /\ Effects
<1>1. /\ TreeStays /\ direct' = direct /\ taken' = taken
      /\ ret' = [op |-> "insert", key |-> k, ok |-> ret'.ok] /\ ret'.ok \in BOOLEAN
  BY InsertIs
<1>2. ~direct /\ root # NoNode
  BY DEF Insert, IndexInv
<1>3. ret'.key = k
  BY <1>1
<1>4. CASE node' = node /\ root' = root /\ space' = space /\ ~ret'.ok
  <2>1. Accounted' = Accounted
    BY <1>1, <1>4 DEF Accounted
  <2>2. direct' \in BOOLEAN /\ (root # NoNode => ~direct') /\ space' \in Nat /\ taken' \in Nat
    BY <1>1, <1>2, <1>4, AccountedIs
  <2> QED
    BY <1>1, <1>3, <1>4, <2>1, <2>2, SameTree
<1>5. PICK h, lo, hi : TreeOf(node', root', h, lo, hi)
  BY <1>1 DEF TreeStays
<1>6. /\ IsFiniteSet(Bound(node)) /\ space' \in Nat
      /\ Cardinality(DOMAIN node') \in Nat /\ Cardinality(Bound(node')) \in Nat
  BY <1>1, <1>5, TreeAndValues, KeysOfTree DEF TreeStays
<1>7. CASE Adds(k)
  <2>1. Bound(node') = Bound(node) \cup {k} /\ k \notin Bound(node)
    BY <1>7 DEF Adds
  <2>2. Cardinality(Bound(node')) = Cardinality(Bound(node)) + 1
    BY <1>6, <2>1, FS_AddElement
  <2>3. space' + Cardinality(DOMAIN node') + 1 = space + Cardinality(DOMAIN node)
    BY <1>7 DEF Adds
  <2>4. Accounted' = Accounted
    <3>1. PICK a, b, a2, b2 : /\ a = Cardinality(DOMAIN node) /\ b = Cardinality(Bound(node))
                              /\ a2 = Cardinality(DOMAIN node') /\ b2 = Cardinality(Bound(node'))
      OBVIOUS
    <3>2. Accounted = space + taken + a + b + 0
      BY <1>2, <3>1 DEF Accounted
    <3>3. Accounted' = space' + taken + a2 + b2 + 0
      BY <1>1, <1>2, <3>1 DEF Accounted
    <3>4. b2 = b + 1 /\ space' + a2 + 1 = space + a
      BY <2>2, <2>3, <3>1
    <3>5. a \in Nat /\ b \in Nat /\ a2 \in Nat /\ b2 \in Nat /\ space \in Nat /\ space' \in Nat /\ taken \in Nat
      BY <1>6, <3>1, AccountedIs
    <3>6. PICK s, s2, t : s = space /\ s2 = space' /\ t = taken
      OBVIOUS
    <3>7. s + t + a + b + 0 = s2 + t + a2 + b2 + 0
      <4>1. a \in Nat /\ b \in Nat /\ a2 \in Nat /\ b2 \in Nat /\ s \in Nat /\ s2 \in Nat /\ t \in Nat
        BY <3>5, <3>6
      <4>2. s2 + a2 + 1 = s + a
        BY <3>4, <3>6
      <4>3. b2 = b + 1
        BY <3>4
      <4> QED
        BY <4>1, <4>2, <4>3
    <3> QED
      BY <3>2, <3>3, <3>6, <3>7
  <2>5. Effects
    BY <1>3, <2>1, <2>4 DEF Effects
  <2>6. IndexInv'
    BY <1>1, <1>2, <1>3, <2>4, AccountedIs, TreeAfter
  <2> QED
    BY <2>5, <2>6
<1>8. CASE Fills
  <2>1. /\ Bound(node') = Bound(node) /\ space' = 0
        /\ Cardinality(DOMAIN node') + 1 <= space + Cardinality(DOMAIN node)
    BY <1>8 DEF Fills
  <2>2. Accounted' < Accounted
    BY <1>1, <1>2, <1>6, <2>1, AccountedIs DEF Accounted
  <2>3. Effects
    BY <2>1, <2>2 DEF Effects
  <2>4. Accounted' <= Blocks
    <3>1. Accounted' \in Nat
      BY <1>1, <1>2, <1>6, AccountedIs DEF Accounted
    <3> QED
      BY <2>2, <3>1, AccountedIs
  <2>5. IndexInv'
    BY <1>1, <1>2, <1>3, <2>4, AccountedIs, TreeAfter
  <2> QED
    BY <2>3, <2>5
<1> QED
  BY <1>4, <1>7, <1>8, InsertIs

LEMMA ClearKeeps ==
    ASSUME IndexInv, Clear
    PROVE  IndexInv' /\ Effects
<1>1. /\ root' = NoNode /\ DOMAIN node' = {} /\ direct' = FALSE /\ taken' = taken
      /\ Bound(node') = {} /\ ret' = [op |-> "clear", key |-> 0, ok |-> TRUE]
      /\ space' = space + Cardinality(DOMAIN node) + Cardinality(Bound(node)) + (IF direct THEN 1 ELSE 0)
  BY ClearIs
<1>2. Cardinality(DOMAIN node') = 0 /\ Cardinality(Bound(node')) = 0
  BY <1>1, FS_EmptySet
<1>3. Accounted' = Accounted /\ space' \in Nat
  BY <1>1, <1>2, AccountedIs DEF Accounted
<1>4. ret'.op = "clear" /\ ret'.ok = TRUE /\ ret'.key = 0 /\ "clear" # "insert"
  BY <1>1
<1>5. Effects
  BY <1>1, <1>3, <1>4 DEF Effects
<1>6. IndexInv'
  BY <1>1, <1>3, <1>4, AccountedIs DEF IndexInv
<1> QED
  BY <1>5, <1>6

LEMMA NextIndexKeeps ==
    ASSUME IndexInv, NextIndex
    PROVE  IndexInv' /\ Effects
<1>1. CASE FirstBlock
  BY <1>1, FirstBlockKeeps
<1>2. CASE Build
  BY <1>2, BuildKeeps
<1>3. CASE \E k \in Key : Insert(k)
  BY <1>3, InsertKeeps
<1>4. CASE Clear
  BY <1>4, ClearKeeps
<1>5. CASE OthersTake \/ OthersGive
  BY <1>5, OthersKeep
<1> QED
  BY <1>1, <1>2, <1>3, <1>4, <1>5 DEF NextIndex

LEMMA IndexStart == InitIndex => IndexInv
<1> SUFFICES ASSUME InitIndex PROVE IndexInv
  OBVIOUS
<1>1. node = NoTree /\ root = NoNode /\ direct = FALSE /\ space = Blocks /\ taken = 0
      /\ ret.ok = TRUE /\ ret.key = 0
  BY DEF InitIndex
<1>2. DOMAIN node = {}
  BY <1>1 DEF NoTree
<1>3. Bound(node) = {}
  BY <1>2 DEF Bound
<1>4. Cardinality(DOMAIN node) = 0 /\ Cardinality(Bound(node)) = 0
  BY <1>2, <1>3, FS_EmptySet
<1>5. Blocks \in Nat /\ 0 \in Key
  BY TreeAssumption DEF Key
<1>6. Accounted = Blocks
  BY <1>1, <1>4, <1>5 DEF Accounted
<1>7. Accounted <= Blocks /\ space \in Nat /\ taken \in Nat
  BY <1>1, <1>5, <1>6
<1>8. ret.ok \in BOOLEAN /\ ret.key \in Key /\ direct \in BOOLEAN
  BY <1>1, <1>5
<1>9. IF root = NoNode THEN DOMAIN node = {}
      ELSE ~direct /\ NoneEmpty(node, {}) /\ \E h, lo, hi : TreeOf(node, root, h, lo, hi)
  BY <1>1, <1>2
<1> QED
  BY <1>7, <1>8, <1>9 DEF IndexInv

LEMMA IndexStep == IndexInv /\ [NextIndex]_indexVars => IndexInv'
<1> SUFFICES ASSUME IndexInv, [NextIndex]_indexVars PROVE IndexInv'
  OBVIOUS
<1>1. CASE NextIndex
  BY <1>1, NextIndexKeeps
<1>2. CASE UNCHANGED indexVars
  BY <1>2 DEF indexVars, IndexInv, Accounted
<1> QED
  BY <1>1, <1>2

\* Through every insertion, every split of a leaf, of an inner node and of the
\* root, every refused allocation and every clear, the nodes are one tree whose
\* leaves share the keys among them, and no block is counted twice.
THEOREM IndexInvariance == SpecIndex => []IndexInv
  BY IndexStart, IndexStep, PTL DEF SpecIndex

\* A lookup, an insertion and a clear find what they rely on: keys where find
\* looks for them, leaves equally deep, one father for each node and the chain
\* of the leaves.
THEOREM IndexWellFormed == SpecIndex => []WellFormed
<1>1. IndexInv => WellFormed
  BY WellFormedHolds
<1> QED
  BY <1>1, IndexInvariance, PTL

-----------------------------------------------------------------------------
\* What is lost is what nobody owns, and a key is found when a leaf has it.
LostIsRest == Lost = Blocks - Accounted

RetIsFound == Has(ret.key) <=> ret.key \in Bound(node)

KeysFound == \A k \in Key : (Has(k) <=> k \in Bound(node)) /\ (Has(k) => Find(k) = k)

LEMMA FoundWhenBound == IndexInv => KeysFound
<1> SUFFICES ASSUME IndexInv, NEW k \in Key
             PROVE  (Has(k) <=> k \in Bound(node)) /\ (Has(k) => Find(k) = k)
  BY DEF KeysFound
<1>1. CASE root = NoNode
  <2>1. ~Has(k)
    BY <1>1 DEF Has
  <2>2. Bound(node) = {}
    BY <1>1, NoTreeIs DEF IndexInv
  <2> QED
    BY <2>1, <2>2
<1>2. CASE root # NoNode
  <2>1. PICK h, lo, hi : TreeOf(node, root, h, lo, hi)
    BY <1>2 DEF IndexInv
  <2> QED
    BY <1>2, <2>1, HasIs
<1> QED
  BY <1>1, <1>2

LEMMA Accounts == IndexInv => LostIsRest /\ RetIsFound
<1> SUFFICES ASSUME IndexInv PROVE LostIsRest /\ RetIsFound
  OBVIOUS
<1>1. Reached(root) = DOMAIN node /\ Values(root) = Bound(node)
  BY TreeAndValues
<1>2. PICK a, b, d : a = Cardinality(DOMAIN node) /\ b = Cardinality(Bound(node)) /\ d = IF direct THEN 1 ELSE 0
  OBVIOUS
<1>3. Lost = Blocks - space - taken - a - b - d /\ Accounted = space + taken + a + b + d
  BY <1>1, <1>2 DEF Lost, Tree, Accounted
<1>4. space \in Nat /\ taken \in Nat /\ a \in Nat /\ b \in Nat /\ d \in Nat /\ Blocks \in Nat
  BY <1>2, AccountedIs
<1>5. LostIsRest
  BY <1>3, <1>4 DEF LostIsRest
<1>6. ret.key \in Key
  BY DEF IndexInv
<1>7. RetIsFound
  BY <1>6, FoundWhenBound DEF KeysFound, RetIsFound
<1> QED
  BY <1>5, <1>7

AccountedNat == Accounted \in Nat

HarmStep ==
    /\ Lost' # Lost => Lost' > Lost /\ space' = 0
    /\ ret'.op = "insert" /\ ret'.ok /\ ~Has(ret.key)' => space' = 0

LEMMA HarmIs ==
    IndexInv /\ IndexInv' /\ AccountedNat' /\ LostIsRest /\ LostIsRest' /\ RetIsFound' /\ NextIndex => HarmStep
<1> SUFFICES ASSUME IndexInv, IndexInv', AccountedNat', LostIsRest, LostIsRest', RetIsFound', NextIndex PROVE HarmStep
  OBVIOUS
<1>1. Effects
  BY NextIndexKeeps
<1>2. Accounted \in Nat /\ Blocks \in Nat
  BY AccountedIs
<1>3. Accounted' = Accounted \/ (Accounted' < Accounted /\ space' = 0)
  BY <1>1 DEF Effects
<1>4. Lost = Blocks - Accounted /\ Lost' = Blocks - Accounted'
  BY DEF LostIsRest
<1>5. Lost' # Lost => Lost' > Lost /\ space' = 0
  <2>1. PICK a, a2 : a = Accounted /\ a2 = Accounted'
    OBVIOUS
  <2>2. a \in Nat /\ Lost = Blocks - a /\ Lost' = Blocks - a2 /\ (a2 = a \/ (a2 < a /\ space' = 0))
    BY <1>2, <1>3, <1>4, <2>1
  <2>3. a2 \in Nat
    BY <2>1 DEF AccountedNat
  <2> QED
    BY <1>2, <2>2, <2>3
<1>6. Has(ret.key)' <=> ret'.key \in Bound(node')
  BY DEF RetIsFound
<1>7. ret'.op = "insert" /\ ret'.ok => ret'.key \in Bound(node') \/ space' = 0
  BY <1>1 DEF Effects
<1> QED
  BY <1>5, <1>6, <1>7 DEF HarmStep

\* insert ignores whether node_insert could split, and forgets a father whose
\* split is refused: but a block is lost, or a key of an insertion that reports
\* success not found, only by an operation that has used up the last free block.
THEOREM IndexHarm == SpecIndex => HarmOnlyWhenFull
<1>1. IndexInv => LostIsRest /\ RetIsFound /\ AccountedNat
  BY Accounts, AccountedIs DEF AccountedNat
<1>2. IndexInv /\ IndexInv' /\ AccountedNat' /\ LostIsRest /\ LostIsRest' /\ RetIsFound' /\ [NextIndex]_indexVars
        => [HarmStep]_indexVars
  BY HarmIs
<1> QED
  BY <1>1, <1>2, IndexInvariance, PTL DEF SpecIndex, HarmOnlyWhenFull, HarmStep

-----------------------------------------------------------------------------
\* The map is the keys in the leaves, each bound to its own block.
MapIsBound == [k \in {x \in Key : Has(x)} |-> Find(k)] = [k \in Bound(node) |-> k]

LEMMA MapIs == IndexInv => MapIsBound
<1> SUFFICES ASSUME IndexInv PROVE MapIsBound
  OBVIOUS
<1>1. \A k \in Key : (Has(k) <=> k \in Bound(node)) /\ (Has(k) => Find(k) = k)
  BY FoundWhenBound DEF KeysFound
<1>2. Bound(node) \subseteq Key
  BY TreeAndValues
<1>3. {x \in Key : Has(x)} = Bound(node)
  BY <1>1, <1>2
<1>4. \A k \in Bound(node) : Find(k) = k
  BY <1>1, <1>2
<1> QED
  BY <1>3, <1>4 DEF MapIsBound

\* What each call does to the keys.
CallMade ==
    \/ /\ ret'.op \in {"first", "other"} /\ Bound(node') = Bound(node)
    \/ \E good \in BOOLEAN :
        /\ ret' = [op |-> "build", key |-> 0, ok |-> good]
        /\ Bound(node) = {} /\ Bound(node') = IF good THEN {0} ELSE {}
    \/ \E k \in Key, good \in BOOLEAN :
        /\ ret' = [op |-> "insert", key |-> k, ok |-> good]
        /\ k \notin Bound(node)
        /\ Bound(node') = Bound(node) \/ (good /\ Bound(node') = Bound(node) \cup {k})
    \/ ret'.op = "clear" /\ Bound(node') = {}

LEMMA CallsMade ==
    ASSUME IndexInv, NextIndex
    PROVE  CallMade
<1>1. CASE FirstBlock \/ OthersTake \/ OthersGive
  BY <1>1 DEF FirstBlock, OthersTake, OthersGive, Returns, CallMade
<1>2. CASE Build
  <2>1. CASE space = 0
    <3>1. ret' = [op |-> "build", key |-> 0, ok |-> FALSE] /\ node' = node /\ direct
      BY <1>2, <2>1 DEF Build, Returns
    <3>2. DOMAIN node = {}
      BY <3>1 DEF IndexInv
    <3>3. Bound(node) = {} /\ Bound(node') = {}
      BY <3>1, <3>2 DEF Bound
    <3> QED
      BY <3>1, <3>3 DEF CallMade
  <2>2. CASE space # 0
    <3>1. /\ ret' = [op |-> "build", key |-> 0, ok |-> TRUE]
          /\ Bound(node) = {} /\ Bound(node') = {0}
      BY <1>2, <2>2, BuildIs
    <3> QED
      BY <3>1 DEF CallMade
  <2> QED
    BY <2>1, <2>2
<1>3. ASSUME NEW k \in Key, Insert(k)
      PROVE  CallMade
  <2>1. PICK good \in BOOLEAN : ret' = [op |-> "insert", key |-> k, ok |-> good] /\ ret'.ok = good
    BY <1>3, InsertIs
  <2>2. k \notin Bound(node)
    <3>1. root # NoNode /\ ~Has(k)
      BY <1>3 DEF Insert
    <3> QED
      BY <3>1, FoundWhenBound DEF KeysFound
  <2>3. Bound(node') = Bound(node) \/ (good /\ Bound(node') = Bound(node) \cup {k})
    BY <1>3, <2>1, InsertIs DEF Adds, Fills
  <2> QED
    BY <2>1, <2>2, <2>3 DEF CallMade
<1>4. CASE Clear
  <2>1. Bound(node') = {} /\ ret'.op = "clear"
    BY <1>4, ClearIs
  <2> QED
    BY <2>1 DEF CallMade
<1> QED
  BY <1>1, <1>2, <1>3, <1>4 DEF NextIndex

\* The map and the call that BlockMap sees.
TreeMap == [k \in {x \in Key : Has(x)} |-> Find(k)]
TreeCall == [op |-> ret.op, key |-> ret.key, block |-> ret.key, ok |-> ret.ok]

MapCall == [Map!Next]_<<TreeMap, TreeCall>>

LEMMA MapStep ==
    IndexInv /\ MapIsBound /\ MapIsBound' /\ [NextIndex]_indexVars => MapCall
<1> SUFFICES ASSUME IndexInv, MapIsBound, MapIsBound', [NextIndex]_indexVars
             PROVE  MapCall
  OBVIOUS
<1>1. PICK m : m = TreeMap
  OBVIOUS
<1>2. PICK m2 : m2 = TreeMap'
  OBVIOUS
<1>3. PICK c2 : c2 = TreeCall'
  OBVIOUS
<1>4. m = [k \in Bound(node) |-> k] /\ m2 = [k \in Bound(node') |-> k] /\ DOMAIN m = Bound(node)
  BY <1>1, <1>2 DEF MapIsBound, TreeMap
<1>5. c2 = [op |-> ret'.op, key |-> ret'.key, block |-> ret'.key, ok |-> ret'.ok]
  BY <1>3 DEF TreeCall
<1>6. CASE UNCHANGED indexVars
  <2>1. m2 = m
    BY <1>4, <1>6 DEF indexVars
  <2>2. TreeCall' = TreeCall
    BY <1>6 DEF indexVars, TreeCall
  <2> QED
    BY <1>1, <1>2, <2>1, <2>2 DEF MapCall
<1>7. CASE NextIndex
  <2>1. CallMade
    BY <1>7, CallsMade
  <2>2. ASSUME ret'.op \in {"first", "other"}, Bound(node') = Bound(node)
        PROVE  Map!Other
    BY <1>1, <1>2, <1>3, <1>4, <1>5, <2>2 DEF Map!Other, TreeMap, TreeCall
  <2>3. ASSUME NEW good \in BOOLEAN, ret' = [op |-> "build", key |-> 0, ok |-> good],
               Bound(node) = {}, Bound(node') = IF good THEN {0} ELSE {}
        PROVE  Map!Build(0, good)
    <3>1. m = Map!Empty
      BY <1>4, <2>3 DEF Map!Empty
    <3>2. Map!Calls("build", 0, 0, good)
      BY <1>3, <1>5, <2>3 DEF Map!Calls, TreeCall
    <3>3. m2 = IF good THEN [x \in DOMAIN m \cup {0} |-> IF x = 0 THEN 0 ELSE m[x]] ELSE m
      BY <1>4, <2>3
    <3> QED
      BY <1>1, <1>2, <3>1, <3>2, <3>3 DEF Map!Build, Map!With, TreeMap
  <2>4. ASSUME NEW k \in Key, NEW good \in BOOLEAN,
               ret' = [op |-> "insert", key |-> k, ok |-> good], k \notin Bound(node),
               Bound(node') = Bound(node) \/ (good /\ Bound(node') = Bound(node) \cup {k})
        PROVE  Map!Insert(k, k, good)
    <3>1. k \notin DOMAIN m
      BY <1>4, <2>4
    <3>2. Map!Calls("insert", k, k, good)
      BY <1>3, <1>5, <2>4 DEF Map!Calls, TreeCall
    <3>3. m2 = m \/ (good /\ m2 = [x \in DOMAIN m \cup {k} |-> IF x = k THEN k ELSE m[x]])
      BY <1>4, <2>4
    <3> QED
      BY <1>1, <1>2, <3>1, <3>2, <3>3 DEF Map!Insert, Map!With, TreeMap
  <2>5. ASSUME ret'.op = "clear", Bound(node') = {}
        PROVE  Map!Clear
    <3>1. m2 = Map!Empty
      BY <1>4, <2>5 DEF Map!Empty
    <3> QED
      BY <1>2, <1>3, <1>5, <2>5, <3>1 DEF Map!Clear, TreeMap, TreeCall
  <2>6. Map!Next
    <3>1. 0 \in Key
      BY AccountedIs
    <3> QED
      BY <2>1, <2>2, <2>3, <2>4, <2>5, <3>1 DEF CallMade, Map!Next
  <2> QED
    BY <2>6 DEF MapCall
<1> QED
  BY <1>6, <1>7

\* Whatever is split, refused or lost, the tree is the map the index promises: an
\* insertion adds the binding it was called with or nothing, a refused one
\* nothing, and clear alone removes any.
THEOREM IndexImplementation == SpecIndex => ImplementsMap
<1>1. IndexInv => MapIsBound
  BY MapIs
<1>2. InitIndex => Map!Init
  <2> SUFFICES ASSUME InitIndex PROVE Map!Init
    OBVIOUS
  <2>1. MapIsBound
    BY IndexStart, MapIs
  <2>2. Bound(node) = {} /\ ret.op = "none"
    BY DEF InitIndex, NoTree, Bound
  <2> QED
    BY <2>1, <2>2 DEF MapIsBound, Map!Init, Map!Empty
<1>3. IndexInv /\ MapIsBound /\ MapIsBound' /\ [NextIndex]_indexVars => MapCall
  BY MapStep
<1> QED
  BY <1>1, <1>2, <1>3, IndexInvariance, PTL
     DEF SpecIndex, ImplementsMap, Map!Spec, MapCall, TreeMap, TreeCall
=============================================================================

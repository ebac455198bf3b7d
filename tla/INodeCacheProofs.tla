-------------------------- MODULE INodeCacheProofs --------------------------
(***************************************************************************)
(* Proofs about INodeCache, for every number of inodes and every capacity  *)
(* of at least two.                                                        *)
(***************************************************************************)
EXTENDS INodeCache, FiniteSetTheorems, SequenceTheorems, TLAPS

\* A list of cached inodes.
List == {list \in Seq(Inode) : IsInjective(list)}

\* A cache list holds inodes, each at one place.
LEMMA ListFacts ==
    ASSUME NEW list \in List
    PROVE  /\ Len(list) \in Nat /\ DOMAIN list = 1 .. Len(list)
           /\ \A n \in 1 .. Len(list) : list[n] \in Inode
           /\ Range(list) \subseteq Inode
           /\ \A i : Contains(list, i) <=> i \in Range(list)
           /\ \A m, n \in 1 .. Len(list) : list[m] = list[n] => m = n
<1>1. list \in Seq(Inode) /\ IsInjective(list)
  BY DEF List
<1>2. Len(list) \in Nat /\ DOMAIN list = 1 .. Len(list)
  BY <1>1, LenProperties
<1>3. \A n \in 1 .. Len(list) : list[n] \in Inode
  BY <1>1, ElementOfSeq
<1> QED
  BY <1>1, <1>2, <1>3 DEF Range, Contains, IsInjective

\* A function on 1 .. k is a sequence of length k.
LEMMA IsList ==
    ASSUME NEW k \in Nat, NEW f \in [1 .. k -> Inode],
           \A m, n \in 1 .. k : f[m] = f[n] => m = n
    PROVE  f \in List /\ Len(f) = k
<1>1. f \in Seq(Inode)
  BY SeqDef
<1>2. Len(f) \in Nat /\ DOMAIN f = 1 .. Len(f) /\ DOMAIN f = 1 .. k
  BY <1>1, LenProperties
<1>3. Len(f) = k
  BY <1>2
<1> QED
  BY <1>1, <1>2, <1>3 DEF List, IsInjective

\* What a use of the inode i makes of the list.
LEMMA MovedFront ==
    ASSUME NEW list \in List, NEW i \in Inode
    PROVE  /\ ToFront(list, i) \in List
           /\ Range(ToFront(list, i)) = Range(list) \cup {i}
           /\ ToFront(list, i)[1] = i
           /\ Len(ToFront(list, i)) = Len(list) + IF i \in Range(list) THEN 0 ELSE 1
<1> DEFINE at == PlaceIn(list, i)
           k == Len(list) + IF i \in Range(list) THEN 0 ELSE 1
           new == ToFront(list, i)
<1>1. /\ Len(list) \in Nat /\ DOMAIN list = 1 .. Len(list)
      /\ \A n \in 1 .. Len(list) : list[n] \in Inode
      /\ \A m, n \in 1 .. Len(list) : list[m] = list[n] => m = n
  BY ListFacts
<1>0. Contains(list, i) <=> i \in Range(list)
  BY ListFacts
<1>2. /\ at \in 1 .. k /\ k \in Nat
      /\ DOMAIN list \cup {at} = 1 .. k
      /\ i \in Range(list) => list[at] = i
      /\ i \notin Range(list) => at = k
  <2>1. CASE i \in Range(list)
    <3>1. \E n \in DOMAIN list : list[n] = i
      BY <2>1 DEF Range
    <3>2. at \in DOMAIN list /\ list[at] = i
      BY <1>0, <1>1, <2>1, <3>1 DEF PlaceIn
    <3> QED
      BY <1>1, <2>1, <3>2
  <2>2. CASE i \notin Range(list)
    BY <1>0, <1>1, <2>2 DEF PlaceIn
  <2> QED
    BY <2>1, <2>2
<1> HIDE DEF at, k
<1>3. new = [n \in 1 .. k |->
                IF n = 1 THEN i ELSE IF n <= at THEN list[n - 1] ELSE list[n]]
  BY <1>2 DEF ToFront, at
<1> HIDE DEF new
<1>4. /\ Len(list) \in Nat /\ k \in Nat /\ at \in 1 .. k
      /\ k = Len(list) \/ (k = Len(list) + 1 /\ at = k)
      /\ k = Len(list) + 1 \/ i \in Range(list)
      /\ i \in Range(list) => at \in 1 .. Len(list) /\ list[at] = i
  <2>1. CASE i \in Range(list)
    <3>1. k = Len(list)
      BY <1>1, <2>1 DEF k
    <3> QED
      BY <1>1, <1>2, <2>1, <3>1
  <2>2. CASE i \notin Range(list)
    <3>1. k = Len(list) + 1 /\ at = k
      BY <1>1, <1>2, <2>2 DEF k
    <3>2. Len(list) \in Nat /\ k \in Nat /\ at \in 1 .. k
      BY <1>1, <1>2
    <3> QED
      BY <2>2, <3>1, <3>2
  <2> QED
    BY <2>1, <2>2
<1>a. /\ Len(list) \in Nat /\ k \in Nat /\ at \in 1 .. k
      /\ k = Len(list) \/ (k = Len(list) + 1 /\ at = k)
  BY <1>4
<1>5. ASSUME NEW n \in 1 .. k, n # 1
      PROVE  /\ n <= at => n - 1 \in 1 .. Len(list) /\ n - 1 # at /\ new[n] = list[n - 1]
             /\ n > at => n \in 1 .. Len(list) /\ n # at /\ new[n] = list[n]
  <2>1. new[n] = IF n <= at THEN list[n - 1] ELSE list[n]
    BY <1>3, <1>5
  <2> QED
    BY <1>5, <1>a, <2>1
<1>6. new[1] = i
  BY <1>2, <1>3
<1>7. \A n \in 1 .. k : n # 1 => new[n] # i
  <2> SUFFICES ASSUME NEW n \in 1 .. k, n # 1 PROVE new[n] # i
    OBVIOUS
  <2>1. \A m \in 1 .. Len(list) : m # at => list[m] # i
    <3>1. CASE i \in Range(list)
      BY <1>1, <1>4, <3>1
    <3>2. CASE i \notin Range(list)
      BY <1>1, <3>2 DEF Range
    <3> QED
      BY <3>1, <3>2
  <2> QED
    BY <1>2, <1>5, <2>1
<1>8. new \in [1 .. k -> Inode]
  <2>1. \A n \in 1 .. k : new[n] \in Inode
    BY <1>1, <1>2, <1>5, <1>6
  <2>2. new = [n \in 1 .. k |-> new[n]]
    BY <1>3
  <2> QED
    BY <2>1, <2>2
<1>9. ASSUME NEW m \in 1 .. k, NEW n \in 1 .. k, new[m] = new[n] PROVE m = n
  <2>1. CASE m = 1 \/ n = 1
    BY <1>6, <1>7, <1>9, <2>1
  <2>2. CASE m # 1 /\ n # 1
    <3>1. PICK p \in 1 .. Len(list) : new[m] = list[p] /\ p # at /\ p = IF m <= at THEN m - 1 ELSE m
      BY <1>2, <1>5, <2>2
    <3>2. PICK q \in 1 .. Len(list) : new[n] = list[q] /\ q # at /\ q = IF n <= at THEN n - 1 ELSE n
      BY <1>2, <1>5, <2>2
    <3>3. p = q
      BY <1>1, <1>9, <3>1, <3>2
    <3> QED
      BY <1>2, <3>1, <3>2, <3>3
  <2> QED
    BY <2>1, <2>2
<1>10. new \in List /\ Len(new) = k
  BY <1>2, <1>8, <1>9, IsList
<1>11. Range(new) = Range(list) \cup {i}
  <2>1. Range(new) \subseteq Range(list) \cup {i}
    <3> SUFFICES ASSUME NEW n \in 1 .. k PROVE new[n] \in Range(list) \cup {i}
      BY <1>8 DEF Range
    <3>1. CASE n = 1
      BY <1>6, <3>1
    <3>2. CASE n # 1
      <4>1. \E m \in 1 .. Len(list) : new[n] = list[m]
        BY <1>a, <1>5, <3>2
      <4> QED
        BY <1>1, <4>1 DEF Range
    <3> QED
      BY <3>1, <3>2
  <2>2. ASSUME NEW m \in 1 .. Len(list) PROVE list[m] \in Range(new)
    <3>1. CASE m < at
      <4>1. m + 1 \in 1 .. k /\ m + 1 # 1 /\ m + 1 <= at /\ (m + 1) - 1 = m
        BY <1>1, <1>2, <3>1
      <4>2. new[m + 1] = list[m]
        BY <1>5, <4>1
      <4> QED
        BY <1>8, <4>1, <4>2 DEF Range
    <3>2. CASE m > at
      <4>1. m \in 1 .. k /\ m # 1
        BY <1>a, <2>2, <3>2
      <4>2. new[m] = list[m]
        BY <1>2, <1>5, <3>2, <4>1
      <4> QED
        BY <1>8, <4>1, <4>2 DEF Range
    <3>3. CASE m = at
      <4>1. list[m] = i
        <5>1. k = Len(list)
          BY <1>a, <2>2, <3>3
        <5>2. i \in Range(list)
          BY <1>4, <1>a, <5>1
        <5> QED
          BY <1>4, <3>3, <5>2
      <4>2. 1 \in 1 .. k
        BY <1>2
      <4> QED
        BY <1>6, <1>8, <4>1, <4>2 DEF Range
    <3> QED
      BY <1>1, <1>2, <3>1, <3>2, <3>3
  <2>3. i \in Range(new)
    <3>1. 1 \in 1 .. k
      BY <1>2
    <3> QED
      BY <1>6, <1>8, <3>1 DEF Range
  <2>4. Range(list) \subseteq Range(new)
    BY <1>1, <2>2 DEF Range
  <2> QED
    BY <2>1, <2>3, <2>4
<1> QED
  BY <1>6, <1>10, <1>11 DEF new, k

\* What an eviction makes of the list.
LEMMA LastDropped ==
    ASSUME NEW list \in List, Len(list) # 0
    PROVE  /\ Front(list) \in List /\ Last(list) \in Range(list)
           /\ Range(Front(list)) = Range(list) \ {Last(list)}
           /\ Len(Front(list)) = Len(list) - 1 /\ Len(list) \in Nat \ {0}
           /\ Len(list) >= 2 => list[1] \in Range(Front(list))
<1>1. /\ Len(list) \in Nat /\ DOMAIN list = 1 .. Len(list)
      /\ \A n \in 1 .. Len(list) : list[n] \in Inode
      /\ \A m, n \in 1 .. Len(list) : list[m] = list[n] => m = n
  BY ListFacts
<1>2. Len(list) # 0
  OBVIOUS
<1> DEFINE k == Len(list) - 1
           new == Front(list)
<1>3. k \in Nat /\ Len(list) = k + 1
  BY <1>1, <1>2
<1>4. new = [n \in 1 .. k |-> list[n]]
  <2>1. \A n \in 1 .. k : 1 + n - 1 = n
    BY <1>3
  <2> QED
    BY <1>3, <2>1 DEF Front
<1> HIDE DEF new, k
<1>5. new \in [1 .. k -> Inode] /\ \A n \in 1 .. k : new[n] = list[n] /\ n \in 1 .. Len(list)
  BY <1>1, <1>3, <1>4
<1>6. new \in List /\ Len(new) = k
  BY <1>1, <1>3, <1>5, IsList
<1>7. Last(list) = list[k + 1] /\ k + 1 \in DOMAIN list
  BY <1>1, <1>3 DEF Last
<1>8. Range(new) = Range(list) \ {Last(list)}
  <2>1. ASSUME NEW n \in 1 .. k PROVE new[n] \in Range(list) \ {Last(list)}
    BY <1>1, <1>3, <1>5, <1>7 DEF Range
  <2>2. ASSUME NEW n \in DOMAIN list, list[n] # Last(list) PROVE list[n] \in Range(new)
    <3>1. n \in 1 .. k
      BY <1>1, <1>3, <1>7, <2>2
    <3> QED
      BY <1>5, <3>1 DEF Range
  <2>3. DOMAIN new = 1 .. k
    BY <1>5
  <2> QED
    BY <2>1, <2>2, <2>3 DEF Range
<1>9. Len(list) >= 2 => list[1] \in Range(new)
  <2>1. ASSUME Len(list) >= 2 PROVE 1 \in 1 .. k /\ DOMAIN new = 1 .. k /\ new[1] = list[1]
    BY <1>3, <1>5, <2>1
  <2> QED
    BY <2>1 DEF Range
<1>10. Last(list) \in Range(list)
  BY <1>7 DEF Range
<1> QED
  BY <1>1, <1>2, <1>6, <1>8, <1>9, <1>10 DEF new, k
-----------------------------------------------------------------------------
\* The states operations work on, and those they may meet.
St == [list : List, copy : [Inode -> INode], dirty : SUBSET Inode, mem : [Inode -> INode],
       out : SUBSET Inode, used : SUBSET Inode, ideal : [Inode -> INode]]

Sound(st) == st \in St /\ Len(st.list) <= Capacity /\ st.dirty \subseteq Range(st.list)

\* What get may ever return for the inode i if nobody changes it: the copy while it
\* is cached, the table's inode once the copy is dropped.
Views(st, i) ==
    IF i \notin Range(st.list) THEN {st.mem[i]}
    ELSE IF i \in st.dirty THEN {st.copy[i]} ELSE {st.copy[i], st.mem[i]}

\* The parts of a sound state and their types.
LEMMA SoundFields ==
    ASSUME NEW st, Sound(st)
    PROVE  /\ st.list \in List /\ Len(st.list) \in Nat /\ Len(st.list) <= Capacity
           /\ st.copy \in [Inode -> INode] /\ st.mem \in [Inode -> INode]
           /\ st.ideal \in [Inode -> INode]
           /\ st.dirty \subseteq Inode /\ st.out \subseteq Inode /\ st.used \subseteq Inode
           /\ st.dirty \subseteq Range(st.list) /\ Range(st.list) \subseteq Inode
           /\ \A j : Contains(st.list, j) <=> j \in Range(st.list)
<1>1. st.list \in List
  BY DEF Sound, St
<1> QED
  BY <1>1, ListFacts DEF Sound, St

\* A hit changes the order of the list and nothing else.
LEMMA GetHit ==
    ASSUME NEW st, Sound(st), NEW i \in Range(st.list)
    PROVE  LET r == Get(st, i)
           IN  /\ Sound(r)
               /\ Range(r.list) = Range(st.list) /\ r.list[1] = i
               /\ r.copy = st.copy /\ r.dirty = st.dirty /\ r.mem = st.mem
               /\ r.out = st.out /\ r.used = st.used /\ r.ideal = st.ideal
<1> DEFINE r == Get(st, i)
           l == ToFront(st.list, i)
<1>1. st \in St /\ st.list \in List /\ Len(st.list) <= Capacity /\ i \in Inode
      /\ st.dirty \subseteq Range(st.list)
  BY SoundFields DEF Sound
<1>2. Contains(st.list, i)
  BY SoundFields
<1>3. r = [st EXCEPT !.list = l]
  BY <1>2 DEF Get
<1>4. l \in List /\ Range(l) = Range(st.list) \cup {i} /\ l[1] = i /\ Len(l) = Len(st.list) + 0
  BY <1>1, MovedFront
<1>5. Range(l) = Range(st.list) /\ Len(l) = Len(st.list)
  BY <1>1, <1>4, ListFacts
<1> HIDE DEF r, l
<1>6. /\ r \in St /\ r.list = l /\ r.copy = st.copy /\ r.dirty = st.dirty /\ r.mem = st.mem
      /\ r.out = st.out /\ r.used = st.used /\ r.ideal = st.ideal
  BY <1>1, <1>3, <1>4 DEF St
<1>7. Sound(r)
  BY <1>1, <1>5, <1>6 DEF Sound
<1> QED
  BY <1>4, <1>5, <1>6, <1>7 DEF r

\* An eviction makes room for one and loses no content.
LEMMA Evicted ==
    ASSUME NEW st, Sound(st), Len(st.list) # 0
    PROVE  LET r == Evict(st)
           IN  /\ Sound(r) /\ Len(r.list) = Len(st.list) - 1
               /\ Range(r.list) = Range(st.list) \ {Last(st.list)}
               /\ r.copy = st.copy /\ r.used = st.used /\ r.ideal = st.ideal
               /\ r.out = st.out \cup {Last(st.list)}
               /\ \A j \in Inode : Views(r, j) \subseteq Views(st, j)
               /\ Len(st.list) >= 2 => st.list[1] \in Range(r.list)
<1> DEFINE r == Evict(st)
           i == Last(st.list)
           l == Front(st.list)
           m == IF i \in st.dirty THEN [st.mem EXCEPT ![i] = st.copy[i]] ELSE st.mem
<1>1. st \in St /\ st.list \in List /\ Len(st.list) <= Capacity /\ Len(st.list) \in Nat
      /\ st.dirty \subseteq Range(st.list) /\ st.copy \in [Inode -> INode] /\ st.mem \in [Inode -> INode]
      /\ Range(st.list) \subseteq Inode
  BY SoundFields DEF Sound
<1>2. /\ l \in List /\ i \in Range(st.list) /\ Range(l) = Range(st.list) \ {i}
      /\ Len(l) = Len(st.list) - 1
      /\ Len(st.list) >= 2 => st.list[1] \in Range(l)
  BY <1>1, LastDropped
<1>3. i \in Inode
  BY <1>1, <1>2
<1>4. r = [st EXCEPT !.list = l, !.dirty = st.dirty \ {i}, !.mem = m, !.out = st.out \cup {i}]
  BY <1>1 DEF Evict, St
<1> HIDE DEF r, i, l
<1>5. m \in [Inode -> INode] /\ (\A j \in Inode : m[j] = IF j = i /\ i \in st.dirty THEN st.copy[i] ELSE st.mem[j])
  BY <1>1, <1>3
<1> HIDE DEF m
<1>6. st.dirty \ {i} \in SUBSET Inode /\ st.out \cup {i} \in SUBSET Inode
  BY <1>1, <1>3 DEF St
<1>7. /\ r \in St /\ r.list = l /\ r.copy = st.copy /\ r.dirty = st.dirty \ {i} /\ r.mem = m
      /\ r.out = st.out \cup {i} /\ r.used = st.used /\ r.ideal = st.ideal
  BY <1>1, <1>2, <1>4, <1>5, <1>6 DEF St
<1>8. Capacity \in Nat
  BY CacheAssumption
<1>9. Sound(r)
  BY <1>1, <1>2, <1>7, <1>8 DEF Sound
<1>10. ASSUME NEW j \in Inode PROVE Views(r, j) \subseteq Views(st, j)
  <2>1. CASE j = i
    BY <1>2, <1>5, <1>7, <2>1 DEF Views
  <2>2. CASE j # i
    BY <1>2, <1>5, <1>7, <2>2 DEF Views
  <2> QED
    BY <2>1, <2>2
<1> QED
  BY <1>2, <1>7, <1>9, <1>10 DEF r, i

\* A load takes the inode from the table, where there is room.
Load(st, i) ==
    [st EXCEPT !.list = ToFront(st.list, i), !.copy = [st.copy EXCEPT ![i] = st.mem[i]]]

\* get of an inode that is not cached, when there is room: it comes first, clean, and nothing
\* may be seen that could not be seen before.
LEMMA Loaded ==
    ASSUME NEW st, Sound(st), Len(st.list) < Capacity, NEW i \in Inode, i \notin Range(st.list)
    PROVE  LET r == Load(st, i)
           IN  /\ Sound(r)
               /\ Range(r.list) = Range(st.list) \cup {i} /\ r.list[1] = i
               /\ r.used = st.used /\ r.ideal = st.ideal /\ r.out = st.out
               /\ \A j \in Inode : Views(r, j) \subseteq Views(st, j)
               /\ \A j \in Range(st.list) : r.copy[j] = st.copy[j]
<1> DEFINE r == Load(st, i)
           l == ToFront(st.list, i)
           c == [st.copy EXCEPT ![i] = st.mem[i]]
<1>1. st \in St /\ st.list \in List /\ Len(st.list) <= Capacity /\ Len(st.list) \in Nat
      /\ st.dirty \subseteq Range(st.list) /\ st.copy \in [Inode -> INode] /\ st.mem \in [Inode -> INode]
  BY SoundFields DEF Sound
<1>2. l \in List /\ Range(l) = Range(st.list) \cup {i} /\ l[1] = i /\ Len(l) = Len(st.list) + 1
  BY <1>1, MovedFront
<1>3. r = [st EXCEPT !.list = l, !.copy = c]
  BY DEF Load
<1> HIDE DEF r, l
<1>4. c \in [Inode -> INode] /\ (\A j \in Inode : c[j] = IF j = i THEN st.mem[i] ELSE st.copy[j])
  BY <1>1
<1> HIDE DEF c
<1>5. /\ r \in St /\ r.list = l /\ r.copy = c /\ r.dirty = st.dirty /\ r.mem = st.mem
      /\ r.out = st.out /\ r.used = st.used /\ r.ideal = st.ideal
  BY <1>1, <1>2, <1>3, <1>4 DEF St
<1>6. Capacity \in Nat
  BY CacheAssumption
<1>7. Sound(r)
  BY <1>1, <1>2, <1>5, <1>6 DEF Sound
<1>8. ASSUME NEW j \in Inode PROVE Views(r, j) \subseteq Views(st, j)
  <2>1. CASE j = i
    BY <1>1, <1>2, <1>4, <1>5, <2>1 DEF Views
  <2>2. CASE j # i
    BY <1>2, <1>4, <1>5, <2>2 DEF Views
  <2> QED
    BY <2>1, <2>2
<1>9. \A j \in Range(st.list) : r.copy[j] = st.copy[j]
  BY <1>4, <1>5, SoundFields
<1> QED
  BY <1>2, <1>5, <1>7, <1>8, <1>9 DEF r

\* get: the inode comes first, the one that was first stays, and what is evicted
\* is not cached any more.  No inode can be seen otherwise than before.
LEMMA Got ==
    ASSUME NEW st, Sound(st), NEW i \in Inode
    PROVE  LET r == Get(st, i)
           IN  /\ Sound(r) /\ i \in Range(r.list) /\ r.list[1] = i
               /\ r.used = st.used /\ r.ideal = st.ideal
               /\ \A j \in Inode : Views(r, j) \subseteq Views(st, j)
               /\ Len(st.list) # 0 => st.list[1] \in Range(r.list)
               /\ \A j \in r.out : j \in st.out \/ j \notin Range(r.list)
               /\ \A j \in Range(st.list) : j \in Range(r.list) => r.copy[j] = st.copy[j]
<1> DEFINE r == Get(st, i)
<1>1. st.list \in List /\ Len(st.list) <= Capacity /\ Len(st.list) \in Nat
  BY SoundFields
<1>2. Capacity \in Nat /\ Capacity >= 2
  BY CacheAssumption
<1>3. Len(st.list) # 0 => st.list[1] \in Range(st.list)
  <2>1. DOMAIN st.list = 1 .. Len(st.list)
    BY <1>1, ListFacts
  <2>2. Len(st.list) # 0 => 1 \in 1 .. Len(st.list)
    BY <1>1
  <2> QED
    BY <2>1, <2>2 DEF Range
<1>4. CASE i \in Range(st.list)
  <2>1. /\ Sound(r) /\ Range(r.list) = Range(st.list) /\ r.list[1] = i
        /\ r.copy = st.copy /\ r.dirty = st.dirty /\ r.mem = st.mem
        /\ r.out = st.out /\ r.used = st.used /\ r.ideal = st.ideal
    BY <1>4, GetHit
  <2> HIDE DEF r
  <2>2. \A j \in Inode : Views(r, j) \subseteq Views(st, j)
    BY <2>1 DEF Views
  <2> QED
    BY <1>3, <1>4, <2>1, <2>2 DEF r
<1>5. CASE i \notin Range(st.list)
  <2>1. ~Contains(st.list, i)
    BY <1>5, SoundFields
  <2>2. CASE Len(st.list) < Capacity
    <3>1. r = Load(st, i)
      BY <2>1, <2>2 DEF Get, Load
    <3> HIDE DEF r
    <3>2. /\ Sound(r) /\ Range(r.list) = Range(st.list) \cup {i} /\ r.list[1] = i
          /\ r.used = st.used /\ r.ideal = st.ideal /\ r.out = st.out
          /\ \A j \in Inode : Views(r, j) \subseteq Views(st, j)
          /\ \A j \in Range(st.list) : r.copy[j] = st.copy[j]
      BY <1>5, <2>2, <3>1, Loaded
    <3> QED
      BY <1>3, <3>2 DEF r
  <2>3. CASE ~(Len(st.list) < Capacity)
    <3> DEFINE e == Evict(st)
    <3>1. Len(st.list) # 0 /\ Len(st.list) >= 2 /\ Len(st.list) - 1 < Capacity
      BY <1>1, <1>2, <2>3
    <3>2. /\ Sound(e) /\ Len(e.list) = Len(st.list) - 1
          /\ Range(e.list) = Range(st.list) \ {Last(st.list)}
          /\ e.copy = st.copy /\ e.used = st.used /\ e.ideal = st.ideal
          /\ e.out = st.out \cup {Last(st.list)}
          /\ \A j \in Inode : Views(e, j) \subseteq Views(st, j)
          /\ st.list[1] \in Range(e.list)
      BY <3>1, Evicted
    <3>3. r = Load(e, i)
      BY <2>1, <2>3 DEF Get, Load
    <3> HIDE DEF r, e
    <3>4. i \notin Range(e.list) /\ Len(e.list) < Capacity
      BY <1>5, <3>1, <3>2
    <3>9. Sound(e)
      BY <3>2
    <3>10. /\ Sound(Load(e, i)) /\ Range(Load(e, i).list) = Range(e.list) \cup {i}
           /\ Load(e, i).list[1] = i
           /\ Load(e, i).used = e.used /\ Load(e, i).ideal = e.ideal /\ Load(e, i).out = e.out
           /\ \A j \in Inode : Views(Load(e, i), j) \subseteq Views(e, j)
           /\ \A j \in Range(e.list) : Load(e, i).copy[j] = e.copy[j]
      BY <3>4, <3>9, Loaded
    <3>5. /\ Sound(r) /\ Range(r.list) = Range(e.list) \cup {i} /\ r.list[1] = i
          /\ r.used = e.used /\ r.ideal = e.ideal /\ r.out = e.out
          /\ \A j \in Inode : Views(r, j) \subseteq Views(e, j)
          /\ \A j \in Range(e.list) : r.copy[j] = e.copy[j]
      BY <3>3, <3>10
    <3>6. Last(st.list) \in Range(st.list)
      BY <1>1, <3>1, LastDropped
    <3>7. \A j \in Inode : Views(r, j) \subseteq Views(st, j)
      BY <3>2, <3>5
    <3>8. \A j \in r.out : j \in st.out \/ j \notin Range(r.list)
      BY <1>5, <3>2, <3>5, <3>6
    <3>11. \A j \in Range(st.list) : j \in Range(r.list) => r.copy[j] = st.copy[j]
      BY <1>5, <3>2, <3>5
    <3> QED
      BY <3>2, <3>5, <3>7, <3>8, <3>11 DEF r
  <2> QED
    BY <2>2, <2>3
<1> QED
  BY <1>4, <1>5
-----------------------------------------------------------------------------
\* What an operation does to a cached inode: the others stay as they are, and so do
\* the inodes that are cached.
Did(st, r, x) ==
    /\ Sound(r) /\ Range(r.list) = Range(st.list) /\ r.out = st.out
    /\ \A j \in Inode \ {x} : /\ r.copy[j] = st.copy[j] /\ r.mem[j] = st.mem[j]
                              /\ r.ideal[j] = st.ideal[j]
                              /\ j \in r.dirty <=> j \in st.dirty

\* Two operations on one inode are an operation on it.
LEMMA DidTwice ==
    ASSUME NEW a, NEW b, NEW c, NEW x, Did(a, b, x), Did(b, c, x)
    PROVE  Did(a, c, x)
BY DEF Did

\* The mark of an inode that get has just returned.
LEMMA MarkedGot ==
    ASSUME NEW g, Sound(g), NEW x \in Range(g.list)
    PROVE  LET r == Marked(g, x)
           IN  /\ Sound(r) /\ Range(r.list) = Range(g.list)
               /\ r.copy = g.copy /\ r.mem = g.mem /\ r.ideal = g.ideal
               /\ r.out = g.out /\ r.used = g.used /\ r.dirty = g.dirty \cup {x}
               /\ Did(g, r, x)
<1> DEFINE d == g.dirty \cup {x}
           r == Marked(g, x)
<1>1. r = [g EXCEPT !.dirty = d]
  BY DEF Marked
<1>2. g \in St /\ g.dirty \subseteq Range(g.list) /\ Range(g.list) \subseteq Inode /\ Len(g.list) <= Capacity
  BY SoundFields DEF Sound
<1> HIDE DEF r
<1>3. d \in SUBSET Inode /\ d \subseteq Range(g.list) /\ d = g.dirty \cup {x}
  BY <1>2
<1> HIDE DEF d
<1>4. /\ r \in St /\ r.list = g.list /\ r.copy = g.copy /\ r.dirty = d /\ r.mem = g.mem
      /\ r.out = g.out /\ r.used = g.used /\ r.ideal = g.ideal
  BY <1>1, <1>2, <1>3 DEF St
<1>5. Sound(r)
  BY <1>2, <1>3, <1>4 DEF Sound
<1>6. Did(g, r, x)
  BY <1>3, <1>4, <1>5 DEF Did
<1> QED
  BY <1>3, <1>4, <1>5, <1>6 DEF r

\* The mark of a cached inode.
LEMMA MarkedHit ==
    ASSUME NEW st, Sound(st), NEW x \in Range(st.list)
    PROVE  LET r == Marked(Get(st, x), x)
           IN  /\ Sound(r) /\ Range(r.list) = Range(st.list)
               /\ r.copy = st.copy /\ r.mem = st.mem /\ r.ideal = st.ideal
               /\ r.out = st.out /\ r.used = st.used /\ r.dirty = st.dirty \cup {x}
<1> DEFINE g == Get(st, x)
<1>1. /\ Sound(g) /\ Range(g.list) = Range(st.list)
      /\ g.copy = st.copy /\ g.dirty = st.dirty /\ g.mem = st.mem
      /\ g.out = st.out /\ g.used = st.used /\ g.ideal = st.ideal
  BY GetHit
<1> HIDE DEF g
<1>2. LET r == Marked(g, x)
      IN  /\ Sound(r) /\ Range(r.list) = Range(g.list)
          /\ r.copy = g.copy /\ r.mem = g.mem /\ r.ideal = g.ideal
          /\ r.out = g.out /\ r.used = g.used /\ r.dirty = g.dirty \cup {x}
  BY <1>1, MarkedGot
<1> QED
  BY <1>1, <1>2 DEF g

\* What write_data makes of an inode.
Rewritten(node, names, data, how) ==
    IF how = "failed" THEN node ELSE [node EXCEPT !.names = names, !.data = data]

\* write_data changes the contents, if it succeeds, and neither type nor links.
LEMMA RewrittenFields ==
    ASSUME NEW node \in INode, NEW names \in SUBSET Inode, NEW data \in Value, NEW how \in How
    PROVE  /\ Rewritten(node, names, data, how) \in INode
           /\ Rewritten(node, names, data, how).type = node.type
           /\ Rewritten(node, names, data, how).links = node.links
           /\ Rewritten(node, names, data, how).names = IF how = "failed" THEN node.names ELSE names
           /\ Rewritten(node, names, data, how).data = IF how = "failed" THEN node.data ELSE data
BY DEF Rewritten, INode

\* write_data of a cached inode touches that inode alone, and marks it.
LEMMA DataHit ==
    ASSUME NEW st, Sound(st), NEW x \in Range(st.list),
           NEW names \in SUBSET Inode, NEW data \in Value, NEW how \in How
    PROVE  LET r == Data(st, x, names, data, how)
           IN  /\ Did(st, r, x) /\ r.used = st.used /\ x \in r.dirty
               /\ r.copy[x] = Rewritten(st.copy[x], names, data, how)
               /\ r.ideal[x] = Rewritten(st.ideal[x], names, data, how)
<1> DEFINE put(nodes) == [nodes EXCEPT ![x] = [nodes[x] EXCEPT !.names = names, !.data = data]]
           g == Marked(Get(st, x), x)
           done == [g EXCEPT !.copy = put(g.copy), !.ideal = put(g.ideal)]
           c == [g.copy[x] EXCEPT !.names = names, !.data = data]
           t == [g.ideal[x] EXCEPT !.names = names, !.data = data]
<1>1. /\ Sound(g) /\ Range(g.list) = Range(st.list)
      /\ g.copy = st.copy /\ g.mem = st.mem /\ g.ideal = st.ideal
      /\ g.out = st.out /\ g.used = st.used /\ g.dirty = st.dirty \cup {x}
  BY MarkedHit
<1>2. Data(st, x, names, data, "failed") = g
  BY DEF Data
<1>3. Data(st, x, names, data, "kept") = done
  BY DEF Data
<1>4. Data(st, x, names, data, "saved") = Saved(done, x)
  BY DEF Data
<1>5. done = [g EXCEPT !.copy = [g.copy EXCEPT ![x] = c], !.ideal = [g.ideal EXCEPT ![x] = t]]
  OBVIOUS
<1> HIDE DEF g, done, put
<1>6. /\ g \in St /\ g.copy \in [Inode -> INode] /\ g.mem \in [Inode -> INode]
      /\ g.ideal \in [Inode -> INode] /\ x \in Inode /\ x \in Range(g.list) /\ g.used \in SUBSET Inode
  BY <1>1, SoundFields DEF Sound
<1>7. c \in INode /\ t \in INode
  <2>1. g.copy[x] \in INode /\ g.ideal[x] \in INode
    BY <1>6
  <2> QED
    BY <2>1 DEF INode
<1>8. /\ how # "failed" => c = Rewritten(st.copy[x], names, data, how)
      /\ how # "failed" => t = Rewritten(st.ideal[x], names, data, how)
  BY <1>1 DEF Rewritten
<1> HIDE DEF c, t
<1>9. /\ done \in St /\ done.list = g.list /\ done.copy = [g.copy EXCEPT ![x] = c]
      /\ done.ideal = [g.ideal EXCEPT ![x] = t]
      /\ done.dirty = g.dirty /\ done.mem = g.mem /\ done.out = g.out /\ done.used = g.used
  <2> DEFINE cc == [g.copy EXCEPT ![x] = c]
             tt == [g.ideal EXCEPT ![x] = t]
  <2>1. cc \in [Inode -> INode] /\ tt \in [Inode -> INode]
    BY <1>6, <1>7
  <2>2. done = [g EXCEPT !.copy = cc, !.ideal = tt]
    BY <1>5
  <2> HIDE DEF cc, tt
  <2>3. /\ done \in St /\ done.list = g.list /\ done.copy = cc /\ done.ideal = tt
        /\ done.dirty = g.dirty /\ done.mem = g.mem /\ done.out = g.out /\ done.used = g.used
    BY <1>6, <2>1, <2>2 DEF St
  <2> QED
    BY <2>3 DEF cc, tt
<1>10. Did(st, g, x)
  BY <1>1 DEF Did
<1>11. /\ Did(g, done, x)
       /\ done.copy[x] = c /\ done.ideal[x] = t
  <2>1. /\ done.copy[x] = c /\ \A j \in Inode \ {x} : done.copy[j] = g.copy[j]
        /\ done.ideal[x] = t /\ \A j \in Inode \ {x} : done.ideal[j] = g.ideal[j]
    BY <1>6, <1>9
  <2>2. Sound(done)
    BY <1>1, <1>9 DEF Sound
  <2> QED
    BY <1>9, <2>1, <2>2 DEF Did
<1>12. CASE how = "failed"
  BY <1>1, <1>2, <1>10, <1>12 DEF Rewritten
<1>13. CASE how = "kept"
  <2>1. Did(st, done, x)
    BY <1>10, <1>11, DidTwice
  <2>2. x \in done.dirty /\ done.used = st.used
    BY <1>1, <1>9
  <2> QED
    BY <1>3, <1>8, <1>11, <1>13, <2>1, <2>2
<1>14. CASE how = "saved"
  <2> DEFINE m == [done.mem EXCEPT ![x] = done.copy[x]]
             r == Saved(done, x)
  <2>1. r = [done EXCEPT !.mem = m]
    BY DEF Saved
  <2>2. m \in [Inode -> INode] /\ \A j \in Inode \ {x} : m[j] = done.mem[j]
    BY <1>6, <1>7, <1>9, <1>11
  <2> HIDE DEF m, r
  <2>3. /\ r \in St /\ r.list = done.list /\ r.copy = done.copy /\ r.ideal = done.ideal
        /\ r.dirty = done.dirty /\ r.mem = m /\ r.out = done.out /\ r.used = done.used
    BY <1>9, <2>1, <2>2 DEF St
  <2>4. Sound(done)
    BY <1>11 DEF Did
  <2>5. Sound(r)
    BY <2>3, <2>4 DEF Sound
  <2>6. Did(done, r, x)
    BY <2>2, <2>3, <2>5 DEF Did
  <2>7. Did(st, done, x)
    BY <1>10, <1>11, DidTwice
  <2>8. Did(st, r, x)
    BY <2>6, <2>7, DidTwice
  <2>9. x \in r.dirty /\ r.used = st.used /\ r.copy[x] = c /\ r.ideal[x] = t
    BY <1>1, <1>9, <1>11, <2>3
  <2>10. Data(st, x, names, data, how) = r
    BY <1>4, <1>14 DEF r
  <2> QED
    BY <1>8, <1>14, <2>8, <2>9, <2>10
<1> QED
  BY <1>12, <1>13, <1>14 DEF How

\* A changed link count, not marked.
LEMMA LinkedHit ==
    ASSUME NEW st, Sound(st), NEW x \in Range(st.list), NEW change \in Int,
           st.copy[x].links + change \in 0 .. MaxLinks + 1
    PROVE  LET r == Linked(st, x, change)
           IN  /\ Did(st, r, x) /\ r.used = st.used /\ r.dirty = st.dirty
               /\ r.copy[x] = [st.copy[x] EXCEPT !.links = st.copy[x].links + change]
               /\ r.ideal[x] = st.ideal[x] /\ r.mem[x] = st.mem[x]
<1> DEFINE g == Get(st, x)
           node == g.copy[x]
           c == [node EXCEPT !.links = node.links + change]
           r == Linked(st, x, change)
<1>1. /\ Sound(g) /\ Range(g.list) = Range(st.list)
      /\ g.copy = st.copy /\ g.dirty = st.dirty /\ g.mem = st.mem
      /\ g.out = st.out /\ g.used = st.used /\ g.ideal = st.ideal
  BY GetHit
<1>2. r = [g EXCEPT !.copy = [g.copy EXCEPT ![x] = c]]
  BY DEF Linked
<1>3. c = [st.copy[x] EXCEPT !.links = st.copy[x].links + change]
  BY <1>1
<1> HIDE DEF g, r
<1>4. /\ g \in St /\ g.copy \in [Inode -> INode] /\ g.mem \in [Inode -> INode]
      /\ g.ideal \in [Inode -> INode] /\ x \in Inode /\ x \in Range(g.list) /\ g.used \in SUBSET Inode
  BY <1>1, SoundFields DEF Sound
<1>5. c \in INode
  <2>1. node \in INode /\ node.links + change \in 0 .. MaxLinks + 1
    BY <1>1, <1>4
  <2> HIDE DEF node
  <2> QED
    BY <2>1 DEF INode
<1> HIDE DEF c
<1> DEFINE cc == [g.copy EXCEPT ![x] = c]
<1>6. cc \in [Inode -> INode]
  BY <1>4, <1>5
<1>7. r = [g EXCEPT !.copy = cc]
  BY <1>2
<1> HIDE DEF cc
<1>8. /\ r \in St /\ r.list = g.list /\ r.copy = cc /\ r.dirty = g.dirty /\ r.mem = g.mem
      /\ r.out = g.out /\ r.used = g.used /\ r.ideal = g.ideal
  BY <1>4, <1>6, <1>7 DEF St
<1>9. Sound(r)
  BY <1>1, <1>8 DEF Sound
<1>10. Did(g, r, x) /\ r.copy[x] = c /\ r.ideal[x] = g.ideal[x] /\ r.mem[x] = g.mem[x]
  <2>1. cc[x] = c /\ \A j \in Inode \ {x} : cc[j] = g.copy[j]
    BY <1>4 DEF cc
  <2> QED
    BY <1>8, <1>9, <2>1 DEF Did
<1>11. Did(st, g, x)
  BY <1>1 DEF Did
<1>12. Did(st, r, x)
  BY <1>10, <1>11, DidTwice
<1> QED
  BY <1>1, <1>3, <1>8, <1>10, <1>12 DEF r

\* The fields of a marked inode are set: allocate_inode and free_inode.
Put(st, x, c, t, u) ==
    [st EXCEPT !.copy = [st.copy EXCEPT ![x] = c], !.ideal = [st.ideal EXCEPT ![x] = t],
               !.used = u]

\* Replacing a cached inode that is marked is an operation on it.
LEMMA PutGot ==
    ASSUME NEW st, Sound(st), NEW x \in Range(st.list),
           NEW c \in INode, NEW t \in INode, NEW u \in SUBSET Inode
    PROVE  LET r == Put(Marked(st, x), x, c, t, u)
           IN  /\ Did(st, r, x) /\ r.used = u /\ x \in r.dirty
               /\ r.copy[x] = c /\ r.ideal[x] = t
<1> DEFINE g == Marked(st, x)
           r == Put(g, x, c, t, u)
<1>1. /\ Sound(g) /\ Range(g.list) = Range(st.list)
      /\ g.copy = st.copy /\ g.mem = st.mem /\ g.ideal = st.ideal
      /\ g.out = st.out /\ g.used = st.used /\ g.dirty = st.dirty \cup {x}
      /\ Did(st, g, x)
  BY MarkedGot
<1>2. /\ g \in St /\ g.copy \in [Inode -> INode] /\ g.mem \in [Inode -> INode]
      /\ g.ideal \in [Inode -> INode] /\ x \in Inode /\ x \in Range(g.list)
  BY <1>1, SoundFields DEF Sound
<1> DEFINE cc == [g.copy EXCEPT ![x] = c]
           tt == [g.ideal EXCEPT ![x] = t]
<1>3. cc \in [Inode -> INode] /\ tt \in [Inode -> INode]
  BY <1>2
<1>4. r = [g EXCEPT !.copy = cc, !.ideal = tt, !.used = u]
  BY DEF Put
<1> HIDE DEF cc, tt, g, r
<1>5. /\ r \in St /\ r.list = g.list /\ r.copy = cc /\ r.ideal = tt
      /\ r.dirty = g.dirty /\ r.mem = g.mem /\ r.out = g.out /\ r.used = u
  BY <1>2, <1>3, <1>4 DEF St
<1>6. Sound(r)
  BY <1>1, <1>5 DEF Sound
<1>7. Did(g, r, x) /\ r.copy[x] = c /\ r.ideal[x] = t
  <2>1. /\ cc[x] = c /\ \A j \in Inode \ {x} : cc[j] = g.copy[j]
        /\ tt[x] = t /\ \A j \in Inode \ {x} : tt[j] = g.ideal[j]
    BY <1>2 DEF cc, tt
  <2> QED
    BY <1>5, <1>6, <2>1 DEF Did
<1> QED
  BY <1>1, <1>5, <1>7, DidTwice DEF g, r

\* allocate_inode, which may have to load the inode first.
Typed(node, type) == [node EXCEPT !.type = type]

\* allocate_inode is get of the inode and an operation on it that sets its type.
LEMMA Allocated ==
    ASSUME NEW st, Sound(st), NEW x \in Inode, NEW type \in {"File", "Directory"}
    PROVE  LET b == Get(st, x)
               r == Allocate(st, x, type)
           IN  /\ Did(b, r, x) /\ r.used = st.used \cup {x} /\ x \in r.dirty
               /\ r.copy[x] = Typed(b.copy[x], type)
               /\ r.ideal[x] = Typed(b.ideal[x], type)
<1> DEFINE b == Get(st, x)
           g == Marked(b, x)
           c == [g.copy[x] EXCEPT !.type = type]
           t == [g.ideal[x] EXCEPT !.type = type]
           u == g.used \cup {x}
           r == Allocate(st, x, type)
<1>1. Sound(b) /\ x \in Range(b.list) /\ b.used = st.used
  BY Got
<1>2. r = Put(g, x, c, t, u)
  BY DEF Allocate, Put
<1> HIDE DEF b, r
<1>3. Sound(g) /\ g.copy = b.copy /\ g.ideal = b.ideal /\ g.used = b.used
  BY <1>1, MarkedGot
<1>4. c = Typed(b.copy[x], type) /\ t = Typed(b.ideal[x], type) /\ u = st.used \cup {x}
  BY <1>1, <1>3 DEF Typed
<1>5. c \in INode /\ t \in INode /\ u \in SUBSET Inode
  <2>1. g.copy[x] \in INode /\ g.ideal[x] \in INode /\ x \in Inode /\ g.used \subseteq Inode
    BY <1>3, SoundFields
  <2> HIDE DEF g
  <2> QED
    BY <2>1 DEF INode
<1> HIDE DEF c, t, u
<1>6. /\ Did(b, r, x) /\ r.used = u /\ x \in r.dirty /\ r.copy[x] = c /\ r.ideal[x] = t
  BY <1>1, <1>2, <1>5, PutGot
<1> QED
  BY <1>4, <1>6 DEF r, b

\* Zero is a value and 0 a link count.
LEMMA BlankNode == Blank \in INode
BY CacheAssumption DEF Blank, INode

\* free_inode of a cached inode leaves it blank, and marked.
LEMMA WipeHit ==
    ASSUME NEW st, Sound(st), NEW x \in Range(st.list)
    PROVE  LET r == Wipe(st, x)
           IN  /\ Did(st, r, x) /\ r.used = st.used \ {x} /\ x \in r.dirty
               /\ r.copy[x] = Blank /\ r.ideal[x] = Blank
<1> DEFINE b == Get(st, x)
           g == Marked(b, x)
           u == g.used \ {x}
           r == Wipe(st, x)
<1>1. /\ Sound(b) /\ Range(b.list) = Range(st.list)
      /\ b.copy = st.copy /\ b.dirty = st.dirty /\ b.mem = st.mem
      /\ b.out = st.out /\ b.used = st.used /\ b.ideal = st.ideal
  BY GetHit
<1>2. r = Put(g, x, Blank, Blank, u)
  BY DEF Wipe, Put
<1> HIDE DEF b, r
<1>3. Sound(g) /\ g.used = b.used
  BY <1>1, MarkedGot
<1>4. u \in SUBSET Inode /\ u = st.used \ {x}
  <2>1. g.used \subseteq Inode
    BY <1>3, SoundFields
  <2> QED
    BY <1>1, <1>3, <2>1
<1> HIDE DEF u
<1>5. /\ Did(b, r, x) /\ r.used = u /\ x \in r.dirty /\ r.copy[x] = Blank /\ r.ideal[x] = Blank
  BY <1>1, <1>2, <1>4, BlankNode, PutGot
<1>6. Did(st, b, x)
  BY <1>1 DEF Did
<1> QED
  BY <1>4, <1>5, <1>6, DidTwice DEF r
-----------------------------------------------------------------------------
\* Two inodes change, both cached.
Pair(st, r, p, i) ==
    /\ Sound(r) /\ Range(r.list) = Range(st.list) /\ r.out = st.out
    /\ \A j \in Inode \ {p, i} : /\ r.copy[j] = st.copy[j] /\ r.mem[j] = st.mem[j]
                                 /\ r.ideal[j] = st.ideal[j]
                                 /\ j \in r.dirty <=> j \in st.dirty

\* An operation on one inode is one on it and any other ...
LEMMA DidIsPair ==
    ASSUME NEW st, NEW r, NEW p, NEW i, NEW x \in {p, i}, Did(st, r, x)
    PROVE  Pair(st, r, p, i)
BY DEF Did, Pair

\* ... and two on a pair of inodes are one on the pair.
LEMMA PairTwice ==
    ASSUME NEW a, NEW b, NEW c, NEW p, NEW i, Pair(a, b, p, i), Pair(b, c, p, i)
    PROVE  Pair(a, c, p, i)
BY DEF Pair

\* The dots of a new directory i under p.  Only p's link count changes, unmarked.
LEMMA DotsHit ==
    ASSUME NEW st, Sound(st), NEW p \in Range(st.list), NEW i \in Range(st.list), p # i,
           i \in st.dirty, st.copy[p].links + 1 \in 0 .. MaxLinks + 1
    PROVE  LET r == Dots(st, i, p)
           IN  /\ Pair(st, r, p, i) /\ r.used = st.used /\ i \in r.dirty
               /\ r.copy[i] = Rewritten(st.copy[i], {}, Zero, "saved")
               /\ r.ideal[i] = Rewritten(st.ideal[i], {}, Zero, "saved")
               /\ r.copy[p] = [st.copy[p] EXCEPT !.links = st.copy[p].links + 1]
               /\ r.ideal[p] = st.ideal[p] /\ r.mem[p] = st.mem[p]
               /\ p \in r.dirty <=> p \in st.dirty
<1> DEFINE a == Data(st, i, {}, Zero, "saved")
           m == Marked(a, i)
           r == Dots(st, i, p)
<1>0. p \in Inode /\ i \in Inode
  BY SoundFields
<1>1. /\ Did(st, a, i) /\ a.used = st.used /\ i \in a.dirty
      /\ a.copy[i] = Rewritten(st.copy[i], {}, Zero, "saved")
      /\ a.ideal[i] = Rewritten(st.ideal[i], {}, Zero, "saved")
  BY CacheAssumption, DataHit DEF How
<1> HIDE DEF a
<1>2. Sound(a) /\ Range(a.list) = Range(st.list)
  BY <1>1 DEF Did
<1>3. /\ Sound(m) /\ Range(m.list) = Range(st.list) /\ Did(a, m, i)
      /\ m.copy = a.copy /\ m.ideal = a.ideal /\ m.used = a.used /\ i \in m.dirty
  BY <1>2, MarkedGot
<1>4. r = Linked(m, p, 1)
  BY DEF Dots, a
<1> HIDE DEF m, r
<1>5. /\ m.copy[p] = st.copy[p] /\ m.ideal[p] = st.ideal[p] /\ m.mem[p] = st.mem[p]
      /\ p \in m.dirty <=> p \in st.dirty
  BY <1>0, <1>1, <1>3 DEF Did
<1>6. m.copy[p].links + 1 \in 0 .. MaxLinks + 1
  BY <1>5
<1>7. /\ Did(m, r, p) /\ r.used = m.used /\ r.dirty = m.dirty
      /\ r.copy[p] = [m.copy[p] EXCEPT !.links = m.copy[p].links + 1]
      /\ r.ideal[p] = m.ideal[p] /\ r.mem[p] = m.mem[p]
  BY <1>3, <1>4, <1>6, LinkedHit
<1>8. r.copy[i] = m.copy[i] /\ r.ideal[i] = m.ideal[i]
  BY <1>0, <1>7 DEF Did
<1>9. Did(st, m, i)
  BY <1>1, <1>3, DidTwice
<1>10. Pair(st, r, p, i)
  BY <1>7, <1>9, DidIsPair, PairTwice
<1> QED
  BY <1>1, <1>3, <1>5, <1>7, <1>8, <1>10 DEF r

OneMore(node) == [node EXCEPT !.links = node.links + 1]

\* r has entered i in the directory p of st, whose names are now all if they were written.
Added(st, r, p, i, all, how) ==
    /\ Pair(st, r, p, i) /\ r.used = st.used /\ i \in r.dirty /\ p \in r.dirty
    /\ r.copy[p] = Rewritten(st.copy[p], all, Zero, how)
    /\ r.ideal[p] = Rewritten(st.ideal[p], all, Zero, how)
    /\ r.copy[i] = OneMore(st.copy[i])
    /\ r.ideal[i] = st.ideal[i]

\* add_diritem marks the directory whether or not the entry was written.
LEMMA AddHit ==
    ASSUME NEW st, Sound(st), NEW p \in Range(st.list), NEW i \in Range(st.list), p # i,
           i \in st.dirty, st.copy[i].links + 1 \in 0 .. MaxLinks + 1, NEW how \in How,
           NEW all, all = st.copy[p].names \cup {i}
    PROVE  Added(st, AddDirItem(st, p, i, how), p, i, all, how)
<1> DEFINE g == Get(st, p)
           names == g.copy[p].names \cup {i}
           a == Data(g, p, names, Zero, how)
           h == Get(a, p)
           m == Marked(h, p)
           r == AddDirItem(st, p, i, how)
<1>0. p \in Inode /\ i \in Inode
  BY SoundFields
<1>1. /\ Sound(g) /\ Range(g.list) = Range(st.list)
      /\ g.copy = st.copy /\ g.dirty = st.dirty /\ g.mem = st.mem
      /\ g.out = st.out /\ g.used = st.used /\ g.ideal = st.ideal
  BY GetHit
<1>2. r = Linked(m, i, 1)
  BY DEF AddDirItem
<1> HIDE DEF g, r
<1>3. names = all /\ names \in SUBSET Inode
  <2>1. st.copy[p] \in INode
    BY <1>0, SoundFields
  <2> QED
    BY <1>0, <1>1, <2>1 DEF INode
<1> HIDE DEF names
<1>4. /\ Did(g, a, p) /\ a.used = g.used /\ p \in a.dirty
      /\ a.copy[p] = Rewritten(g.copy[p], names, Zero, how)
      /\ a.ideal[p] = Rewritten(g.ideal[p], names, Zero, how)
  BY <1>1, <1>3, CacheAssumption, DataHit
<1> HIDE DEF a
<1>5. Sound(a) /\ Range(a.list) = Range(st.list)
  BY <1>1, <1>4 DEF Did
<1>6. /\ Sound(m) /\ Range(m.list) = Range(a.list)
      /\ m.copy = a.copy /\ m.mem = a.mem /\ m.ideal = a.ideal
      /\ m.out = a.out /\ m.used = a.used /\ m.dirty = a.dirty \cup {p}
  BY <1>5, MarkedHit
<1> HIDE DEF m
<1>7. /\ Did(st, m, p) /\ m.used = st.used /\ p \in m.dirty
      /\ m.copy[p] = Rewritten(st.copy[p], names, Zero, how)
      /\ m.ideal[p] = Rewritten(st.ideal[p], names, Zero, how)
  <2>1. Did(st, g, p)
    BY <1>1 DEF Did
  <2>2. Did(a, m, p)
    BY <1>6 DEF Did
  <2>3. Did(st, m, p)
    BY <1>4, <2>1, <2>2, DidTwice
  <2> QED
    BY <1>1, <1>4, <1>6, <2>3
<1>8. /\ m.copy[i] = st.copy[i] /\ m.ideal[i] = st.ideal[i]
      /\ i \in m.dirty
  BY <1>0, <1>7 DEF Did
<1>9. m.copy[i].links + 1 \in 0 .. MaxLinks + 1 /\ i \in Range(m.list)
  BY <1>5, <1>6, <1>8
<1>10. /\ Did(m, r, i) /\ r.used = m.used /\ r.dirty = m.dirty
       /\ r.copy[i] = [m.copy[i] EXCEPT !.links = m.copy[i].links + 1]
       /\ r.ideal[i] = m.ideal[i]
  BY <1>2, <1>6, <1>9, LinkedHit
<1>11. r.copy[p] = m.copy[p] /\ r.ideal[p] = m.ideal[p]
  BY <1>0, <1>10 DEF Did
<1>12. Pair(st, r, p, i)
  BY <1>7, <1>10, DidIsPair, PairTwice
<1> QED
  BY <1>3, <1>7, <1>8, <1>10, <1>11, <1>12 DEF r, OneMore, Added
-----------------------------------------------------------------------------
\* A set of natural numbers that has an element has a least one.
LEMMA LeastElement ==
    ASSUME NEW T \in SUBSET Nat, T # {}
    PROVE  \E x \in T : \A y \in T : x <= y
<1> DEFINE Below == {0 .. x : x \in T}
           R == StrictSubsetOrdering(Nat)
<1>1. \A x \in T : 0 .. x \in SUBSET Nat /\ IsFiniteSet(0 .. x)
  BY FS_Interval
<1>2. Below \subseteq FiniteSubsetsOf(Nat) /\ Below # {}
  BY <1>1 DEF FiniteSubsetsOf
<1>3. PICK m \in Below : \A y \in Below : ~(<<y, m>> \in R)
  <2>1. IsWellFoundedOn(R, FiniteSubsetsOf(Nat))
    BY FS_StrictSubsetOrderingWellFounded
  <2> HIDE DEF Below, R
  <2> QED
    BY <1>2, <2>1, WFMin
<1>4. PICK x \in T : m = 0 .. x
  OBVIOUS
<1>5. ASSUME NEW y \in T, ~(x <= y)
      PROVE  FALSE
  <2>1. 0 .. y \subseteq 0 .. x /\ 0 .. y # 0 .. x
    <3>1. x \in 0 .. x /\ x \notin 0 .. y
      BY <1>5
    <3> QED
      BY <1>5, <3>1
  <2>2. <<0 .. y, m>> \in R
    BY <1>1, <1>4, <2>1 DEF StrictSubsetOrdering
  <2> QED
    BY <1>3, <2>2
<1> QED
  BY <1>5

\* allocate_inode hands out an inode whose bit is clear.
LEMMA NextInodeFree ==
    ASSUME used \subseteq Inode, used # Inode
    PROVE  NextInode \in Inode \ used
<1>1. Inode \subseteq Nat
  BY CacheAssumption DEF Inode
<1>2. \E i \in Inode \ used : \A j \in Inode \ used : i <= j
  <2>1. Inode \ used \in SUBSET Nat /\ Inode \ used # {}
    BY <1>1
  <2> QED
    BY <2>1, LeastElement
<1> QED
  BY <1>2 DEF NextInode

\* Sets of inodes can be counted.
LEMMA InodeFinite ==
    ASSUME NEW S \in SUBSET Inode
    PROVE  IsFiniteSet(S) /\ Cardinality(S) \in Nat
<1>1. IsFiniteSet(Inode)
  BY CacheAssumption, FS_Interval DEF Inode
<1> QED
  BY <1>1, FS_Subset, FS_CardinalityType

\* The entries that name i, and the subdirectories whose ".." does.
Parents(ideal, u, i) == {d \in u : i \in ideal[d].names}
Kids(ideal, i) == {j \in ideal[i].names : ideal[j].type = "Directory"}
Names(ideal, u, i) == Cardinality(Parents(ideal, u, i)) + Cardinality(Kids(ideal, i))

\* So can the names of an inode: the entries for it and its subdirectories' "..".
LEMMA NamesType ==
    ASSUME NEW t \in [Inode -> INode], NEW u \in SUBSET Inode, NEW i \in Inode
    PROVE  /\ Parents(t, u, i) \in SUBSET Inode /\ Kids(t, i) \in SUBSET Inode
           /\ Cardinality(Parents(t, u, i)) \in Nat /\ Cardinality(Kids(t, i)) \in Nat
           /\ Names(t, u, i) \in Nat
<1>1. Parents(t, u, i) \in SUBSET Inode /\ Kids(t, i) \in SUBSET Inode
  <2>1. t[i] \in INode
    OBVIOUS
  <2>2. t[i].names \subseteq Inode
    BY <2>1 DEF INode
  <2> QED
    BY <2>2 DEF Parents, Kids
<1>2. Cardinality(Parents(t, u, i)) \in Nat /\ Cardinality(Kids(t, i)) \in Nat
  BY <1>1, InodeFinite
<1> QED
  BY <1>1, <1>2 DEF Names

\* A part counts no more than the whole.
LEMMA SmallerCount ==
    ASSUME NEW S \in SUBSET Inode, NEW T \in SUBSET S
    PROVE  Cardinality(T) <= Cardinality(S)
BY InodeFinite, FS_Subset

\* Names that are taken away, and names that come to one.
LEMMA NamesShrink ==
    ASSUME NEW t \in [Inode -> INode], NEW u \in SUBSET Inode,
           NEW t2 \in [Inode -> INode], NEW u2 \in SUBSET Inode, NEW i \in Inode,
           Parents(t2, u2, i) \subseteq Parents(t, u, i), Kids(t2, i) \subseteq Kids(t, i)
    PROVE  Names(t2, u2, i) <= Names(t, u, i)
<1>1. /\ Cardinality(Parents(t2, u2, i)) <= Cardinality(Parents(t, u, i))
      /\ Cardinality(Kids(t2, i)) <= Cardinality(Kids(t, i))
  BY NamesType, SmallerCount
<1>2. /\ Cardinality(Parents(t2, u2, i)) \in Nat /\ Cardinality(Parents(t, u, i)) \in Nat
      /\ Cardinality(Kids(t2, i)) \in Nat /\ Cardinality(Kids(t, i)) \in Nat
  BY NamesType
<1> QED
  BY <1>1, <1>2 DEF Names

\* An inode that loses an entry has fewer names.
LEMMA NamesLess ==
    ASSUME NEW t \in [Inode -> INode], NEW u \in SUBSET Inode,
           NEW t2 \in [Inode -> INode], NEW u2 \in SUBSET Inode, NEW i \in Inode,
           NEW p \in Parents(t, u, i),
           Parents(t2, u2, i) \subseteq Parents(t, u, i) \ {p}, Kids(t2, i) \subseteq Kids(t, i)
    PROVE  Names(t2, u2, i) <= Names(t, u, i) - 1
<1>1. Parents(t, u, i) \in SUBSET Inode /\ Kids(t, i) \in SUBSET Inode
  BY NamesType
<1>2. Cardinality(Parents(t, u, i) \ {p}) = Cardinality(Parents(t, u, i)) - 1
  BY <1>1, InodeFinite, FS_RemoveElement
<1>3. /\ Cardinality(Parents(t2, u2, i)) <= Cardinality(Parents(t, u, i) \ {p})
      /\ Cardinality(Kids(t2, i)) <= Cardinality(Kids(t, i))
  BY <1>1, SmallerCount
<1>4. /\ Cardinality(Parents(t2, u2, i)) \in Nat /\ Cardinality(Parents(t, u, i)) \in Nat
      /\ Cardinality(Kids(t2, i)) \in Nat /\ Cardinality(Kids(t, i)) \in Nat
  BY NamesType
<1> QED
  BY <1>2, <1>3, <1>4 DEF Names

\* A directory that gains a subdirectory has at most one name more.
LEMMA NamesMore ==
    ASSUME NEW t \in [Inode -> INode], NEW u \in SUBSET Inode,
           NEW t2 \in [Inode -> INode], NEW u2 \in SUBSET Inode, NEW i \in Inode, NEW k \in Inode,
           Parents(t2, u2, i) \subseteq Parents(t, u, i), Kids(t2, i) \subseteq Kids(t, i) \cup {k}
    PROVE  Names(t2, u2, i) <= Names(t, u, i) + 1
<1>1. Parents(t, u, i) \in SUBSET Inode /\ Kids(t, i) \in SUBSET Inode
  BY NamesType
<1>2. /\ Cardinality(Parents(t2, u2, i)) \in Nat /\ Cardinality(Parents(t, u, i)) \in Nat
      /\ Cardinality(Kids(t2, i)) \in Nat /\ Cardinality(Kids(t, i)) \in Nat
  BY NamesType
<1>3. Cardinality(Kids(t, i) \cup {k}) <= Cardinality(Kids(t, i)) + 1
  BY <1>1, <1>2, InodeFinite, FS_AddElement
<1>4. Kids(t, i) \cup {k} \in SUBSET Inode
  BY <1>1
<1>5. /\ Cardinality(Parents(t2, u2, i)) <= Cardinality(Parents(t, u, i))
      /\ Cardinality(Kids(t2, i)) <= Cardinality(Kids(t, i) \cup {k})
  BY <1>1, <1>4, SmallerCount
<1>6. Cardinality(Kids(t, i) \cup {k}) \in Nat
  BY <1>4, InodeFinite
<1> QED
  BY <1>2, <1>3, <1>5, <1>6 DEF Names
-----------------------------------------------------------------------------
\* Type, entries and data.
Agree(a, b) == a.type = b.type /\ a.names = b.names /\ a.data = b.data

\* Whatever get may return of i: the truth but for the links, links enough for its
\* names, and nothing at all if i is free.
Fits(st, i) ==
    \A w \in Views(st, i) :
        /\ Agree(w, st.ideal[i])
        /\ i \in st.used => w.links >= Names(st.ideal, st.used, i)
        /\ i \notin st.used => w = Blank

Good(st) ==
    /\ Sound(st)
    /\ \A i \in Inode : Fits(st, i) /\ st.ideal[i].links = 0
    /\ \A d \in st.used : st.ideal[d].names \subseteq st.used

\* The inductive invariant.
Inv ==
    /\ TypeOK
    /\ PointersStay
    /\ \A i \in Inode : truth[i].links = 0
    /\ ~up => cache_list = <<>> /\ dirty = {}
    /\ intact => Good(State)

\* What get may return is an inode.
LEMMA ViewsType ==
    ASSUME NEW st, Sound(st), NEW i \in Inode
    PROVE  Views(st, i) \subseteq INode
BY SoundFields DEF Views

\* What get does to the state it leaves: nothing that can be seen.
LEMMA GotGood ==
    ASSUME NEW st, Good(st), NEW i \in Inode
    PROVE  Good(Get(st, i))
<1> DEFINE r == Get(st, i)
<1>1. /\ Sound(r) /\ r.used = st.used /\ r.ideal = st.ideal
      /\ \A j \in Inode : Views(r, j) \subseteq Views(st, j)
  BY Got DEF Good
<1> HIDE DEF r
<1>2. ASSUME NEW j \in Inode PROVE Fits(r, j) /\ r.ideal[j].links = 0
  <2>1. Fits(st, j) /\ st.ideal[j].links = 0
    BY DEF Good
  <2> QED
    BY <1>1, <2>1 DEF Fits
<1>3. \A d \in r.used : r.ideal[d].names \subseteq r.used
  BY <1>1 DEF Good
<1>4. Good(r)
  BY <1>1, <1>2, <1>3 DEF Good
<1> QED
  BY <1>4 DEF r

\* get, for an operation that keeps the pointer.
LEMMA TakenGood ==
    ASSUME NEW st, Good(st), NEW i \in Inode
    PROVE  LET r == Taken(st, i)
           IN  /\ Good(r) /\ i \in Range(r.list) /\ r.list[1] = i
               /\ r.used = st.used /\ r.ideal = st.ideal
               /\ Len(st.list) # 0 => st.list[1] \in Range(r.list)
               /\ \A j \in r.out : j # i /\ (j \in st.out \/ j \notin Range(r.list))
               /\ \A j \in Range(st.list) : j \in Range(r.list) => r.copy[j] = st.copy[j]
               /\ r.copy = Get(st, i).copy
<1> DEFINE g == Get(st, i)
           o == g.out \ {i}
           r == Taken(st, i)
<1>1. /\ Sound(g) /\ i \in Range(g.list) /\ g.list[1] = i
      /\ g.used = st.used /\ g.ideal = st.ideal
      /\ Len(st.list) # 0 => st.list[1] \in Range(g.list)
      /\ \A j \in g.out : j \in st.out \/ j \notin Range(g.list)
      /\ \A j \in Range(st.list) : j \in Range(g.list) => g.copy[j] = st.copy[j]
  BY Got DEF Good
<1>2. Good(g)
  BY GotGood
<1>3. r = [g EXCEPT !.out = o]
  BY DEF Taken
<1> HIDE DEF g, r
<1>4. g \in St /\ o \in SUBSET Inode
  BY <1>1, SoundFields DEF Sound
<1>5. /\ r \in St /\ r.list = g.list /\ r.copy = g.copy /\ r.dirty = g.dirty /\ r.mem = g.mem
      /\ r.out = o /\ r.used = g.used /\ r.ideal = g.ideal
  BY <1>3, <1>4 DEF St
<1>6. Good(r)
  <2>1. Sound(r)
    BY <1>1, <1>5 DEF Sound
  <2>2. \A j \in Inode : Views(r, j) = Views(g, j)
    BY <1>5 DEF Views
  <2>3. \A j \in Inode : Fits(r, j) /\ r.ideal[j].links = 0
    BY <1>2, <1>5, <2>2 DEF Good, Fits
  <2> QED
    BY <1>2, <1>5, <2>1, <2>3 DEF Good
<1> QED
  BY <1>1, <1>5, <1>6 DEF r, g

\* The state an operation starts from is that of the variables.
LEMMA StateFields ==
    /\ State.list = cache_list /\ State.copy = copy /\ State.dirty = dirty /\ State.mem = mem
    /\ State.out = {} /\ State.used = used /\ State.ideal = truth
BY DEF State

\* It is sound.
LEMMA StateSound ==
    ASSUME TypeOK
    PROVE  Sound(State)
<1>1. cache_list \in List /\ Len(cache_list) <= Capacity /\ dirty \subseteq Range(cache_list)
  BY DEF TypeOK, List
<1>2. Range(cache_list) \subseteq Inode
  BY <1>1, ListFacts
<1>3. State \in St
  BY <1>1, <1>2 DEF TypeOK, State, St
<1> QED
  BY <1>1, <1>3, StateFields DEF Sound

\* The model counts names as the proof does.
LEMMA RefsNames == \A i : Refs(i) = Names(truth, used, i)
BY DEF Refs, Names, Parents, Kids
-----------------------------------------------------------------------------
\* What an operation leaves is the next state.
LEMMA BecomesGood ==
    ASSUME NEW st, Good(st), NEW pointers, st.out \cap pointers = {}, up, intact,
           Inv, Becomes(st, pointers)
    PROVE  Inv'
<1> DEFINE c == [i \in Inode |-> IF Contains(st.list, i) THEN st.copy[i] ELSE Blank]
           n == [list |-> st.list, copy |-> c, dirty |-> st.dirty, mem |-> st.mem, out |-> {},
                 used |-> st.used, ideal |-> st.ideal]
<1>1. /\ st.list \in List /\ Len(st.list) <= Capacity
      /\ st.copy \in [Inode -> INode] /\ st.mem \in [Inode -> INode] /\ st.ideal \in [Inode -> INode]
      /\ st.dirty \subseteq Inode /\ st.used \subseteq Inode /\ st.dirty \subseteq Range(st.list)
      /\ \A j : Contains(st.list, j) <=> j \in Range(st.list)
  BY SoundFields DEF Good
<1>2. /\ cache_list' = st.list /\ copy' = c /\ dirty' = st.dirty /\ mem' = st.mem /\ used' = st.used
      /\ up' = up /\ intact' = intact /\ dangling' = FALSE
  BY DEF Becomes
<1>3. truth' = st.ideal
  <2>1. truth' = [i \in Inode |-> [st.ideal[i] EXCEPT !.links = 0]]
    BY DEF Becomes
  <2>2. ASSUME NEW i \in Inode PROVE [st.ideal[i] EXCEPT !.links = 0] = st.ideal[i]
    <3>1. st.ideal[i] \in INode /\ st.ideal[i].links = 0
      BY <1>1 DEF Good
    <3> QED
      BY <3>1 DEF INode
  <2>3. truth' = [i \in Inode |-> st.ideal[i]]
    BY <2>1, <2>2
  <2> QED
    BY <1>1, <2>3
<1>4. c \in [Inode -> INode] /\ \A j \in Range(st.list) : c[j] = st.copy[j]
  <2>1. Range(st.list) \subseteq Inode
    BY <1>1, ListFacts
  <2> QED
    BY <1>1, <2>1, BlankNode
<1> HIDE DEF c
<1>5. TypeOK'
  <2>1. /\ cache_list' \in Seq(Inode) /\ IsInjective(cache_list')
        /\ Len(cache_list') <= Capacity /\ dirty' \subseteq Range(cache_list')
    BY <1>1, <1>2 DEF List
  <2>2. used' \subseteq Inode /\ {copy', mem', truth'} \subseteq [Inode -> INode]
    BY <1>1, <1>2, <1>3, <1>4
  <2>3. {up', intact', dangling'} \subseteq BOOLEAN
    BY <1>2 DEF Inv, TypeOK
  <2> QED
    BY <2>1, <2>2, <2>3 DEF TypeOK
<1>6. State' = n
  BY <1>2, <1>3 DEF State
<1>7. Good(n)
  <2>1. n \in St
    BY <1>1, <1>4 DEF St
  <2>2. /\ n.list = st.list /\ n.copy = c /\ n.dirty = st.dirty /\ n.mem = st.mem
        /\ n.used = st.used /\ n.ideal = st.ideal
    OBVIOUS
  <2> HIDE DEF n
  <2>3. Sound(n)
    BY <1>1, <2>1, <2>2 DEF Sound
  <2>4. \A j \in Inode : Views(n, j) = Views(st, j)
    BY <1>4, <2>2 DEF Views
  <2>5. \A j \in Inode : Fits(n, j) /\ n.ideal[j].links = 0
    BY <2>2, <2>4 DEF Good, Fits
  <2> QED
    BY <2>2, <2>3, <2>5 DEF Good
<1> HIDE DEF n
<1>8. Good(State)'
  BY <1>6, <1>7
<1>9. \A i \in Inode : truth'[i].links = 0
  BY <1>3 DEF Good
<1>10. PointersStay'
  BY <1>2 DEF PointersStay
<1> QED
  BY <1>2, <1>5, <1>8, <1>9, <1>10 DEF Inv

\* A lookup changes nothing but what is cached.
LEMMA LookupKeeps ==
    ASSUME Inv, NEW i \in Inode, Lookup(i)
    PROVE  Inv'
<1> DEFINE r == Get(State, i)
<1>1. up /\ intact /\ Becomes(r, {})
  BY DEF Lookup, Running
<1>2. Good(State)
  BY <1>1 DEF Inv
<1>3. Good(r)
  BY <1>2, GotGood
<1> HIDE DEF r
<1> QED
  BY <1>1, <1>3, BecomesGood

\* A file has no entries any more once it is written: some inodes may have fewer names.
LEMMA WriteFileKeeps ==
    ASSUME Inv, NEW i \in Inode, NEW v \in Value, NEW how \in How, WriteFile(i, v, how)
    PROVE  Inv'
<1> DEFINE b == Taken(State, i)
           r == Data(b, i, {}, v, how)
<1>1. up /\ intact /\ Becomes(r, {i}) /\ i \in used
  BY DEF WriteFile, Running
<1>2. Good(State)
  BY <1>1 DEF Inv
<1>3. /\ Good(b) /\ i \in Range(b.list) /\ b.used = used /\ i \notin b.out
  BY <1>2, TakenGood, StateFields
<1> HIDE DEF b
<1>4. /\ Did(b, r, i) /\ r.used = b.used /\ i \in r.dirty
      /\ r.copy[i] = Rewritten(b.copy[i], {}, v, how)
      /\ r.ideal[i] = Rewritten(b.ideal[i], {}, v, how)
  BY <1>3, DataHit DEF Good
<1> HIDE DEF r
<1>5. Sound(b) /\ Sound(r) /\ r.out = b.out /\ Range(r.list) = Range(b.list)
  BY <1>3, <1>4 DEF Good, Did
<1>6. /\ b.copy[i] \in INode /\ b.ideal[i] \in INode
      /\ b.ideal \in [Inode -> INode] /\ r.ideal \in [Inode -> INode] /\ b.used \in SUBSET Inode
  BY <1>5, SoundFields
<1>7. /\ r.copy[i].links = b.copy[i].links /\ r.copy[i].type = b.copy[i].type
      /\ r.ideal[i].links = b.ideal[i].links /\ r.ideal[i].type = b.ideal[i].type
      /\ r.ideal[i].names \subseteq b.ideal[i].names
  BY <1>4, <1>6, RewrittenFields
<1>8. b.copy[i] \in Views(b, i) /\ Views(r, i) = {r.copy[i]}
  BY <1>3, <1>4, <1>5 DEF Views
<1>9. \A j \in Inode : r.ideal[j].names \subseteq b.ideal[j].names /\ r.ideal[j].type = b.ideal[j].type
  BY <1>4, <1>7 DEF Did
<1>10. ASSUME NEW j \in Inode PROVE Names(r.ideal, r.used, j) <= Names(b.ideal, b.used, j)
  <2>1. Parents(r.ideal, r.used, j) \subseteq Parents(b.ideal, b.used, j)
    BY <1>4, <1>6, <1>9 DEF Parents
  <2>2. Kids(r.ideal, j) \subseteq Kids(b.ideal, j)
    <3>1. b.ideal[j] \in INode
      BY <1>6
    <3>2. b.ideal[j].names \subseteq Inode
      BY <3>1 DEF INode
    <3> QED
      BY <1>9, <3>2 DEF Kids
  <2> QED
    BY <1>4, <1>6, <2>1, <2>2, NamesShrink
<1>11. ASSUME NEW j \in Inode PROVE Fits(r, j)
  <2>1. Fits(b, j)
    BY <1>3 DEF Good
  <2>2. Names(r.ideal, r.used, j) <= Names(b.ideal, b.used, j)
        /\ Names(r.ideal, r.used, j) \in Nat /\ Names(b.ideal, b.used, j) \in Nat
    BY <1>4, <1>6, <1>10, NamesType
  <2>3. CASE j = i
    <3>1. Agree(b.copy[i], b.ideal[i]) /\ b.copy[i].links >= Names(b.ideal, b.used, i)
      BY <1>1, <1>3, <1>8, <2>1, <2>3 DEF Fits
    <3>2. Agree(r.copy[i], r.ideal[i])
      BY <1>4, <1>6, <3>1, RewrittenFields DEF Agree
    <3>3. b.copy[i].links \in Nat
      BY <1>6, CacheAssumption DEF INode
    <3> QED
      BY <1>1, <1>3, <1>4, <1>7, <1>8, <2>2, <2>3, <3>1, <3>2, <3>3 DEF Fits
  <2>4. CASE j # i
    <3>1. Views(r, j) = Views(b, j) /\ r.ideal[j] = b.ideal[j]
      BY <1>4, <1>5, <2>4 DEF Did, Views
    <3>2. \A w \in Views(r, j) : w.links \in Nat
      <4>1. Views(r, j) \subseteq INode
        BY <1>5, ViewsType
      <4> QED
        BY <4>1, CacheAssumption DEF INode
    <3> QED
      BY <1>4, <2>1, <2>2, <3>1, <3>2 DEF Fits
  <2> QED
    BY <2>3, <2>4
<1>12. \A j \in Inode : r.ideal[j].links = 0
  BY <1>3, <1>4, <1>7 DEF Did, Good
<1>13. \A d \in r.used : r.ideal[d].names \subseteq r.used
  BY <1>3, <1>4, <1>6, <1>9 DEF Good
<1>14. Good(r)
  BY <1>5, <1>11, <1>12, <1>13 DEF Good
<1>15. r.out \cap {i} = {}
  BY <1>3, <1>5
<1> QED
  BY <1>1, <1>14, <1>15, BecomesGood
-----------------------------------------------------------------------------
\* A directory's size shrinks by an entry.
Without(st, p, i) ==
    LET shrunk(nodes) == [nodes EXCEPT ![p] = [nodes[p] EXCEPT !.names = nodes[p].names \ {i}]]
    IN  Marked([st EXCEPT !.copy = shrunk(st.copy), !.ideal = shrunk(st.ideal)], p)

\* The entry of i is taken out of the directory p, when both are cached.
Removed(st, p, i, how) ==
    LET found == Linked(st, i, -1)
        rest == Get(IF found.copy[i].links = 0 THEN Wipe(found, i) ELSE found, p)
        moved == Data(rest, p, rest.copy[p].names, Zero, how)
    IN  Without(moved, p, i)

\* Dropping an entry from a cached directory is an operation on the directory.
LEMMA Shrunk ==
    ASSUME NEW st, Sound(st), NEW p \in Range(st.list), NEW i \in Inode
    PROVE  LET r == Without(st, p, i)
           IN  /\ Did(st, r, p) /\ r.used = st.used /\ p \in r.dirty
               /\ r.copy[p] = [st.copy[p] EXCEPT !.names = st.copy[p].names \ {i}]
               /\ r.ideal[p] = [st.ideal[p] EXCEPT !.names = st.ideal[p].names \ {i}]
<1> DEFINE shrunk(nodes) == [nodes EXCEPT ![p] = [nodes[p] EXCEPT !.names = nodes[p].names \ {i}]]
           cc == shrunk(st.copy)
           tt == shrunk(st.ideal)
           z == [st EXCEPT !.copy = cc, !.ideal = tt]
           r == Marked(z, p)
<1>a. Without(st, p, i) = r
  BY DEF Without
<1>1. st \in St /\ st.copy \in [Inode -> INode] /\ st.ideal \in [Inode -> INode] /\ p \in Inode
  BY SoundFields DEF Sound
<1>2. ASSUME NEW x \in INode PROVE [x EXCEPT !.names = x.names \ {i}] \in INode
  BY DEF INode
<1>3. /\ cc \in [Inode -> INode] /\ tt \in [Inode -> INode]
      /\ cc[p] = [st.copy[p] EXCEPT !.names = st.copy[p].names \ {i}]
      /\ tt[p] = [st.ideal[p] EXCEPT !.names = st.ideal[p].names \ {i}]
      /\ \A j \in Inode \ {p} : cc[j] = st.copy[j] /\ tt[j] = st.ideal[j]
  BY <1>1, <1>2
<1> HIDE DEF cc, tt
<1>4. /\ z \in St /\ z.list = st.list /\ z.copy = cc /\ z.ideal = tt
      /\ z.dirty = st.dirty /\ z.mem = st.mem /\ z.out = st.out /\ z.used = st.used
  BY <1>1, <1>3 DEF St
<1> HIDE DEF z
<1>5. Sound(z)
  BY <1>4 DEF Sound
<1>6. Did(st, z, p)
  BY <1>3, <1>4, <1>5 DEF Did
<1>7. /\ r.copy = z.copy /\ r.ideal = z.ideal /\ r.used = z.used /\ r.dirty = z.dirty \cup {p}
      /\ Did(z, r, p)
  BY <1>4, <1>5, MarkedGot
<1> HIDE DEF r
<1>8. /\ Did(st, r, p) /\ r.used = st.used /\ p \in r.dirty
      /\ r.copy[p] = [st.copy[p] EXCEPT !.names = st.copy[p].names \ {i}]
      /\ r.ideal[p] = [st.ideal[p] EXCEPT !.names = st.ideal[p].names \ {i}]
  BY <1>3, <1>4, <1>6, <1>7, DidTwice
<1> QED
  BY <1>a, <1>8

\* What a removal makes of the directory, and of the inode that was named.
LEMMA RemoveHit ==
    ASSUME NEW st, Sound(st), NEW p \in Range(st.list), NEW i \in Range(st.list), p # i,
           st.copy[i].links + (-1) \in 0 .. MaxLinks + 1, NEW how \in {"saved", "kept"}
    PROVE  LET r == Removed(st, p, i, how)
           IN  /\ Pair(st, r, p, i) /\ p \in r.dirty
               /\ r.copy[p] \in INode /\ r.ideal[p] \in INode
               /\ r.copy[p].type = st.copy[p].type /\ r.copy[p].links = st.copy[p].links
               /\ r.copy[p].names = st.copy[p].names \ {i} /\ r.copy[p].data = Zero
               /\ r.ideal[p].type = st.ideal[p].type /\ r.ideal[p].links = st.ideal[p].links
               /\ r.ideal[p].names = st.copy[p].names \ {i} /\ r.ideal[p].data = Zero
               /\ \/ /\ st.copy[i].links = 1
                     /\ r.used = st.used \ {i} /\ i \in r.dirty
                     /\ r.copy[i] = Blank /\ r.ideal[i] = Blank
                  \/ /\ r.used = st.used /\ (i \in r.dirty <=> i \in st.dirty)
                     /\ r.mem[i] = st.mem[i] /\ r.ideal[i] = st.ideal[i]
                     /\ r.copy[i] = [st.copy[i] EXCEPT !.links = st.copy[i].links + (-1)]
<1> DEFINE f == Linked(st, i, -1)
           w == IF f.copy[i].links = 0 THEN Wipe(f, i) ELSE f
           h == Get(w, p)
           m == Data(h, p, h.copy[p].names, Zero, how)
           r == Without(m, p, i)
<1>0. p \in Inode /\ i \in Inode
  BY SoundFields
<1>a. Removed(st, p, i, how) = r
  BY DEF Removed
<1>1. /\ Did(st, f, i) /\ f.used = st.used /\ f.dirty = st.dirty
      /\ f.copy[i] = [st.copy[i] EXCEPT !.links = st.copy[i].links + (-1)]
      /\ f.ideal[i] = st.ideal[i] /\ f.mem[i] = st.mem[i]
  BY LinkedHit
<1> HIDE DEF f
<1>2. Sound(f) /\ Range(f.list) = Range(st.list)
  BY <1>1 DEF Did
<1>3. /\ Did(st, w, i)
      /\ \/ /\ st.copy[i].links = 1
            /\ w.used = st.used \ {i} /\ i \in w.dirty
            /\ w.copy[i] = Blank /\ w.ideal[i] = Blank
         \/ /\ w.used = st.used /\ (i \in w.dirty <=> i \in st.dirty)
            /\ w.mem[i] = st.mem[i] /\ w.ideal[i] = st.ideal[i]
            /\ w.copy[i] = [st.copy[i] EXCEPT !.links = st.copy[i].links + (-1)]
  <2>1. CASE f.copy[i].links = 0
    <3>1. w = Wipe(f, i)
      BY <2>1
    <3> HIDE DEF w
    <3>2. /\ Did(f, w, i) /\ w.used = f.used \ {i} /\ i \in w.dirty
          /\ w.copy[i] = Blank /\ w.ideal[i] = Blank
      BY <1>2, <3>1, WipeHit
    <3>3. st.copy[i].links = 1
      <4>1. st.copy[i] \in INode
        BY <1>0, SoundFields
      <4>2. f.copy[i].links = st.copy[i].links + (-1)
        BY <1>1, <4>1 DEF INode
      <4>3. st.copy[i].links \in Int
        BY <4>1, CacheAssumption DEF INode
      <4> QED
        BY <2>1, <4>2, <4>3
    <3>4. Did(st, w, i)
      BY <1>1, <3>2, DidTwice
    <3> QED
      BY <1>1, <3>2, <3>3, <3>4
  <2>2. CASE f.copy[i].links # 0
    BY <1>1, <2>2
  <2> QED
    BY <2>1, <2>2
<1> HIDE DEF w
<1>4. Sound(w) /\ Range(w.list) = Range(st.list)
  BY <1>3 DEF Did
<1>5. /\ Sound(h) /\ Range(h.list) = Range(st.list)
      /\ h.copy = w.copy /\ h.dirty = w.dirty /\ h.mem = w.mem
      /\ h.out = w.out /\ h.used = w.used /\ h.ideal = w.ideal
  BY <1>4, GetHit
<1> HIDE DEF h
<1>6. /\ h.copy[p] = st.copy[p] /\ h.ideal[p] = st.ideal[p]
      /\ st.copy[p] \in INode /\ st.ideal[p] \in INode /\ st.copy[p].names \in SUBSET Inode
  <2>1. w.copy[p] = st.copy[p] /\ w.ideal[p] = st.ideal[p]
    BY <1>0, <1>3 DEF Did
  <2>2. st.copy[p] \in INode /\ st.ideal[p] \in INode
    BY <1>0, SoundFields
  <2> QED
    BY <1>5, <2>1, <2>2 DEF INode
<1>7. how \in How /\ how # "failed" /\ Zero \in Value
  BY CacheAssumption DEF How
<1>8. /\ Did(h, m, p) /\ m.used = h.used /\ p \in m.dirty
      /\ m.copy[p] = Rewritten(st.copy[p], st.copy[p].names, Zero, how)
      /\ m.ideal[p] = Rewritten(st.ideal[p], st.copy[p].names, Zero, how)
  BY <1>5, <1>6, <1>7, DataHit
<1> HIDE DEF m
<1>9. Sound(m) /\ Range(m.list) = Range(st.list)
  BY <1>5, <1>8 DEF Did
<1>10. /\ Did(m, r, p) /\ r.used = m.used /\ p \in r.dirty
       /\ r.copy[p] = [m.copy[p] EXCEPT !.names = m.copy[p].names \ {i}]
       /\ r.ideal[p] = [m.ideal[p] EXCEPT !.names = m.ideal[p].names \ {i}]
  BY <1>0, <1>9, Shrunk
<1> HIDE DEF r
<1>11. /\ m.copy[p] \in INode /\ m.copy[p].type = st.copy[p].type /\ m.copy[p].links = st.copy[p].links
       /\ m.copy[p].names = st.copy[p].names /\ m.copy[p].data = Zero
       /\ m.ideal[p] \in INode /\ m.ideal[p].type = st.ideal[p].type
       /\ m.ideal[p].links = st.ideal[p].links
       /\ m.ideal[p].names = st.copy[p].names /\ m.ideal[p].data = Zero
  BY <1>6, <1>7, <1>8, RewrittenFields
<1>12. ASSUME NEW x \in INode, NEW y, y = [x EXCEPT !.names = x.names \ {i}]
       PROVE  /\ y \in INode /\ y.type = x.type /\ y.links = x.links /\ y.data = x.data
              /\ y.names = x.names \ {i}
  BY <1>12 DEF INode
<1>13. /\ r.copy[p] \in INode /\ r.ideal[p] \in INode
       /\ r.copy[p].type = st.copy[p].type /\ r.copy[p].links = st.copy[p].links
       /\ r.copy[p].names = st.copy[p].names \ {i} /\ r.copy[p].data = Zero
       /\ r.ideal[p].type = st.ideal[p].type /\ r.ideal[p].links = st.ideal[p].links
       /\ r.ideal[p].names = st.copy[p].names \ {i} /\ r.ideal[p].data = Zero
  BY <1>10, <1>11, <1>12
<1>14. /\ r.copy[i] = w.copy[i] /\ r.mem[i] = w.mem[i] /\ r.ideal[i] = w.ideal[i] /\ r.used = w.used
       /\ i \in r.dirty <=> i \in w.dirty
  BY <1>0, <1>5, <1>8, <1>10 DEF Did
<1>15. Pair(st, r, p, i)
  <2>1. Did(w, h, p)
    BY <1>4, <1>5 DEF Did
  <2>2. Did(w, r, p)
    BY <1>8, <1>10, <2>1, DidTwice
  <2> QED
    BY <1>3, <2>2, DidIsPair, PairTwice
<1> QED
  BY <1>a, <1>3, <1>10, <1>13, <1>14, <1>15

\* An inode with an entry has a name.
LEMMA NamesPositive ==
    ASSUME NEW t \in [Inode -> INode], NEW u \in SUBSET Inode, NEW i \in Inode,
           NEW p \in Parents(t, u, i)
    PROVE  Names(t, u, i) >= 1
<1>1. Parents(t, u, i) \in SUBSET Inode
  BY NamesType
<1>2. Cardinality(Parents(t, u, i) \ {p}) = Cardinality(Parents(t, u, i)) - 1
  BY <1>1, InodeFinite, FS_RemoveElement
<1>3. Parents(t, u, i) \ {p} \in SUBSET Inode
  BY <1>1
<1>4. Cardinality(Parents(t, u, i) \ {p}) \in Nat
  BY <1>3, InodeFinite
<1>5. Cardinality(Parents(t, u, i)) \in Nat /\ Cardinality(Kids(t, i)) \in Nat
  BY NamesType
<1> QED
  BY <1>2, <1>4, <1>5 DEF Names

\* A cached inode in use: what is known of its copy.
LEMMA CachedFits ==
    ASSUME NEW st, Good(st), NEW i \in Range(st.list)
    PROVE  /\ i \in Inode /\ st.copy[i] \in INode /\ st.ideal[i] \in INode
           /\ st.copy[i].links \in Nat /\ st.copy[i].links <= MaxLinks + 1
           /\ Agree(st.copy[i], st.ideal[i])
           /\ i \in st.used => st.copy[i].links >= Names(st.ideal, st.used, i)
           /\ i \notin st.used => st.copy[i] = Blank
           /\ Names(st.ideal, st.used, i) \in Nat
<1>1. /\ st.copy \in [Inode -> INode] /\ st.ideal \in [Inode -> INode]
      /\ st.used \in SUBSET Inode /\ Range(st.list) \subseteq Inode
  BY SoundFields DEF Good
<1>2. i \in Inode /\ st.copy[i] \in INode /\ st.ideal[i] \in INode
  BY <1>1
<1>3. st.copy[i] \in Views(st, i)
  BY DEF Views
<1>4. Fits(st, i)
  BY <1>2 DEF Good
<1>5. st.copy[i].links \in Nat /\ st.copy[i].links <= MaxLinks + 1
  BY <1>2, CacheAssumption DEF INode
<1>6. Names(st.ideal, st.used, i) \in Nat
  BY <1>1, <1>2, NamesType
<1> QED
  BY <1>2, <1>3, <1>4, <1>5, <1>6 DEF Fits

\* Removing an entry from a good state leaves a good one: the inode goes when its links do, and
\* it has at least as many as names.
LEMMA RemovedGood ==
    ASSUME NEW st, Good(st), NEW p \in Range(st.list), NEW i \in Range(st.list), p # i,
           p \in st.used, i \in st.ideal[p].names, st.ideal[i].names = {},
           NEW how \in {"saved", "kept"}
    PROVE  Good(Removed(st, p, i, how)) /\ Removed(st, p, i, how).out = st.out
<1> DEFINE r == Removed(st, p, i, how)
<1>1. /\ st.ideal \in [Inode -> INode] /\ st.used \in SUBSET Inode /\ Sound(st)
      /\ p \in Inode /\ i \in Inode
  BY SoundFields DEF Good
<1>2. i \in st.used /\ p \in Parents(st.ideal, st.used, i)
  BY <1>1 DEF Good, Parents
<1>3. /\ st.copy[i] \in INode /\ st.copy[i].links \in Nat /\ st.copy[i].links <= MaxLinks + 1
      /\ Agree(st.copy[i], st.ideal[i])
      /\ st.copy[i].links >= Names(st.ideal, st.used, i)
      /\ Names(st.ideal, st.used, i) \in Nat /\ Names(st.ideal, st.used, i) >= 1
  BY <1>1, <1>2, CachedFits, NamesPositive
<1>4. /\ st.copy[p] \in INode /\ st.copy[p].links \in Nat
      /\ Agree(st.copy[p], st.ideal[p])
      /\ st.copy[p].links >= Names(st.ideal, st.used, p) /\ Names(st.ideal, st.used, p) \in Nat
  BY CachedFits
<1>5. st.copy[i].links + (-1) \in 0 .. MaxLinks + 1
  BY <1>3, CacheAssumption
<1>6. /\ Pair(st, r, p, i) /\ p \in r.dirty
      /\ r.copy[p] \in INode /\ r.ideal[p] \in INode
      /\ r.copy[p].type = st.copy[p].type /\ r.copy[p].links = st.copy[p].links
      /\ r.copy[p].names = st.copy[p].names \ {i} /\ r.copy[p].data = Zero
      /\ r.ideal[p].type = st.ideal[p].type /\ r.ideal[p].links = st.ideal[p].links
      /\ r.ideal[p].names = st.copy[p].names \ {i} /\ r.ideal[p].data = Zero
      /\ \/ /\ st.copy[i].links = 1
            /\ r.used = st.used \ {i} /\ i \in r.dirty
            /\ r.copy[i] = Blank /\ r.ideal[i] = Blank
         \/ /\ r.used = st.used /\ (i \in r.dirty <=> i \in st.dirty)
            /\ r.mem[i] = st.mem[i] /\ r.ideal[i] = st.ideal[i]
            /\ r.copy[i] = [st.copy[i] EXCEPT !.links = st.copy[i].links + (-1)]
  BY <1>1, <1>5, RemoveHit
<1> HIDE DEF r
<1>7. Sound(r) /\ Range(r.list) = Range(st.list) /\ r.out = st.out
  BY <1>6 DEF Pair
<1>8. r.ideal \in [Inode -> INode] /\ r.used \in SUBSET Inode
  BY <1>7, SoundFields
<1>9. Blank.type = "File" /\ Blank.links = 0 /\ Blank.names = {}
  BY DEF Blank
<1>10. \A j \in Inode \ {p, i} : r.ideal[j] = st.ideal[j] /\ Views(r, j) = Views(st, j)
  BY <1>6, <1>7 DEF Pair, Views
<1>11. /\ \A j \in Inode : r.ideal[j].names \subseteq st.ideal[j].names
       /\ \A j \in Inode : r.ideal[j].type = "Directory" => st.ideal[j].type = "Directory"
       /\ i \notin r.ideal[p].names
       /\ r.used \subseteq st.used
  <2>1. r.ideal[p].names = st.ideal[p].names \ {i} /\ r.ideal[p].type = st.ideal[p].type
    BY <1>4, <1>6 DEF Agree
  <2>2. /\ r.ideal[i].names \subseteq st.ideal[i].names
        /\ r.ideal[i].type = "Directory" => st.ideal[i].type = "Directory"
        /\ r.used \subseteq st.used
    BY <1>6, <1>9
  <2> QED
    BY <1>1, <1>10, <2>1, <2>2
<1>12. ASSUME NEW j \in Inode
       PROVE  /\ Parents(r.ideal, r.used, j) \subseteq Parents(st.ideal, st.used, j)
              /\ Kids(r.ideal, j) \subseteq Kids(st.ideal, j)
  <2>1. Parents(r.ideal, r.used, j) \subseteq Parents(st.ideal, st.used, j)
    BY <1>8, <1>11 DEF Parents
  <2>2. r.ideal[j].names \subseteq Inode
    <3>1. r.ideal[j] \in INode
      BY <1>8
    <3> QED
      BY <3>1 DEF INode
  <2>3. Kids(r.ideal, j) \subseteq Kids(st.ideal, j)
    BY <1>11, <2>2 DEF Kids
  <2> QED
    BY <2>1, <2>3
<1>13. \A j \in Inode : /\ Names(r.ideal, r.used, j) <= Names(st.ideal, st.used, j)
                        /\ Names(r.ideal, r.used, j) \in Nat /\ Names(st.ideal, st.used, j) \in Nat
  BY <1>1, <1>8, <1>12, NamesShrink, NamesType
<1>14. Names(r.ideal, r.used, i) <= Names(st.ideal, st.used, i) - 1
  <2>1. Parents(r.ideal, r.used, i) \subseteq Parents(st.ideal, st.used, i) \ {p}
    BY <1>1, <1>11, <1>12 DEF Parents
  <2> QED
    BY <1>1, <1>2, <1>8, <1>12, <2>1, NamesLess
<1>15. \A d \in r.used : r.ideal[d].names \subseteq r.used
  <2>1. \A d \in r.used : r.ideal[d].names \subseteq st.used
    <3>1. \A d \in st.used : st.ideal[d].names \subseteq st.used
      BY DEF Good
    <3> QED
      BY <1>8, <1>11, <3>1
  <2>2. CASE r.used = st.used
    BY <2>1, <2>2
  <2>3. CASE r.used = st.used \ {i} /\ st.copy[i].links = 1
    <3>0. /\ Names(r.ideal, r.used, i) \in Nat /\ Names(st.ideal, st.used, i) \in Nat
          /\ Names(st.ideal, st.used, i) <= 1
      BY <1>1, <1>3, <1>13, <2>3
    <3>1. Names(r.ideal, r.used, i) = 0
      BY <1>14, <3>0
    <3>2. Parents(r.ideal, r.used, i) \in SUBSET Inode
          /\ Cardinality(Parents(r.ideal, r.used, i)) \in Nat /\ Cardinality(Kids(r.ideal, i)) \in Nat
      BY <1>1, <1>8, NamesType
    <3>3. Cardinality(Parents(r.ideal, r.used, i)) = 0
      BY <3>1, <3>2 DEF Names
    <3>4. Parents(r.ideal, r.used, i) = {}
      BY <3>2, <3>3, InodeFinite, FS_EmptySet
    <3>5. \A d \in r.used : i \notin r.ideal[d].names
      BY <3>4 DEF Parents
    <3> QED
      BY <2>1, <2>3, <3>5
  <2> QED
    BY <1>6, <2>2, <2>3
<1>16. \A j \in Inode : r.ideal[j].links = 0
  <2>1. \A j \in Inode : st.ideal[j].links = 0
    BY DEF Good
  <2>2. r.ideal[p].links = 0 /\ r.ideal[i].links = 0
    BY <1>1, <1>6, <1>9, <2>1
  <2> QED
    BY <1>10, <2>1, <2>2
<1>17. ASSUME NEW j \in Inode PROVE Fits(r, j)
  <2>1. Fits(st, j)
    BY DEF Good
  <2>2. /\ Names(r.ideal, r.used, j) <= Names(st.ideal, st.used, j)
        /\ Names(r.ideal, r.used, j) \in Nat /\ Names(st.ideal, st.used, j) \in Nat
    BY <1>13
  <2>3. CASE j = p
    <3>1. Views(r, j) = {r.copy[p]}
      BY <1>6, <1>7, <2>3 DEF Views
    <3>2. Agree(r.copy[p], r.ideal[p])
      BY <1>4, <1>6 DEF Agree
    <3>3. p \in r.used
      BY <1>6
    <3> QED
      BY <1>4, <1>6, <2>2, <2>3, <3>1, <3>2, <3>3 DEF Fits
  <2>4. CASE j = i
    <3>1. CASE r.used = st.used \ {i} /\ i \in r.dirty /\ r.copy[i] = Blank /\ r.ideal[i] = Blank
      <4>1. Views(r, j) = {Blank}
        BY <1>7, <2>4, <3>1 DEF Views
      <4> QED
        BY <2>4, <3>1, <4>1 DEF Fits, Agree
    <3>2. CASE /\ r.used = st.used /\ (i \in r.dirty <=> i \in st.dirty)
               /\ r.mem[i] = st.mem[i] /\ r.ideal[i] = st.ideal[i]
               /\ r.copy[i] = [st.copy[i] EXCEPT !.links = st.copy[i].links + (-1)]
      <4> DEFINE c == [st.copy[i] EXCEPT !.links = st.copy[i].links + (-1)]
      <4>1. /\ c.type = st.copy[i].type /\ c.names = st.copy[i].names /\ c.data = st.copy[i].data
            /\ c.links = st.copy[i].links - 1
        BY <1>3, <1>5 DEF INode
      <4>2. r.copy[i] = c
        BY <3>2
      <4> HIDE DEF c
      <4>3. Agree(r.copy[i], r.ideal[i])
        BY <1>3, <3>2, <4>1, <4>2 DEF Agree
      <4>4. r.copy[i].links >= Names(r.ideal, r.used, i)
        BY <1>3, <1>14, <2>2, <2>4, <4>1, <4>2
      <4>5. i \in r.used
        BY <1>2, <3>2
      <4>6. Views(r, i) \subseteq {r.copy[i]} \cup Views(st, i)
        BY <1>7, <3>2 DEF Views
      <4>7. \A w \in Views(st, i) : w.links \in Nat
        <5>1. Views(st, i) \subseteq INode
          BY <1>1, ViewsType
        <5> QED
          BY <5>1, CacheAssumption DEF INode
      <4>8. ASSUME NEW w \in Views(st, i)
            PROVE  Agree(w, r.ideal[i]) /\ w.links >= Names(r.ideal, r.used, i)
        BY <1>2, <2>1, <2>2, <2>4, <3>2, <4>7 DEF Fits
      <4> QED
        BY <2>4, <4>3, <4>4, <4>5, <4>6, <4>8 DEF Fits
    <3> QED
      BY <1>6, <3>1, <3>2
  <2>5. CASE j \notin {p, i}
    <3>1. Views(r, j) = Views(st, j) /\ r.ideal[j] = st.ideal[j]
      BY <1>10, <2>5
    <3>2. j \in r.used <=> j \in st.used
      BY <1>6, <2>5
    <3>3. \A w \in Views(st, j) : w.links \in Nat
      <4>1. Views(st, j) \subseteq INode
        BY <1>1, ViewsType
      <4> QED
        BY <4>1, CacheAssumption DEF INode
    <3> QED
      BY <2>1, <2>2, <3>1, <3>2, <3>3 DEF Fits
  <2> QED
    BY <2>3, <2>4, <2>5
<1>18. Good(r)
  BY <1>7, <1>15, <1>16, <1>17 DEF Good
<1> QED
  BY <1>7, <1>18 DEF r

\* remove_diritem has pointers to the directory and to the inode it names while it
\* fetches both: the cache has room for two.
LEMMA RemoveEntryKeeps ==
    ASSUME Inv, NEW p \in Inode, NEW i \in Inode, NEW how \in {"saved", "kept"},
           RemoveEntry(p, i, how)
    PROVE  Inv'
<1> DEFINE a == Taken(State, p)
           b == Taken(a, i)
           g == Get(State, p)
           h == Get(g, i)
           r == Removed(b, p, i, how)
<1>1. up /\ intact /\ p \in used /\ i \in g.copy[p].names /\ h.copy[i].names = {}
  BY DEF RemoveEntry, Running
<1>2. Becomes(r, {p, i})
  BY DEF RemoveEntry, Removed, Without
<1> HIDE DEF r
<1>3. Good(State)
  BY <1>1 DEF Inv
<1>4. i \in truth[p].names /\ truth[i].names = {}
  <2>1. /\ Good(g) /\ p \in Range(g.list) /\ g.ideal = truth
        /\ Good(h) /\ i \in Range(h.list) /\ h.ideal = truth
    <3>1. Good(g) /\ p \in Range(g.list) /\ g.ideal = truth
      BY <1>3, GotGood, Got, StateFields DEF Good
    <3> HIDE DEF g
    <3>2. Good(h) /\ i \in Range(h.list) /\ h.ideal = truth
      BY <3>1, GotGood, Got DEF Good
    <3> QED
      BY <3>1, <3>2
  <2> HIDE DEF g, h
  <2>2. Agree(g.copy[p], truth[p]) /\ Agree(h.copy[i], truth[i])
    BY <2>1, CachedFits
  <2> QED
    BY <1>1, <2>2 DEF Agree
<1>5. /\ Good(a) /\ p \in Range(a.list) /\ a.list[1] = p /\ a.used = used /\ a.ideal = truth
      /\ p \notin a.out
  BY <1>3, TakenGood, StateFields
<1> HIDE DEF a
<1>6. Len(a.list) # 0
  <2>1. a.list \in List
    BY <1>5, SoundFields DEF Good
  <2>2. DOMAIN a.list = 1 .. Len(a.list) /\ Len(a.list) \in Nat
    BY <2>1, ListFacts
  <2> QED
    BY <1>5, <2>2 DEF Range
<1>7. /\ Good(b) /\ i \in Range(b.list) /\ p \in Range(b.list) /\ b.used = used /\ b.ideal = truth
      /\ \A j \in b.out : j # i /\ (j \in a.out \/ j \notin Range(b.list))
  BY <1>5, <1>6, TakenGood
<1> HIDE DEF b
<1>8. b.out \cap {p, i} = {}
  BY <1>5, <1>7
<1>9. p # i
  BY <1>4
<1>10. Good(r) /\ r.out = b.out
  BY <1>1, <1>4, <1>7, <1>9, RemovedGood DEF r
<1>11. r.out \cap {p, i} = {}
  BY <1>8, <1>10
<1> QED
  BY <1>1, <1>2, <1>10, <1>11, BecomesGood
-----------------------------------------------------------------------------
\* A new inode i, with its dots if it is a directory, before it has a name in p.
Fresh(st, p, i, type) ==
    LET new == Allocate(st, i, type)
    IN  IF type = "Directory" THEN Dots(new, i, p) ELSE new

\* An inode nobody has written to yet.
Clear(node, type) ==
    /\ node \in INode /\ node.type = type
    /\ node.links = 0 /\ node.names = {} /\ node.data = Zero

\* The new inode of create_dir and create_file, with its dots, whose ".." gives p a link.
LEMMA FreshHit ==
    ASSUME NEW st, Good(st), NEW p \in Range(st.list), NEW i \in Inode, p # i, i \notin st.used,
           NEW type \in {"File", "Directory"}, st.copy[p].links < MaxLinks,
           p \in Range(Get(st, i).list)
    PROVE  LET b == Get(st, i)
               r == Fresh(st, p, i, type)
           IN  /\ Pair(b, r, p, i) /\ r.used = st.used \cup {i} /\ i \in r.dirty
               /\ Clear(r.copy[i], type) /\ Clear(r.ideal[i], type)
               /\ r.copy[p] \in INode /\ r.copy[p].type = b.copy[p].type
               /\ r.copy[p].names = b.copy[p].names /\ r.copy[p].data = b.copy[p].data
               /\ r.copy[p].links = b.copy[p].links + IF type = "Directory" THEN 1 ELSE 0
               /\ r.ideal[p] = b.ideal[p] /\ r.mem[p] = b.mem[p]
               /\ p \in r.dirty <=> p \in b.dirty
<1> DEFINE b == Get(st, i)
           a == Allocate(st, i, type)
           r == Fresh(st, p, i, type)
<1>0. Sound(st) /\ p \in Inode
  BY SoundFields DEF Good
<1>1. /\ Good(b) /\ i \in Range(b.list) /\ b.used = st.used /\ b.copy[p] = st.copy[p]
      /\ p \in Range(b.list)
  BY <1>0, Got, GotGood
<1>2. /\ Did(b, a, i) /\ a.used = st.used \cup {i} /\ i \in a.dirty
      /\ a.copy[i] = Typed(b.copy[i], type)
      /\ a.ideal[i] = Typed(b.ideal[i], type)
  BY <1>0, Allocated
<1>3. r = IF type = "Directory" THEN Dots(a, i, p) ELSE a
  BY DEF Fresh
<1> HIDE DEF b, a, r
<1>4. /\ b.copy[i] = Blank /\ Agree(b.copy[i], b.ideal[i]) /\ b.ideal[i] \in INode
      /\ b.copy[p] \in INode /\ b.copy[p].links \in Nat
  BY <1>1, CachedFits
<1>5. b.ideal[i].links = 0
  BY <1>1 DEF Good
<1>6. Clear(b.copy[i], "File") /\ Clear(b.ideal[i], "File")
  BY <1>4, <1>5, BlankNode DEF Clear, Agree, Blank
<1>7. ASSUME NEW x, Clear(x, "File") PROVE Clear(Typed(x, type), type)
  BY <1>7 DEF Clear, INode, Typed
<1>8. Clear(a.copy[i], type) /\ Clear(a.ideal[i], type)
  BY <1>2, <1>6, <1>7
<1>9. /\ Sound(a) /\ Range(a.list) = Range(b.list)
      /\ a.copy[p] = b.copy[p] /\ a.ideal[p] = b.ideal[p] /\ a.mem[p] = b.mem[p]
      /\ p \in a.dirty <=> p \in b.dirty
  BY <1>0, <1>2 DEF Did
<1>10. Pair(b, a, p, i)
  BY <1>2, DidIsPair
<1>11. CASE type = "File"
  <2>1. r = a
    BY <1>3, <1>11
  <2>2. /\ r.copy[p] \in INode /\ r.copy[p].type = b.copy[p].type
        /\ r.copy[p].names = b.copy[p].names /\ r.copy[p].data = b.copy[p].data
        /\ r.copy[p].links = b.copy[p].links + IF type = "Directory" THEN 1 ELSE 0
    BY <1>4, <1>9, <1>11, <2>1
  <2> QED
    BY <1>2, <1>8, <1>9, <1>10, <2>1, <2>2 DEF r, b
<1>12. CASE type = "Directory"
  <2>1. r = Dots(a, i, p)
    BY <1>3, <1>12
  <2>2. a.copy[p].links + 1 \in 0 .. MaxLinks + 1
    BY <1>1, <1>4, <1>9, CacheAssumption
  <2>3. p \in Range(a.list) /\ i \in Range(a.list)
    BY <1>1, <1>9
  <2>4. /\ Pair(a, r, p, i) /\ r.used = a.used /\ i \in r.dirty
        /\ r.copy[i] = Rewritten(a.copy[i], {}, Zero, "saved")
        /\ r.ideal[i] = Rewritten(a.ideal[i], {}, Zero, "saved")
        /\ r.copy[p] = [a.copy[p] EXCEPT !.links = a.copy[p].links + 1]
        /\ r.ideal[p] = a.ideal[p] /\ r.mem[p] = a.mem[p]
        /\ p \in r.dirty <=> p \in a.dirty
    BY <1>2, <1>9, <2>1, <2>2, <2>3, DotsHit
  <2>5. ASSUME NEW x, Clear(x, type) PROVE Clear(Rewritten(x, {}, Zero, "saved"), type)
    <3>1. Zero \in Value /\ "saved" \in How
      BY CacheAssumption DEF How
    <3> QED
      BY <2>5, <3>1, RewrittenFields DEF Clear
  <2>6. Clear(r.copy[i], type) /\ Clear(r.ideal[i], type)
    BY <1>8, <2>4, <2>5
  <2>7. /\ r.copy[p] \in INode /\ r.copy[p].type = b.copy[p].type
        /\ r.copy[p].names = b.copy[p].names /\ r.copy[p].data = b.copy[p].data
        /\ r.copy[p].links = b.copy[p].links + 1
    <3> DEFINE x == a.copy[p]
               c == x.links + 1
               y == r.copy[p]
    <3>1. x \in INode /\ c \in 0 .. MaxLinks + 1 /\ y = [x EXCEPT !.links = c] /\ x = b.copy[p]
      BY <1>4, <1>9, <2>2, <2>4
    <3>2. c = b.copy[p].links + 1
      BY <1>9
    <3> HIDE DEF x, y, c
    <3>3. /\ y \in INode /\ y.type = x.type /\ y.names = x.names /\ y.data = x.data
          /\ y.links = c
      BY <3>1 DEF INode
    <3> QED
      BY <3>1, <3>2, <3>3 DEF y
  <2>8. Pair(b, r, p, i)
    BY <1>10, <2>4, PairTwice
  <2> QED
    BY <1>2, <1>9, <1>12, <2>4, <2>6, <2>7, <2>8 DEF r, b
<1> QED
  BY <1>11, <1>12

\* At most one name.
LEMMA NamesOne ==
    ASSUME NEW t, NEW u, NEW i, NEW p, Parents(t, u, i) \subseteq {p}, Kids(t, i) = {}
    PROVE  Names(t, u, i) <= 1
<1>1. IsFiniteSet({p}) /\ Cardinality({p}) = 1
  BY FS_Singleton
<1>2. Cardinality(Parents(t, u, i)) <= 1 /\ Cardinality(Parents(t, u, i)) \in Nat
  BY <1>1, FS_Subset, FS_CardinalityType
<1>3. Cardinality(Kids(t, i)) = 0
  BY FS_EmptySet
<1> QED
  BY <1>2, <1>3 DEF Names

\* The entries of directories that are in use name inodes that are in use; a free
\* inode names nothing.
LEMMA NamesInUse ==
    ASSUME NEW st, Good(st), NEW j \in Inode
    PROVE  /\ st.ideal[j] \in INode /\ st.ideal[j].names \subseteq st.used
           /\ j \notin st.used => st.ideal[j].names = {} /\ st.ideal[j].type = "File"
<1>1. /\ st.ideal \in [Inode -> INode] /\ st.mem \in [Inode -> INode] /\ st.used \subseteq Inode
  BY SoundFields DEF Good
<1>2. CASE j \in st.used
  BY <1>1, <1>2 DEF Good
<1>3. CASE j \notin st.used
  <2>1. Views(st, j) # {}
    BY DEF Views
  <2>2. Agree(Blank, st.ideal[j])
    BY <1>3, <2>1 DEF Good, Fits
  <2>3. Blank.names = {} /\ Blank.type = "File"
    BY DEF Blank
  <2> QED
    BY <1>1, <1>3, <2>2, <2>3 DEF Agree
<1> QED
  BY <1>2, <1>3

\* The new inode has one name at most, and p one more ".." at most.
LEMMA CreatedGood ==
    ASSUME NEW b, Good(b), NEW p \in Range(b.list), NEW i \in Range(b.list), p # i,
           p \in b.used, i \notin b.used, NEW type \in {"File", "Directory"}, NEW r,
           Pair(b, r, p, i), r.used = b.used \cup {i}, i \in r.dirty, p \in r.dirty,
           r.copy[i].links = 1, r.ideal[i].links = 0, r.copy[i].type = type, r.ideal[i].type = type,
           r.copy[i].names = {}, r.ideal[i].names = {}, r.copy[i].data = Zero, r.ideal[i].data = Zero,
           r.copy[p].type = b.copy[p].type, r.ideal[p].type = b.ideal[p].type,
           r.copy[p].links = b.copy[p].links + IF type = "Directory" THEN 1 ELSE 0,
           r.ideal[p].links = 0,
           r.copy[p].names = r.ideal[p].names, r.copy[p].data = r.ideal[p].data,
           r.ideal[p].names \subseteq b.ideal[p].names \cup {i}
    PROVE  Good(r)
<1>1. /\ Sound(b) /\ Sound(r) /\ Range(r.list) = Range(b.list)
      /\ b.ideal \in [Inode -> INode] /\ r.ideal \in [Inode -> INode]
      /\ b.used \in SUBSET Inode /\ r.used \in SUBSET Inode /\ p \in Inode /\ i \in Inode
  BY SoundFields DEF Good, Pair
<1>2. \A j \in Inode \ {p, i} : r.ideal[j] = b.ideal[j] /\ Views(r, j) = Views(b, j)
  BY <1>1 DEF Pair, Views
<1>3. \A j \in Inode : b.ideal[j].names \subseteq b.used
  BY NamesInUse
<1>4. /\ \A j \in Inode \ {p} : r.ideal[j].names \subseteq b.ideal[j].names
      /\ \A j \in Inode \ {i} : r.ideal[j].type = b.ideal[j].type
  BY <1>1, <1>2
<1>5. \A j \in Inode : Names(r.ideal, r.used, j) \in Nat /\ Names(b.ideal, b.used, j) \in Nat
  BY <1>1, NamesType
<1>6. ASSUME NEW j \in Inode \ {i}
      PROVE  Parents(r.ideal, r.used, j) \subseteq Parents(b.ideal, b.used, j)
  <2> SUFFICES ASSUME NEW d \in r.used, j \in r.ideal[d].names
               PROVE  d \in b.used /\ j \in b.ideal[d].names
    BY DEF Parents
  <2>1. d # i /\ d \in b.used /\ d \in Inode
    BY <1>1
  <2> QED
    BY <1>1, <1>4, <2>1
<1>7. ASSUME NEW j \in b.used, j # p PROVE Names(r.ideal, r.used, j) <= Names(b.ideal, b.used, j)
  <2>1. j \in Inode /\ j # i /\ r.ideal[j] = b.ideal[j]
    BY <1>1, <1>2, <1>7
  <2>2. i \notin b.ideal[j].names /\ b.ideal[j].names \subseteq Inode
    BY <1>1, <1>3, <2>1
  <2>3. Kids(r.ideal, j) \subseteq Kids(b.ideal, j)
    BY <1>4, <2>1, <2>2 DEF Kids
  <2> QED
    BY <1>1, <1>6, <2>1, <2>3, NamesShrink
<1>8. /\ type = "Directory" => Names(r.ideal, r.used, p) <= Names(b.ideal, b.used, p) + 1
      /\ type # "Directory" => Names(r.ideal, r.used, p) <= Names(b.ideal, b.used, p)
  <2>1. b.ideal[p].names \subseteq Inode
    BY <1>1, <1>3
  <2>2. Kids(r.ideal, p) \subseteq Kids(b.ideal, p) \cup {i}
    BY <1>4, <2>1 DEF Kids
  <2>3. type # "Directory" => Kids(r.ideal, p) \subseteq Kids(b.ideal, p)
    BY <2>2 DEF Kids
  <2>4. Parents(r.ideal, r.used, p) \subseteq Parents(b.ideal, b.used, p)
    BY <1>1, <1>6
  <2> QED
    BY <1>1, <2>2, <2>3, <2>4, NamesShrink, NamesMore
<1>9. Names(r.ideal, r.used, i) <= 1
  <2>1. Parents(r.ideal, r.used, i) \subseteq {p}
    <3> SUFFICES ASSUME NEW d \in r.used, i \in r.ideal[d].names, d # p PROVE FALSE
      BY DEF Parents
    <3>1. d \in Inode /\ i \in b.ideal[d].names
      BY <1>1, <1>4
    <3> QED
      BY <1>3, <3>1
  <2>2. Kids(r.ideal, i) = {}
    BY DEF Kids
  <2> QED
    BY <2>1, <2>2, NamesOne
<1>10. ASSUME NEW d \in r.used PROVE r.ideal[d].names \subseteq r.used
  <2>1. d \in Inode
    BY <1>1
  <2> QED
    BY <1>3, <1>4, <2>1
<1>11. ASSUME NEW j \in Inode PROVE Fits(r, j) /\ r.ideal[j].links = 0
  <2>1. Fits(b, j) /\ b.ideal[j].links = 0
    BY DEF Good
  <2>2. Names(r.ideal, r.used, j) \in Nat /\ Names(b.ideal, b.used, j) \in Nat
    BY <1>5
  <2>3. CASE j = p
    <3>1. Views(r, j) = {r.copy[p]}
      BY <1>1, <2>3 DEF Views
    <3>2. /\ Agree(b.copy[p], b.ideal[p]) /\ b.copy[p].links >= Names(b.ideal, b.used, p)
          /\ b.copy[p].links \in Nat
      BY CachedFits
    <3>3. Agree(r.copy[p], r.ideal[p])
      BY <3>2 DEF Agree
    <3>4. r.copy[p].links >= Names(r.ideal, r.used, p)
      <4>1. CASE type = "Directory"
        BY <1>8, <2>2, <2>3, <3>2, <4>1
      <4>2. CASE type # "Directory"
        BY <1>8, <2>2, <2>3, <3>2, <4>2
      <4> QED
        BY <4>1, <4>2
    <3> QED
      BY <2>3, <3>1, <3>3, <3>4 DEF Fits
  <2>4. CASE j = i
    <3>1. Views(r, j) = {r.copy[i]}
      BY <1>1, <2>4 DEF Views
    <3>2. Agree(r.copy[i], r.ideal[i])
      BY DEF Agree
    <3>3. r.copy[i].links >= Names(r.ideal, r.used, i)
      BY <1>9, <2>2, <2>4
    <3> QED
      BY <2>4, <3>1, <3>2, <3>3 DEF Fits
  <2>5. CASE j \notin {p, i}
    <3>1. Views(r, j) = Views(b, j) /\ r.ideal[j] = b.ideal[j] /\ (j \in r.used <=> j \in b.used)
      BY <1>2, <2>5
    <3>2. \A w \in Views(r, j) : w.links \in Nat
      <4>1. Views(r, j) \subseteq INode
        BY <1>1, ViewsType
      <4> QED
        BY <4>1, CacheAssumption DEF INode
    <3>3. j \in b.used => Names(r.ideal, r.used, j) <= Names(b.ideal, b.used, j)
      BY <1>7, <2>5
    <3> QED
      BY <2>1, <2>2, <3>1, <3>2, <3>3 DEF Fits
  <2> QED
    BY <2>3, <2>4, <2>5
<1> QED
  BY <1>1, <1>10, <1>11 DEF Good

\* The inode is given back at once when p is a file; p may have a link too many.
LEMMA AbandonedGood ==
    ASSUME NEW b, Good(b), NEW p \in Range(b.list), NEW i \in Range(b.list), p # i,
           p \in b.used, i \notin b.used, NEW r,
           Pair(b, r, p, i), r.used = b.used, i \in r.dirty,
           r.copy[i] = Blank, r.ideal[i] = Blank,
           r.ideal[p] = b.ideal[p], r.mem[p] = b.mem[p], p \in r.dirty <=> p \in b.dirty,
           r.copy[p].type = b.copy[p].type, r.copy[p].names = b.copy[p].names,
           r.copy[p].data = b.copy[p].data, r.copy[p].links >= b.copy[p].links
    PROVE  Good(r)
<1>1. /\ Sound(b) /\ Sound(r) /\ Range(r.list) = Range(b.list)
      /\ b.ideal \in [Inode -> INode] /\ r.ideal \in [Inode -> INode]
      /\ b.used \in SUBSET Inode /\ p \in Inode /\ i \in Inode
  BY SoundFields DEF Good, Pair
<1>2. \A j \in Inode \ {p, i} : r.ideal[j] = b.ideal[j] /\ Views(r, j) = Views(b, j)
  BY <1>1 DEF Pair, Views
<1>3. /\ b.ideal[i].names = {} /\ b.ideal[i].type = "File"
      /\ Blank.names = {} /\ Blank.type = "File" /\ Blank.links = 0
  BY <1>1, NamesInUse DEF Blank
<1>4. \A j \in Inode : r.ideal[j].names = b.ideal[j].names /\ r.ideal[j].type = b.ideal[j].type
  BY <1>1, <1>2, <1>3
<1>5. \A j \in Inode : b.ideal[j].names \subseteq Inode
  BY <1>1, NamesInUse
<1>6. ASSUME NEW j \in Inode
      PROVE  /\ Parents(r.ideal, r.used, j) = Parents(b.ideal, b.used, j)
             /\ Kids(r.ideal, j) = Kids(b.ideal, j)
  BY <1>1, <1>4, <1>5 DEF Parents, Kids
<1>7. \A j \in Inode : Names(r.ideal, r.used, j) = Names(b.ideal, b.used, j)
  BY <1>6 DEF Names
<1>8. ASSUME NEW j \in Inode PROVE Fits(r, j) /\ r.ideal[j].links = 0
  <2>1. Fits(b, j) /\ b.ideal[j].links = 0
    BY DEF Good
  <2>2. Names(r.ideal, r.used, j) = Names(b.ideal, b.used, j)
    BY <1>7
  <2>3. CASE j = p
    <3>1. Views(r, j) \subseteq {r.copy[p]} \cup Views(b, j)
      BY <1>1, <2>3 DEF Views
    <3>2. /\ Agree(b.copy[p], b.ideal[p]) /\ b.copy[p].links >= Names(b.ideal, b.used, p)
          /\ b.copy[p].links \in Nat /\ Names(b.ideal, b.used, p) \in Nat
      BY CachedFits
    <3>3. r.copy[p] \in INode
      BY <1>1, SoundFields
    <3>4. r.copy[p].links \in Nat
      BY <3>3, CacheAssumption DEF INode
    <3>5. Agree(r.copy[p], r.ideal[p]) /\ r.copy[p].links >= Names(r.ideal, r.used, p)
      BY <2>2, <2>3, <3>2, <3>4 DEF Agree
    <3> QED
      BY <2>1, <2>2, <2>3, <3>1, <3>5 DEF Fits
  <2>4. CASE j = i
    <3>1. Views(r, j) = {Blank}
      BY <1>1, <2>4 DEF Views
    <3> QED
      BY <1>3, <2>4, <3>1 DEF Fits, Agree
  <2>5. CASE j \notin {p, i}
    <3>1. Views(r, j) = Views(b, j) /\ r.ideal[j] = b.ideal[j]
      BY <1>2, <2>5
    <3> QED
      BY <2>1, <2>2, <3>1 DEF Fits
  <2> QED
    BY <2>3, <2>4, <2>5
<1>9. \A d \in r.used : r.ideal[d].names \subseteq r.used
  BY <1>1, <1>4 DEF Good
<1> QED
  BY <1>1, <1>8, <1>9 DEF Good

\* A list with an element is not empty.
LEMMA NotEmpty ==
    ASSUME NEW st, Sound(st), NEW x \in Range(st.list)
    PROVE  Len(st.list) # 0
<1>1. st.list \in List
  BY SoundFields
<1>2. DOMAIN st.list = 1 .. Len(st.list) /\ Len(st.list) \in Nat
  BY <1>1, ListFacts
<1> QED
  BY <1>2 DEF Range

\* create_dir and create_file fetch the directory and then the new inode, which stay.
LEMMA CreateKeeps ==
    ASSUME Inv, NEW p \in Inode, NEW type \in {"File", "Directory"}, NEW how \in How,
           Create(p, type, how)
    PROVE  Inv'
<1> DEFINE i == NextInode
           g == Get(State, p)
           b == Get(g, i)
           d == Fresh(g, p, i, type)
           k == AddDirItem(d, p, i, how)
           w == Wipe(Get(d, p), i)
<1>1. /\ up /\ intact /\ p \in used /\ used # Inode /\ g.copy[p].links < MaxLinks
      /\ IF g.copy[p].type = "Directory" THEN Becomes(k, {}) ELSE Becomes(w, {})
  BY DEF Create, Running, Fresh
<1> HIDE DEF k, w
<1>2. Good(State) /\ used \subseteq Inode
  BY <1>1 DEF Inv, TypeOK
<1>3. i \in Inode /\ i \notin used
  BY <1>1, <1>2, NextInodeFree
<1>4. p # i
  BY <1>1, <1>3
<1>5. /\ Good(g) /\ Sound(g) /\ p \in Range(g.list) /\ g.list[1] = p /\ g.used = used
  <2>1. Sound(State)
    BY <1>2 DEF Good
  <2>2. Sound(g) /\ p \in Range(g.list) /\ g.list[1] = p /\ g.used = used
    BY <2>1, Got, StateFields
  <2> QED
    BY <1>2, <2>2, GotGood
<1> HIDE DEF g, i
<1>6. Len(g.list) # 0
  BY <1>5, NotEmpty
<1>7. /\ Good(b) /\ Sound(b) /\ i \in Range(b.list) /\ p \in Range(b.list) /\ b.used = used
      /\ b.copy[p] = g.copy[p]
  BY <1>3, <1>5, <1>6, Got, GotGood
<1>8. /\ Pair(b, d, p, i) /\ d.used = used \cup {i} /\ i \in d.dirty
      /\ Clear(d.copy[i], type) /\ Clear(d.ideal[i], type)
      /\ d.copy[p] \in INode /\ d.copy[p].type = b.copy[p].type
      /\ d.copy[p].names = b.copy[p].names /\ d.copy[p].data = b.copy[p].data
      /\ d.copy[p].links = b.copy[p].links + IF type = "Directory" THEN 1 ELSE 0
      /\ d.ideal[p] = b.ideal[p] /\ d.mem[p] = b.mem[p]
      /\ p \in d.dirty <=> p \in b.dirty
  BY <1>1, <1>3, <1>4, <1>5, <1>7, FreshHit
<1> HIDE DEF b, d
<1>9. /\ b.copy[p] \in INode /\ b.ideal[p] \in INode /\ Agree(b.copy[p], b.ideal[p])
      /\ b.copy[p].links \in Nat
      /\ b.ideal[p].links = 0
  <2>1. /\ b.copy[p] \in INode /\ b.ideal[p] \in INode /\ Agree(b.copy[p], b.ideal[p])
        /\ b.copy[p].links \in Nat
    BY <1>7, CachedFits
  <2>2. b.ideal[p].links = 0
    BY <1>7 DEF Good
  <2> QED
    BY <2>1, <2>2
<1>10. Sound(d) /\ p \in Range(d.list) /\ i \in Range(d.list)
  BY <1>7, <1>8 DEF Pair
<1>11. CASE g.copy[p].type = "Directory"
  <2> DEFINE all == d.copy[p].names \cup {i}
  <2>4. all = d.copy[p].names \cup {i} /\ all \in SUBSET Inode /\ Zero \in Value
    BY <1>3, <1>8, CacheAssumption DEF INode
  <2> HIDE DEF all
  <2>1. d.copy[i].links + 1 = 1 /\ d.copy[i].links + 1 \in 0 .. MaxLinks + 1
    BY <1>8, CacheAssumption DEF Clear
  <2>0. k = AddDirItem(d, p, i, how)
    BY DEF k
  <2>2. /\ Pair(d, k, p, i) /\ k.used = d.used /\ i \in k.dirty /\ p \in k.dirty
        /\ k.copy[p] = Rewritten(d.copy[p], all, Zero, how)
        /\ k.ideal[p] = Rewritten(d.ideal[p], all, Zero, how)
        /\ k.copy[i] = OneMore(d.copy[i])
        /\ k.ideal[i] = d.ideal[i]
    <3>1. i \in d.dirty
      BY <1>8
    <3>2. Sound(d) /\ p \in Range(d.list) /\ i \in Range(d.list) /\ p # i /\ how \in How
      BY <1>4, <1>10
    <3>3. d.copy[i].links + 1 \in 0 .. MaxLinks + 1
      BY <2>1
    <3> QED
      <4>1. Added(d, AddDirItem(d, p, i, how), p, i, all, how)
        BY <2>4, <3>1, <3>2, <3>3, AddHit
      <4> QED
        BY <2>0, <4>1 DEF Added
  <2>3. Pair(b, k, p, i)
    BY <1>8, <2>2, PairTwice
  <2>5. /\ k.copy[p].type = b.copy[p].type /\ k.ideal[p].type = b.ideal[p].type
        /\ k.copy[p].links = b.copy[p].links + IF type = "Directory" THEN 1 ELSE 0
        /\ k.ideal[p].links = 0
        /\ k.copy[p].names = k.ideal[p].names /\ k.copy[p].data = k.ideal[p].data
        /\ k.ideal[p].names \subseteq b.ideal[p].names \cup {i}
    <3>1. /\ k.copy[p].type = d.copy[p].type /\ k.copy[p].links = d.copy[p].links
          /\ k.copy[p].names = IF how = "failed" THEN d.copy[p].names ELSE all
          /\ k.copy[p].data = IF how = "failed" THEN d.copy[p].data ELSE Zero
      BY <1>8, <2>2, <2>4, RewrittenFields
    <3>2. /\ k.ideal[p].type = b.ideal[p].type /\ k.ideal[p].links = b.ideal[p].links
          /\ k.ideal[p].names = IF how = "failed" THEN b.ideal[p].names ELSE all
          /\ k.ideal[p].data = IF how = "failed" THEN b.ideal[p].data ELSE Zero
      BY <1>8, <1>9, <2>2, <2>4, RewrittenFields
    <3>3. b.copy[p].names = b.ideal[p].names /\ b.copy[p].data = b.ideal[p].data
      BY <1>9 DEF Agree
    <3> QED
      BY <1>8, <1>9, <2>4, <3>1, <3>2, <3>3
  <2>6. /\ k.copy[i].links = 1 /\ k.ideal[i].links = 0 /\ k.copy[i].type = type /\ k.ideal[i].type = type
        /\ k.copy[i].names = {} /\ k.ideal[i].names = {} /\ k.copy[i].data = Zero /\ k.ideal[i].data = Zero
    <3>1. ASSUME NEW x, Clear(x, type), NEW c \in {x.links + 1}, c = 1
          PROVE  LET y == [x EXCEPT !.links = c]
                 IN  y.links = 1 /\ y.type = type /\ y.names = {} /\ y.data = Zero
      BY <3>1 DEF Clear, INode
    <3>2. k.copy[i].links = 1 /\ k.copy[i].type = type /\ k.copy[i].names = {} /\ k.copy[i].data = Zero
      BY <1>8, <2>1, <2>2, <3>1 DEF OneMore
    <3> QED
      BY <1>8, <2>2, <3>2 DEF Clear
  <2>7. k.used = b.used \cup {i}
    BY <1>7, <1>8, <2>2
  <2>8. Good(k)
    BY <1>1, <1>3, <1>4, <1>7, <2>2, <2>3, <2>5, <2>6, <2>7, CreatedGood
  <2>9. Becomes(k, {}) /\ k.out \cap {} = {}
    BY <1>1, <1>11
  <2> QED
    BY <1>1, <2>8, <2>9, BecomesGood
<1>12. CASE g.copy[p].type # "Directory"
  <2> DEFINE h == Get(d, p)
  <2>1. /\ Sound(h) /\ Range(h.list) = Range(d.list)
        /\ h.copy = d.copy /\ h.dirty = d.dirty /\ h.mem = d.mem
        /\ h.out = d.out /\ h.used = d.used /\ h.ideal = d.ideal
    BY <1>10, GetHit
  <2>2. w = Wipe(h, i)
    BY DEF w
  <2> HIDE DEF h
  <2>3. /\ Did(h, w, i) /\ w.used = h.used \ {i} /\ i \in w.dirty
        /\ w.copy[i] = Blank /\ w.ideal[i] = Blank
    BY <1>10, <2>1, <2>2, WipeHit
  <2>4. /\ w.copy[p] = d.copy[p] /\ w.mem[p] = d.mem[p] /\ w.ideal[p] = d.ideal[p]
        /\ p \in w.dirty <=> p \in d.dirty
    BY <1>4, <2>1, <2>3 DEF Did
  <2>5. Pair(b, w, p, i)
    <3>1. Pair(d, h, p, i)
      BY <2>1 DEF Pair
    <3>2. Pair(h, w, p, i)
      BY <2>3, DidIsPair
    <3> QED
      BY <1>8, <3>1, <3>2, PairTwice
  <2>6. w.used = b.used
    BY <1>3, <1>7, <1>8, <2>1, <2>3
  <2>7. /\ w.copy[p].type = b.copy[p].type /\ w.copy[p].names = b.copy[p].names
        /\ w.copy[p].data = b.copy[p].data /\ w.copy[p].links >= b.copy[p].links
        /\ w.ideal[p] = b.ideal[p] /\ w.mem[p] = b.mem[p] /\ (p \in w.dirty <=> p \in b.dirty)
    BY <1>8, <1>9, <2>4
  <2>8. Good(w)
    BY <1>1, <1>3, <1>4, <1>7, <2>3, <2>5, <2>6, <2>7, AbandonedGood
  <2>9. Becomes(w, {}) /\ w.out \cap {} = {}
    BY <1>1, <1>12
  <2> QED
    BY <1>1, <2>8, <2>9, BecomesGood
<1> QED
  BY <1>11, <1>12
-----------------------------------------------------------------------------
\* Nothing is cached: what the inode table has is all there is to see.
LEMMA EmptyCacheGood ==
    ASSUME NEW st \in St, Len(st.list) = 0, st.dirty = {},
           NEW old, Good(old), st.used = old.used, st.ideal = old.ideal,
           \A i \in Inode : st.mem[i] \in Views(old, i)
    PROVE  Good(st)
<1>1. st.list \in List
  BY DEF St
<1>2. DOMAIN st.list = 1 .. 0
  BY <1>1, ListFacts
<1>3. Range(st.list) = {}
  BY <1>2 DEF Range
<1>4. Sound(st)
  BY <1>3, CacheAssumption DEF Sound
<1>5. \A i \in Inode : Views(st, i) \subseteq Views(old, i)
  BY <1>3 DEF Views
<1>6. \A i \in Inode : Fits(st, i) /\ st.ideal[i].links = 0
  BY <1>5 DEF Good, Fits
<1> QED
  BY <1>4, <1>6 DEF Good

\* The list of a cache that has just been made.
LEMMA EmptyList == <<>> \in List /\ Len(<<>>) = 0 /\ Range(<<>>) = {}
<1>1. <<>> \in Seq(Inode) /\ Len(<<>>) = 0 /\ DOMAIN <<>> = {}
  BY EmptySeq
<1> QED
  BY <1>1 DEF List, IsInjective, Range

\* The variables' types once the cache is empty.
LEMMA EmptyCacheType ==
    ASSUME TypeOK, CacheEmpty, mem' \in [Inode -> INode], used' \subseteq Inode,
           truth' \in [Inode -> INode], up' \in BOOLEAN, intact' \in BOOLEAN
    PROVE  TypeOK' /\ PointersStay' /\ cache_list' = <<>> /\ dirty' = {} /\ copy' \in [Inode -> INode]
<1>1. cache_list' = <<>> /\ dirty' = {} /\ dangling' = FALSE /\ copy' = [i \in Inode |-> Blank]
  BY DEF CacheEmpty
<1>2. copy' \in [Inode -> INode]
  BY <1>1, BlankNode
<1>3. /\ cache_list' \in Seq(Inode) /\ IsInjective(cache_list')
      /\ Len(cache_list') <= Capacity /\ dirty' \subseteq Range(cache_list')
  BY <1>1, EmptyList, CacheAssumption DEF List
<1> QED
  BY <1>1, <1>2, <1>3 DEF TypeOK, PointersStay

\* A clean stop, a start, and a kill that lost nothing.
LEMMA RestKeeps ==
    ASSUME Inv, CacheEmpty, UNCHANGED <<used, truth>>, up' \in BOOLEAN, intact' \in BOOLEAN,
           intact' => intact, mem' \in [Inode -> INode],
           intact' => \A i \in Inode : mem'[i] \in Views(State, i)
    PROVE  Inv'
<1>1. TypeOK' /\ PointersStay' /\ cache_list' = <<>> /\ dirty' = {} /\ copy' \in [Inode -> INode]
  BY EmptyCacheType DEF Inv, TypeOK
<1>2. \A i \in Inode : truth'[i].links = 0
  BY DEF Inv
<1>3. ASSUME intact' PROVE Good(State)'
  <2> DEFINE n == [list |-> <<>>, copy |-> copy', dirty |-> {}, mem |-> mem', out |-> {},
                   used |-> used, ideal |-> truth]
  <2>1. State' = n
    BY <1>1 DEF State
  <2>2. /\ n \in St /\ n.list = <<>> /\ n.dirty = {} /\ n.mem = mem' /\ n.used = used /\ n.ideal = truth
    BY <1>1, EmptyList DEF St, Inv, TypeOK
  <2> HIDE DEF n
  <2>3. Good(State) /\ \A i \in Inode : n.mem[i] \in Views(State, i)
    BY <1>3, <2>2 DEF Inv
  <2>4. Good(n)
    BY <2>2, <2>3, EmptyList, EmptyCacheGood, StateFields
  <2> QED
    BY <2>1, <2>4
<1> QED
  BY <1>1, <1>2, <1>3 DEF Inv

\* What flush leaves in the table could be seen before.
LEMMA FlushedSeen ==
    ASSUME TypeOK
    PROVE  /\ Flushed \in [Inode -> INode]
           /\ \A i \in Inode : Flushed[i] \in Views(State, i)
<1>1. Sound(State)
  BY StateSound
<1>2. /\ copy \in [Inode -> INode] /\ mem \in [Inode -> INode] /\ dirty \subseteq Range(cache_list)
  BY DEF TypeOK
<1>3. Flushed \in [Inode -> INode] /\ \A i \in Inode : Flushed[i] = IF i \in dirty THEN copy[i] ELSE mem[i]
  BY <1>2 DEF Flushed
<1>4. ASSUME NEW i \in Inode PROVE Flushed[i] \in Views(State, i)
  <2>1. CASE i \in dirty
    BY <1>2, <1>3, <2>1, StateFields DEF Views
  <2>2. CASE i \notin dirty
    BY <1>3, <2>2, StateFields DEF Views
  <2> QED
    BY <2>1, <2>2
<1> QED
  BY <1>3, <1>4

\* A clean stop keeps everything that can be seen.
LEMMA UnmountKeeps == Inv /\ Unmount => Inv'
<1> SUFFICES ASSUME Inv, Unmount PROVE Inv'
  OBVIOUS
<1>1. mem' \in [Inode -> INode] /\ \A i \in Inode : mem'[i] \in Views(State, i)
  BY FlushedSeen DEF Inv, Unmount
<1>2. CacheEmpty /\ UNCHANGED <<used, truth>> /\ up' \in BOOLEAN /\ intact' \in BOOLEAN /\ intact' = intact
  BY DEF Unmount, Inv, TypeOK
<1> QED
  BY <1>1, <1>2, RestKeeps

\* A kill leaves the table intact only if it had all there was to see.
LEMMA KillKeeps == Inv /\ Kill => Inv'
<1> SUFFICES ASSUME Inv, Kill PROVE Inv'
  OBVIOUS
<1>1. mem' \in [Inode -> INode]
  BY DEF Kill, Inv, TypeOK
<1>2. /\ intact' => intact /\ Flushed = mem
      /\ mem' = mem /\ intact' \in BOOLEAN
  <2>1. intact \in BOOLEAN
    BY DEF Inv, TypeOK
  <2> QED
    BY <2>1 DEF Kill
<1>3. intact' => \A i \in Inode : mem'[i] \in Views(State, i)
  BY <1>2, FlushedSeen DEF Inv
<1>4. CacheEmpty /\ UNCHANGED <<used, truth>> /\ up' \in BOOLEAN
  BY DEF Kill
<1> QED
  BY <1>1, <1>2, <1>3, <1>4, RestKeeps

\* mount starts from the table alone.
LEMMA MountKeeps == Inv /\ Mount => Inv'
<1> SUFFICES ASSUME Inv, Mount PROVE Inv'
  OBVIOUS
<1>1. CacheEmpty /\ UNCHANGED <<used, truth>> /\ up' \in BOOLEAN /\ intact' \in BOOLEAN /\ intact' = intact
      /\ mem' = mem /\ mem' \in [Inode -> INode]
  BY DEF Mount, Inv, TypeOK
<1>2. cache_list = <<>> /\ dirty = {}
  BY DEF Mount, Inv
<1>3. \A i \in Inode : mem'[i] \in Views(State, i)
  BY <1>1, <1>2, StateFields, EmptyList DEF Views
<1> QED
  BY <1>1, <1>3, RestKeeps

\* An empty file system, nothing of it in the cache.
LEMMA EmptyGood ==
    ASSUME NEW c \in [Inode -> INode]
    PROVE  /\ EmptyRoot \in [Inode -> INode]
           /\ \A i \in Inode : EmptyRoot[i].links = 0
           /\ Good([list |-> <<>>, copy |-> c, dirty |-> {}, mem |-> EmptyRoot, out |-> {},
                    used |-> {Root}, ideal |-> EmptyRoot])
<1> DEFINE n == [list |-> <<>>, copy |-> c, dirty |-> {}, mem |-> EmptyRoot, out |-> {},
                 used |-> {Root}, ideal |-> EmptyRoot]
<1>1. /\ [Blank EXCEPT !.type = "Directory"] \in INode
      /\ [Blank EXCEPT !.type = "Directory"].links = 0 /\ [Blank EXCEPT !.type = "Directory"].names = {}
      /\ Blank \in INode /\ Blank.links = 0 /\ Blank.names = {}
  BY CacheAssumption DEF Blank, INode
<1>2. /\ EmptyRoot \in [Inode -> INode]
      /\ \A i \in Inode : /\ EmptyRoot[i].links = 0 /\ EmptyRoot[i].names = {}
                          /\ i # Root => EmptyRoot[i] = Blank
  BY <1>1 DEF EmptyRoot
<1>3. {Root} \in SUBSET Inode
  BY CacheAssumption DEF Root, Inode
<1>4. /\ n \in St /\ n.list = <<>> /\ n.dirty = {} /\ n.mem = EmptyRoot /\ n.used = {Root}
      /\ n.ideal = EmptyRoot
  BY <1>2, <1>3, EmptyList DEF St
<1> HIDE DEF n
<1>5. Sound(n)
  BY <1>4, EmptyList, CacheAssumption DEF Sound
<1>6. ASSUME NEW i \in Inode PROVE Names(n.ideal, n.used, i) = 0
  <2>1. Parents(n.ideal, n.used, i) = {} /\ Kids(n.ideal, i) = {}
    BY <1>2, <1>3, <1>4 DEF Parents, Kids
  <2> QED
    BY <2>1, FS_EmptySet DEF Names
<1>7. ASSUME NEW i \in Inode PROVE Fits(n, i)
  <2>1. Views(n, i) = {EmptyRoot[i]}
    BY <1>4, EmptyList DEF Views
  <2>2. EmptyRoot[i].links >= Names(n.ideal, n.used, i)
    BY <1>2, <1>6
  <2>3. i \notin n.used => EmptyRoot[i] = Blank
    BY <1>2, <1>4
  <2>4. Agree(EmptyRoot[i], n.ideal[i])
    BY <1>4 DEF Agree
  <2> QED
    BY <2>1, <2>2, <2>3, <2>4 DEF Fits
<1>8. Good(n)
  BY <1>2, <1>3, <1>4, <1>5, <1>7 DEF Good
<1> QED
  BY <1>2, <1>8 DEF n

\* format starts anew.
LEMMA FormatKeeps == Inv /\ Format => Inv'
<1> SUFFICES ASSUME Inv, Format PROVE Inv'
  OBVIOUS
<1>1. /\ mem' = EmptyRoot /\ used' = {Root} /\ truth' = EmptyRoot /\ intact' = TRUE /\ up' = up /\ up
      /\ CacheEmpty
  BY DEF Format
<1>2. EmptyRoot \in [Inode -> INode] /\ {Root} \in SUBSET Inode /\ \A i \in Inode : EmptyRoot[i].links = 0
  <2>1. copy \in [Inode -> INode]
    BY DEF Inv, TypeOK
  <2>2. {Root} \in SUBSET Inode
    BY CacheAssumption DEF Root, Inode
  <2> QED
    BY <2>1, <2>2, EmptyGood
<1>3. TypeOK' /\ PointersStay' /\ cache_list' = <<>> /\ dirty' = {} /\ copy' \in [Inode -> INode]
  BY <1>1, <1>2, EmptyCacheType DEF Inv, TypeOK
<1>4. State' = [list |-> <<>>, copy |-> copy', dirty |-> {}, mem |-> EmptyRoot, out |-> {},
                used |-> {Root}, ideal |-> EmptyRoot]
  BY <1>1, <1>3 DEF State
<1>5. Good(State)'
  BY <1>3, <1>4, EmptyGood
<1> QED
  BY <1>1, <1>2, <1>3, <1>5 DEF Inv

\* The cache starts on a formatted disk.
LEMMA InitEstablishes == Init => Inv
<1> SUFFICES ASSUME Init PROVE Inv
  OBVIOUS
<1>1. /\ cache_list = <<>> /\ copy = EmptyRoot /\ dirty = {} /\ mem = EmptyRoot /\ used = {Root}
      /\ up = TRUE /\ intact = TRUE /\ truth = EmptyRoot /\ dangling = FALSE
  BY DEF Init
<1>2. EmptyRoot \in [Inode -> INode] /\ {Root} \in SUBSET Inode /\ \A i \in Inode : EmptyRoot[i].links = 0
  <2>1. [i \in Inode |-> Blank] \in [Inode -> INode]
    BY BlankNode
  <2>2. {Root} \in SUBSET Inode
    BY CacheAssumption DEF Root, Inode
  <2> QED
    BY <2>1, <2>2, EmptyGood
<1>3. State = [list |-> <<>>, copy |-> EmptyRoot, dirty |-> {}, mem |-> EmptyRoot, out |-> {},
               used |-> {Root}, ideal |-> EmptyRoot]
  BY <1>1 DEF State
<1>4. Good(State)
  BY <1>2, <1>3, EmptyGood
<1>5. /\ cache_list \in Seq(Inode) /\ IsInjective(cache_list)
      /\ Len(cache_list) <= Capacity /\ dirty \subseteq Range(cache_list)
  BY <1>1, EmptyList, CacheAssumption DEF List
<1>6. TypeOK
  BY <1>1, <1>2, <1>5 DEF TypeOK
<1> QED
  BY <1>1, <1>2, <1>4, <1>6 DEF Inv, PointersStay

\* No step leaves the invariant.
LEMMA NextKeeps == Inv /\ [Next]_vars => Inv'
<1> SUFFICES ASSUME Inv, [Next]_vars PROVE Inv'
  OBVIOUS
<1>1. CASE \E i \in Inode : Lookup(i)
  BY <1>1, LookupKeeps
<1>2. CASE \E p \in Inode, type \in {"File", "Directory"}, how \in How : Create(p, type, how)
  BY <1>2, CreateKeeps
<1>3. CASE \E p, i \in Inode, how \in {"saved", "kept"} : RemoveEntry(p, i, how)
  BY <1>3, RemoveEntryKeeps
<1>4. CASE \E i \in Inode, v \in Value, how \in How : WriteFile(i, v, how)
  BY <1>4, WriteFileKeeps
<1>5. CASE Unmount \/ Kill \/ Mount \/ Format
  BY <1>5, UnmountKeeps, KillKeeps, MountKeeps, FormatKeeps
<1>6. CASE UNCHANGED vars
  <2>1. State' = State
    BY <1>6 DEF State, vars
  <2>2. Good(State)' <=> Good(State)
    BY <2>1
  <2>3. TypeOK' /\ PointersStay'
    BY <1>6 DEF Inv, vars, TypeOK, PointersStay
  <2> QED
    BY <1>6, <2>2, <2>3 DEF Inv, vars
<1> QED
  BY <1>1, <1>2, <1>3, <1>4, <1>5, <1>6 DEF Next
-----------------------------------------------------------------------------
\* The invariant holds for any number of inodes and any capacity of two or more.
THEOREM Invariance == Spec => []Inv
<1>1. Init => Inv
  BY InitEstablishes
<1>2. Inv /\ [Next]_vars => Inv'
  BY NextKeeps
<1> QED
  BY <1>1, <1>2, PTL DEF Spec

\* The list has an inode once and keeps to its size; only cached inodes are dirty.
THEOREM TypeCorrect == Spec => []TypeOK
<1>1. Inv => TypeOK
  BY DEF Inv
<1> QED
  BY <1>1, Invariance, PTL

\* What get returns of an inode is one of the things Fits speaks of.
LEMMA ViewSeen ==
    ASSUME Inv, NEW i \in Inode
    PROVE  View(i) \in Views(State, i) /\ View(i) \in INode
<1>1. Sound(State)
  BY StateSound DEF Inv
<1>2. Contains(cache_list, i) <=> i \in Range(cache_list)
  BY <1>1, SoundFields, StateFields
<1>3. View(i) \in Views(State, i)
  BY <1>2, StateFields DEF View, Views
<1> QED
  BY <1>1, <1>3, ViewsType

\* What get returns is what the last operation left, whatever was evicted, written
\* through, flushed or loaded since, and over any clean stop and start.
THEOREM TransparentCorrect == Spec => []CacheTransparent
<1>1. Inv => CacheTransparent
  <2> SUFFICES ASSUME Inv, intact, NEW i \in Inode
               PROVE  [View(i) EXCEPT !.links = 0] = truth[i]
    BY DEF CacheTransparent, Inv
  <2>1. View(i) \in Views(State, i) /\ View(i) \in INode
    BY ViewSeen
  <2>2. Agree(View(i), truth[i]) /\ truth[i].links = 0
    BY <2>1, StateFields DEF Inv, Good, Fits
  <2>3. truth[i] \in INode
    BY DEF Inv, TypeOK
  <2> QED
    BY <2>1, <2>2, <2>3 DEF Agree, INode
<1> QED
  BY <1>1, Invariance, PTL

\* Links may be lost with an eviction, but never so that an inode has fewer than names:
\* remove_diritem frees nothing that another entry names.
THEOREM LinksCorrect == Spec => []LinksNeverShort
<1>1. Inv => LinksNeverShort
  <2> SUFFICES ASSUME Inv, intact, NEW i \in used PROVE View(i).links >= Refs(i)
    BY DEF LinksNeverShort
  <2>1. i \in Inode
    BY DEF Inv, TypeOK
  <2>2. View(i) \in Views(State, i)
    BY <2>1, ViewSeen
  <2> QED
    BY <2>1, <2>2, StateFields, RefsNames DEF Inv, Good, Fits
<1> QED
  BY <1>1, Invariance, PTL

\* allocate_inode finds the inode blank, in the cache or in the table.
THEOREM FreeCorrect == Spec => []FreeInodesBlank
<1>1. Inv => FreeInodesBlank
  <2> SUFFICES ASSUME Inv, intact, NEW i \in Inode \ used PROVE View(i) = Blank
    BY DEF FreeInodesBlank
  <2>1. View(i) \in Views(State, i)
    BY ViewSeen
  <2> QED
    BY <2>1, StateFields DEF Inv, Good, Fits
<1> QED
  BY <1>1, Invariance, PTL

\* No operation makes the cache drop an inode it has a pointer to.
THEOREM PointersCorrect == Spec => []PointersStay
<1>1. Inv => PointersStay
  BY DEF Inv
<1> QED
  BY <1>1, Invariance, PTL
=============================================================================

-------------------------- MODULE BlockCacheProofs --------------------------
(***************************************************************************)
(* Proofs about BlockCache, for every set of blocks, every capacity and    *)
(* any number of holders.                                                  *)
(***************************************************************************)
EXTENDS BlockCache, FiniteSetTheorems, SequenceTheorems, TLAPS

\* What removing the element at position i of a sequence leaves.
LEMMA RemoveAtProperties ==
    ASSUME NEW S, NEW s \in Seq(S), NEW i \in 1 .. Len(s)
    PROVE  /\ RemoveAt(s, i) \in Seq(S)
           /\ Len(RemoveAt(s, i)) = Len(s) - 1
           /\ \A j \in 1 .. Len(s) - 1 :
                RemoveAt(s, i)[j] = IF j < i THEN s[j] ELSE s[j + 1]
<1> DEFINE n == Len(s)
           l == SubSeq(s, 1, i - 1)
           r == SubSeq(s, i + 1, n)
<1>1. n \in Nat /\ \A j \in 1 .. n : s[j] \in S
  BY LenProperties, ElementOfSeq
<1>2. /\ l \in Seq(S) /\ Len(l) = i - 1
      /\ \A j \in 1 .. i - 1 : l[j] = s[j]
  <2>1. 1 \in Int /\ i - 1 \in Int /\ \A j \in 1 .. i - 1 : s[j] \in S
    BY <1>1
  <2> QED
    BY <1>1, <2>1, SubSeqProperties
<1>3. /\ r \in Seq(S) /\ Len(r) = n - i
      /\ \A j \in 1 .. n - i : r[j] = s[i + j]
  <2>1. i + 1 \in Int /\ n \in Int /\ \A j \in i + 1 .. n : s[j] \in S
    BY <1>1
  <2>2. /\ r \in Seq(S)
        /\ Len(r) = IF i + 1 <= n THEN n - (i + 1) + 1 ELSE 0
        /\ \A j \in 1 .. n - (i + 1) + 1 : r[j] = s[(i + 1) + j - 1]
    BY <2>1, SubSeqProperties
  <2> HIDE DEF r
  <2>3. Len(r) = n - i
    BY <1>1, <2>2
  <2>4. \A j \in 1 .. n - i : j \in 1 .. n - (i + 1) + 1 /\ (i + 1) + j - 1 = i + j
    BY <1>1
  <2> QED
    BY <2>2, <2>3, <2>4
<1> HIDE DEF l, r
<1>4. /\ l \o r \in Seq(S) /\ Len(l \o r) = n - 1
      /\ \A j \in 1 .. n - 1 : (l \o r)[j] = IF j <= i - 1 THEN l[j] ELSE r[j - (i - 1)]
  <2>1. Len(l) + Len(r) = n - 1
    BY <1>1, <1>2, <1>3
  <2>2. /\ l \o r \in Seq(S)
        /\ Len(l \o r) = Len(l) + Len(r)
        /\ \A j \in 1 .. Len(l) + Len(r) : (l \o r)[j] =
                IF j <= Len(l) THEN l[j] ELSE r[j - Len(l)]
    <3>1. l \in Seq(S) /\ r \in Seq(S)
      BY <1>2, <1>3
    <3> QED
      BY <3>1, ConcatProperties, Zenon
  <2> QED
    BY <1>2, <2>1, <2>2
<1>5. ASSUME NEW j \in 1 .. n - 1
      PROVE  (l \o r)[j] = IF j < i THEN s[j] ELSE s[j + 1]
  <2>1. CASE j < i
    <3>1. j \in 1 .. i - 1 /\ j <= i - 1
      BY <1>1, <2>1
    <3>2. (l \o r)[j] = l[j]
      BY <1>4, <3>1
    <3> QED
      BY <1>2, <2>1, <3>1, <3>2
  <2>2. CASE ~(j < i)
    <3>1. j - (i - 1) \in 1 .. n - i /\ i + (j - (i - 1)) = j + 1 /\ ~(j <= i - 1)
      BY <1>1, <2>2
    <3>2. (l \o r)[j] = r[j - (i - 1)]
      BY <1>4, <3>1
    <3>3. r[j - (i - 1)] = s[i + (j - (i - 1))]
      BY <1>3, <3>1
    <3> QED
      BY <2>2, <3>1, <3>2, <3>3
  <2> QED
    BY <2>1, <2>2
<1>6. RemoveAt(s, i) = l \o r
  BY DEF RemoveAt, l, r
<1> QED
  BY <1>4, <1>5, <1>6

\* What putting an element in front of a sequence gives.
LEMMA FrontProperties ==
    ASSUME NEW S, NEW s \in Seq(S), NEW x \in S
    PROVE  /\ <<x>> \o s \in Seq(S)
           /\ Len(<<x>> \o s) = Len(s) + 1
           /\ (<<x>> \o s)[1] = x
           /\ \A j \in 1 .. Len(s) : (<<x>> \o s)[j + 1] = s[j]
<1>1. <<x>> \in Seq(S) /\ Len(<<x>>) = 1 /\ <<x>>[1] = x /\ Len(s) \in Nat
  BY LenProperties
<1>2. /\ <<x>> \o s \in Seq(S)
      /\ Len(<<x>> \o s) = 1 + Len(s)
      /\ \A i \in 1 .. 1 + Len(s) : (<<x>> \o s)[i] =
                     IF i <= 1 THEN <<x>>[i] ELSE s[i - 1]
  BY <1>1, ConcatProperties
<1>3. \A j \in 1 .. Len(s) : j + 1 \in 1 .. 1 + Len(s) /\ ~(j + 1 <= 1) /\ (j + 1) - 1 = j
  BY <1>1
<1> QED
  BY <1>1, <1>2, <1>3
-----------------------------------------------------------------------------
\* A recency list that has each of the given keys exactly once.
Matches(list, K) ==
    /\ list \in Seq(K)
    /\ \A k \in K : \E i \in 1 .. Len(list) : list[i] = k
    /\ \A i, j \in 1 .. Len(list) : list[i] = list[j] => i = j

\* push_front of a new key.
LEMMA FrontMatches ==
    ASSUME NEW list, NEW K, Matches(list, K), NEW k, k \notin K
    PROVE  Matches(<<k>> \o list, K \cup {k})
<1> DEFINE K2 == K \cup {k}
           new == <<k>> \o list
<1>1. list \in Seq(K) /\ Len(list) \in Nat /\ \A i \in 1 .. Len(list) : list[i] \in K
  BY LenProperties, ElementOfSeq DEF Matches
<1>2. list \in Seq(K2) /\ k \in K2
  BY <1>1, SeqMonotonic
<1>3. /\ new \in Seq(K2)
      /\ Len(new) = Len(list) + 1
      /\ new[1] = k
      /\ \A j \in 1 .. Len(list) : new[j + 1] = list[j]
  BY <1>2, FrontProperties
<1> HIDE DEF new
<1>4. \A i \in 1 .. Len(new) : i = 1 \/ (i - 1 \in 1 .. Len(list) /\ new[i] = list[i - 1])
  <2> SUFFICES ASSUME NEW i \in 1 .. Len(new), i # 1
               PROVE  i - 1 \in 1 .. Len(list) /\ new[i] = list[i - 1]
    OBVIOUS
  <2>1. i - 1 \in 1 .. Len(list) /\ (i - 1) + 1 = i
    BY <1>1, <1>3
  <2> QED
    BY <1>3, <2>1
<1>5. \A x \in K2 : \E i \in 1 .. Len(new) : new[i] = x
  <2> SUFFICES ASSUME NEW x \in K2 PROVE \E i \in 1 .. Len(new) : new[i] = x
    OBVIOUS
  <2>1. CASE x = k
    BY <1>1, <1>3, <2>1
  <2>2. CASE x \in K
    <3>1. PICK i \in 1 .. Len(list) : list[i] = x
      BY <2>2 DEF Matches
    <3>2. i + 1 \in 1 .. Len(new)
      BY <1>1, <1>3
    <3> QED
      BY <1>3, <3>1, <3>2
  <2> QED
    BY <2>1, <2>2
<1>6. \A i, j \in 1 .. Len(new) : new[i] = new[j] => i = j
  <2> SUFFICES ASSUME NEW i \in 1 .. Len(new), NEW j \in 1 .. Len(new), new[i] = new[j]
               PROVE  i = j
    OBVIOUS
  <2>1. CASE i = 1 \/ j = 1
    BY <1>1, <1>3, <1>4, <2>1
  <2>2. CASE i # 1 /\ j # 1
    <3>1. PICK p \in 1 .. Len(list) : p = i - 1 /\ new[i] = list[p]
      BY <1>4, <2>2
    <3>2. PICK q \in 1 .. Len(list) : q = j - 1 /\ new[j] = list[q]
      BY <1>4, <2>2
    <3>3. p = q
      BY <3>1, <3>2 DEF Matches
    <3> QED
      BY <1>1, <1>3, <3>1, <3>2, <3>3
  <2> QED
    BY <2>1, <2>2
<1> QED
  BY <1>3, <1>5, <1>6 DEF Matches, new

\* erase of one position.
LEMMA RemoveMatches ==
    ASSUME NEW list, NEW K, Matches(list, K), NEW i \in 1 .. Len(list)
    PROVE  Matches(RemoveAt(list, i), K \ {list[i]})
<1> DEFINE K2 == K \ {list[i]}
           new == RemoveAt(list, i)
           n == Len(list)
<1>1. list \in Seq(K) /\ n \in Nat /\ \A j \in 1 .. n : list[j] \in K
  BY LenProperties, ElementOfSeq DEF Matches
<1>2. /\ new \in Seq(K)
      /\ Len(new) = n - 1
      /\ \A j \in 1 .. n - 1 : new[j] = IF j < i THEN list[j] ELSE list[j + 1]
  BY <1>1, RemoveAtProperties
<1> HIDE DEF new
<1>3. \A j \in 1 .. n - 1 : \E m \in 1 .. n : m # i /\ new[j] = list[m] /\ m = IF j < i THEN j ELSE j + 1
  <2> SUFFICES ASSUME NEW j \in 1 .. n - 1
               PROVE  \E m \in 1 .. n : m # i /\ new[j] = list[m] /\ m = IF j < i THEN j ELSE j + 1
    OBVIOUS
  <2>1. CASE j < i
    <3>1. j \in 1 .. n
      BY <1>1
    <3> QED
      BY <1>2, <2>1, <3>1
  <2>2. CASE j >= i
    <3>1. j + 1 \in 1 .. n /\ j + 1 # i /\ ~(j < i)
      BY <1>1, <2>2
    <3> QED
      BY <1>2, <3>1
  <2> QED
    BY <1>1, <2>1, <2>2
<1>4. new \in Seq(K2)
  <2>1. ASSUME NEW j \in 1 .. n - 1 PROVE new[j] \in K2
    <3>1. PICK m \in 1 .. n : m # i /\ new[j] = list[m]
      BY <1>3
    <3>2. list[m] # list[i]
      BY <3>1 DEF Matches
    <3> QED
      BY <1>1, <3>1, <3>2
  <2>2. new \in [1 .. n - 1 -> K]
    BY <1>2, LenProperties
  <2>3. new \in [1 .. n - 1 -> K2] /\ n - 1 \in Nat
    BY <1>1, <2>1, <2>2
  <2> QED
    BY <2>3, SeqDef
<1>5. \A x \in K2 : \E j \in 1 .. Len(new) : new[j] = x
  <2> SUFFICES ASSUME NEW x \in K2 PROVE \E j \in 1 .. n - 1 : new[j] = x
    BY <1>2
  <2>1. PICK m \in 1 .. n : list[m] = x
    BY DEF Matches
  <2>2. m # i
    BY <2>1
  <2>3. CASE m < i
    <3>1. m \in 1 .. n - 1
      BY <1>1, <2>3
    <3> QED
      BY <1>2, <2>1, <2>3, <3>1
  <2>4. CASE m > i
    <3>1. m - 1 \in 1 .. n - 1 /\ ~(m - 1 < i) /\ (m - 1) + 1 = m
      BY <1>1, <2>4
    <3> QED
      BY <1>2, <2>1, <3>1
  <2> QED
    BY <1>1, <2>2, <2>3, <2>4
<1>6. \A j, m \in 1 .. Len(new) : new[j] = new[m] => j = m
  <2> SUFFICES ASSUME NEW j \in 1 .. n - 1, NEW m \in 1 .. n - 1, new[j] = new[m]
               PROVE  j = m
    BY <1>2
  <2>1. PICK p \in 1 .. n : new[j] = list[p] /\ p = IF j < i THEN j ELSE j + 1
    BY <1>3
  <2>2. PICK q \in 1 .. n : new[m] = list[q] /\ q = IF m < i THEN m ELSE m + 1
    BY <1>3
  <2>3. p = q
    BY <2>1, <2>2 DEF Matches
  <2> QED
    BY <1>1, <2>1, <2>2, <2>3
<1> QED
  BY <1>4, <1>5, <1>6 DEF Matches, new

\* splice to the front.
LEMMA ToFrontMatches ==
    ASSUME NEW list, NEW K, Matches(list, K), NEW i \in 1 .. Len(list)
    PROVE  Matches(ToFront(list, i), K)
<1>1. Matches(RemoveAt(list, i), K \ {list[i]})
  BY RemoveMatches
<1>2. Matches(<<list[i]>> \o RemoveAt(list, i), (K \ {list[i]}) \cup {list[i]})
  BY <1>1, FrontMatches
<1>3. list[i] \in K
  BY ElementOfSeq DEF Matches
<1>4. (K \ {list[i]}) \cup {list[i]} = K
  BY <1>3
<1> QED
  BY <1>2, <1>4 DEF ToFront
-----------------------------------------------------------------------------
\* What the phases of the program's life guarantee.
ModeFacts ==
    /\ mode # "running" => NoHolders
    /\ mode = "flushing" => disk[Super] = sb
    /\ mode = "stopped" => item = EmptyCache

\* The inductive invariant: the list facts are needed for a victim to be a key
\* of the map, the holder facts for a late write to find its buffer dirty.
IInv == TypeOK /\ ListMatchesMap /\ CleanIsOnDisk /\ HeldIsTracked /\ ModeFacts

LEMMA MatchesMap ==
    TypeOK => (ListMatchesMap <=> Matches(cache_list, DOMAIN item))
<1> SUFFICES ASSUME TypeOK
             PROVE  ListMatchesMap <=> Matches(cache_list, DOMAIN item)
  OBVIOUS
<1>1. cache_list \in Seq(Lba)
  BY DEF TypeOK
<1>2. DOMAIN cache_list = 1 .. Len(cache_list) /\ Len(cache_list) \in Nat
  BY <1>1, LenProperties
<1>3. ASSUME ListMatchesMap PROVE cache_list \in Seq(DOMAIN item)
  <2>1. cache_list \in [1 .. Len(cache_list) -> Lba]
    BY <1>1, LenProperties
  <2>2. cache_list \in [1 .. Len(cache_list) -> DOMAIN item]
    BY <1>2, <1>3, <2>1 DEF ListMatchesMap
  <2> QED
    BY <1>2, <2>2, SeqDef
<1>4. ASSUME Matches(cache_list, DOMAIN item)
      PROVE  \A i \in 1 .. Len(cache_list) : cache_list[i] \in DOMAIN item
  BY <1>4, ElementOfSeq DEF Matches
<1> QED
  BY <1>2, <1>3, <1>4 DEF Matches, ListMatchesMap

\* The same for the next state.
LEMMA MatchesMapNext ==
    ASSUME TypeOK', Matches(cache_list', DOMAIN item')
    PROVE  ListMatchesMap'
<1>1. (TypeOK => (ListMatchesMap <=> Matches(cache_list, DOMAIN item)))'
  BY MatchesMap, PTL
<1> QED
  BY <1>1 DEF Matches

\* Every position of the list is a cached key.
LEMMA Positions ==
    ASSUME IInv
    PROVE  /\ Matches(cache_list, DOMAIN item)
           /\ DOMAIN cache_list = 1 .. Len(cache_list)
           /\ \A i \in DOMAIN cache_list : cache_list[i] \in DOMAIN item
<1>1. Matches(cache_list, DOMAIN item)
  BY MatchesMap DEF IInv
<1>2. cache_list \in Seq(DOMAIN item)
  BY <1>1 DEF Matches
<1> QED
  BY <1>1, <1>2, LenProperties, ElementOfSeq

\* A holder's new buffer is the accessed block's.
NewHold(h, k, mut) == held' = [held EXCEPT ![h] = [key |-> k, mut |-> mut]]

LEMMA HitKeeps ==
    ASSUME IInv, NEW h \in Holder, NEW k \in Lba, NEW mut \in BOOLEAN,
           Hit(k, mut), NewHold(h, k, mut), mode = "running", UNCHANGED <<sb, mode>>
    PROVE  IInv'
<1>1. PICK i \in DOMAIN cache_list :
          cache_list[i] = k /\ cache_list' = ToFront(cache_list, i)
  BY DEF Hit
<1>2. k \in DOMAIN item /\ disk' = disk /\ DOMAIN item' = DOMAIN item
      /\ item' = [item EXCEPT ![k].dirty = @ \/ mut]
  BY DEF Hit
<1>3. Matches(cache_list', DOMAIN item')
  BY <1>1, <1>2, Positions, ToFrontMatches
<1>4. cache_list' \in Seq(Lba)
  <2>1. cache_list' \in Seq(DOMAIN item)
    BY <1>2, <1>3 DEF Matches
  <2> QED
    BY <2>1, SeqMonotonic DEF IInv, TypeOK
<1>5. /\ item[k] \in Item
      /\ \A x \in DOMAIN item : item[x] \in Item /\ item'[x] \in Item
      /\ \A x \in DOMAIN item : item'[x].val = item[x].val
      /\ \A x \in DOMAIN item : item'[x].dirty = (item[x].dirty \/ (x = k /\ mut))
  BY <1>2 DEF IInv, TypeOK, Item
<1>6. held' \in [Holder -> Hold \cup {None}]
  BY DEF IInv, TypeOK, NewHold, Hold
<1>7. TypeOK'
  BY <1>2, <1>4, <1>5, <1>6 DEF IInv, TypeOK
<1>8. ListMatchesMap'
  BY <1>3, <1>7, MatchesMapNext
<1>9. CleanIsOnDisk'
  BY <1>2, <1>5 DEF IInv, CleanIsOnDisk
<1>10. HeldIsTracked'
  <2> SUFFICES ASSUME NEW g \in Holder, held'[g] # None
               PROVE  /\ held'[g].key \in DOMAIN item'
                      /\ held'[g].mut => item'[held'[g].key].dirty
    BY DEF HeldIsTracked
  <2>1. CASE g = h
    <3>1. held'[g] = [key |-> k, mut |-> mut]
      BY <2>1 DEF NewHold, IInv, TypeOK
    <3>2. held'[g].key = k /\ held'[g].mut = mut
      BY <3>1
    <3>3. mut => item'[k].dirty
      BY <1>2, <1>5
    <3> QED
      BY <1>2, <3>2, <3>3
  <2>2. CASE g # h
    <3>1. held'[g] = held[g]
      BY <2>2 DEF NewHold, IInv, TypeOK
    <3> QED
      BY <1>2, <1>5, <3>1 DEF IInv, HeldIsTracked
  <2> QED
    BY <2>1, <2>2
<1>11. ModeFacts'
  BY DEF ModeFacts
<1> QED
  BY <1>7, <1>8, <1>9, <1>10, <1>11 DEF IInv

\* A miss, whether it kept every item or dropped those nobody holds: the items
\* kept are still in step with the disk.
LEMMA LoadKeeps ==
    ASSUME IInv, NEW h \in Holder, NEW k \in Lba, NEW mut \in BOOLEAN,
           NEW kept \in SUBSET DOMAIN item, k \notin DOMAIN item,
           \A x \in DOMAIN item \ kept : ~Pinned(x),
           Matches(cache_list', kept \cup {k}),
           disk' \in [Block -> Value],
           \A x \in kept \cup {k} : disk'[x] = disk[x],
           item' = Loaded(k, mut, kept),
           NewHold(h, k, mut), mode = "running", UNCHANGED <<sb, mode>>
    PROVE  IInv'
<1>1. /\ DOMAIN item' = kept \cup {k}
      /\ \A x \in kept : item'[x] = item[x] /\ x # k
      /\ item'[k] = [val |-> disk[k], dirty |-> mut]
  BY DEF Loaded
<1>2. /\ DOMAIN item \subseteq Lba
      /\ \A x \in DOMAIN item : item[x] \in Item
      /\ disk[k] \in Value
  BY DEF IInv, TypeOK, Block
<1>3. item' \in [kept \cup {k} -> Item]
  BY <1>1, <1>2 DEF Loaded, Item
<1>4. cache_list' \in Seq(Lba)
  <2>1. cache_list' \in Seq(kept \cup {k}) /\ kept \cup {k} \subseteq Lba
    BY <1>2 DEF Matches
  <2> QED
    BY <2>1, SeqMonotonic
<1>5. held' \in [Holder -> Hold \cup {None}]
  BY DEF IInv, TypeOK, NewHold, Hold
<1>6. TypeOK'
  BY <1>1, <1>2, <1>3, <1>4, <1>5 DEF IInv, TypeOK
<1>7. ListMatchesMap'
  BY <1>1, <1>6, MatchesMapNext
<1>8. CleanIsOnDisk'
  BY <1>1 DEF IInv, CleanIsOnDisk
<1>9. HeldIsTracked'
  <2> SUFFICES ASSUME NEW g \in Holder, held'[g] # None
               PROVE  /\ held'[g].key \in DOMAIN item'
                      /\ held'[g].mut => item'[held'[g].key].dirty
    BY DEF HeldIsTracked
  <2>1. CASE g = h
    <3>1. held'[g] = [key |-> k, mut |-> mut]
      BY <2>1 DEF NewHold, IInv, TypeOK
    <3> QED
      BY <1>1, <3>1
  <2>2. CASE g # h
    <3>1. held'[g] = held[g]
      BY <2>2 DEF NewHold, IInv, TypeOK
    <3>2. held[g].key \in DOMAIN item /\ (held[g].mut => item[held[g].key].dirty)
      BY <3>1 DEF IInv, HeldIsTracked
    <3>3. held[g].key \in kept
      BY <3>1, <3>2 DEF Pinned
    <3> QED
      BY <1>1, <3>1, <3>2, <3>3
  <2> QED
    BY <2>1, <2>2
<1>10. ModeFacts'
  BY DEF ModeFacts
<1> QED
  BY <1>6, <1>7, <1>8, <1>9, <1>10 DEF IInv

LEMMA AccessKeeps ==
    ASSUME IInv, NEW h \in Holder, NEW k \in Block, NEW mut \in BOOLEAN, Access(h, k, mut)
    PROVE  IInv'
<1>1. k \in Lba /\ mode = "running" /\ NewHold(h, k, mut) /\ UNCHANGED <<sb, mode>>
  BY DEF Access, Block, NewHold
<1>2. disk \in [Block -> Value] /\ Lba \subseteq Block
  BY DEF IInv, TypeOK, Block
<1>3. CASE Hit(k, mut)
  BY <1>1, <1>3, HitKeeps
<1>4. CASE MissKeepingAll(k, mut)
  <2>1. k \notin DOMAIN item /\ item' = Loaded(k, mut, DOMAIN item) /\ disk' = disk
    BY <1>4 DEF MissKeepingAll
  <2>2. Matches(cache_list', DOMAIN item \cup {k})
    BY <1>4, Positions, FrontMatches DEF MissKeepingAll
  <2> QED
    BY <1>1, <1>2, <2>1, <2>2, LoadKeeps
<1>5. CASE MissEvicting(k, mut)
  <2>1. PICK i \in DOMAIN cache_list :
          /\ IsVictim(i)
          /\ disk' = Saved(cache_list[i])
          /\ cache_list' = <<k>> \o RemoveAt(cache_list, i)
          /\ item' = Loaded(k, mut, DOMAIN item \ {cache_list[i]})
    BY <1>5 DEF MissEvicting
  <2> DEFINE old == cache_list[i]
             kept == DOMAIN item \ {old}
  <2>2. k \notin DOMAIN item /\ old \in DOMAIN item /\ ~Pinned(old)
    BY <1>5, <2>1, Positions DEF MissEvicting, IsVictim
  <2>3. Matches(cache_list', kept \cup {k})
    <3>1. Matches(RemoveAt(cache_list, i), kept)
      BY Positions, RemoveMatches
    <3>2. k \notin kept
      BY <2>2
    <3> HIDE DEF kept
    <3> QED
      BY <2>1, <3>1, <3>2, FrontMatches
  <2>4. disk' \in [Block -> Value]
    BY <1>2, <2>1, <2>2 DEF Saved, IInv, TypeOK, Item
  <2>5. \A x \in kept \cup {k} : disk'[x] = disk[x]
    BY <1>2, <2>1, <2>2 DEF Saved
  <2>6. item' = Loaded(k, mut, kept) /\ \A x \in DOMAIN item \ kept : ~Pinned(x)
    BY <2>1, <2>2
  <2>7. kept \in SUBSET DOMAIN item
    OBVIOUS
  <2> HIDE DEF kept, old
  <2> QED
    BY <1>1, <2>2, <2>3, <2>4, <2>5, <2>6, <2>7, LoadKeeps
<1> QED
  BY <1>3, <1>4, <1>5 DEF Access

LEMMA WriteBufferKeeps ==
    ASSUME IInv, NEW h \in Holder, NEW v \in Value, WriteBuffer(h, v)
    PROVE  IInv'
<1> DEFINE k == held[h].key
<1>1. /\ mode = "running" /\ held[h] # None /\ held[h].mut
      /\ item' = [item EXCEPT ![k].val = v]
      /\ UNCHANGED <<disk, sb, cache_list, held, mode>>
  BY DEF WriteBuffer
<1>2. k \in DOMAIN item /\ item[k].dirty
  BY <1>1 DEF IInv, HeldIsTracked
<1>3. \A x \in DOMAIN item : item[x] \in Item
  BY DEF IInv, TypeOK
<1> HIDE DEF k
<1>4. /\ DOMAIN item' = DOMAIN item
      /\ item' \in [DOMAIN item -> Item]
      /\ \A x \in DOMAIN item : item'[x].dirty = item[x].dirty
      /\ \A x \in DOMAIN item : x # k => item'[x].val = item[x].val
  BY <1>1, <1>2, <1>3 DEF IInv, TypeOK, Item
<1>5. TypeOK'
  BY <1>1, <1>4 DEF IInv, TypeOK
<1>6. ListMatchesMap'
  BY <1>1, <1>4 DEF IInv, ListMatchesMap
<1>7. CleanIsOnDisk'
  BY <1>1, <1>2, <1>4 DEF IInv, CleanIsOnDisk
<1>8. HeldIsTracked'
  BY <1>1, <1>4 DEF IInv, HeldIsTracked
<1>9. ModeFacts'
  BY <1>1 DEF ModeFacts
<1> QED
  BY <1>5, <1>6, <1>7, <1>8, <1>9 DEF IInv

LEMMA FlushItemKeeps ==
    ASSUME IInv, NEW k \in Lba, FlushItem(k)
    PROVE  IInv'
<1>1. /\ mode = "flushing" /\ k \in DOMAIN item /\ item[k].dirty
      /\ disk' = [disk EXCEPT ![k] = item[k].val]
      /\ item' = [item EXCEPT ![k].dirty = FALSE]
      /\ UNCHANGED <<sb, cache_list, held, mode>>
  BY DEF FlushItem, Dirty, Saved
<1>2. \A x \in DOMAIN item : item[x] \in Item
  BY DEF IInv, TypeOK
<1>3. /\ DOMAIN item' = DOMAIN item
      /\ item' \in [DOMAIN item -> Item]
      /\ \A x \in DOMAIN item : item'[x].val = item[x].val
      /\ \A x \in DOMAIN item : x # k => item'[x].dirty = item[x].dirty
  BY <1>1, <1>2 DEF IInv, TypeOK, Item
<1>4. disk' \in [Block -> Value] /\ disk'[k] = item[k].val
      /\ \A x \in Block : x # k => disk'[x] = disk[x]
  BY <1>1, <1>2 DEF IInv, TypeOK, Item, Block
<1>5. TypeOK'
  BY <1>1, <1>3, <1>4 DEF IInv, TypeOK
<1>6. ListMatchesMap'
  BY <1>1, <1>3 DEF IInv, ListMatchesMap
<1>7. CleanIsOnDisk'
  <2> SUFFICES ASSUME NEW x \in DOMAIN item, ~item'[x].dirty
               PROVE  item'[x].val = disk'[x]
    BY <1>3 DEF CleanIsOnDisk
  <2>1. x \in Block
    BY DEF IInv, TypeOK, Block
  <2> QED
    BY <1>3, <1>4, <2>1 DEF IInv, CleanIsOnDisk
<1>8. HeldIsTracked'
  BY <1>1 DEF IInv, ModeFacts, NoHolders, HeldIsTracked
<1>9. ModeFacts'
  BY <1>1, <1>4, StoreAssumption DEF IInv, ModeFacts, Block, NoHolders
<1> QED
  BY <1>5, <1>6, <1>7, <1>8, <1>9 DEF IInv

\* The program's memory is gone: an empty cache satisfies everything.
LEMMA GoneKeeps ==
    ASSUME IInv, Gone, UNCHANGED disk
    PROVE  IInv'
<1>1. DOMAIN item' = {} /\ item' = EmptyCache
  BY DEF Gone, EmptyCache
<1>2. cache_list' = <<>> /\ DOMAIN cache_list' = {} /\ cache_list' \in Seq(Lba)
  BY DEF Gone
<1>3. \A h \in Holder : held'[h] = None
  BY DEF Gone
<1>4. TypeOK'
  BY <1>1, <1>2, StoreAssumption DEF Gone, IInv, TypeOK
<1>5. ListMatchesMap' /\ CleanIsOnDisk' /\ HeldIsTracked'
  BY <1>1, <1>2, <1>3 DEF ListMatchesMap, CleanIsOnDisk, HeldIsTracked
<1>6. ModeFacts'
  BY <1>1, <1>3 DEF ModeFacts, Gone, NoHolders
<1> QED
  BY <1>4, <1>5, <1>6 DEF IInv

LEMMA InitEstablishes == Init => IInv
<1> SUFFICES ASSUME Init PROVE IInv
  OBVIOUS
<1>1. DOMAIN item = {} /\ cache_list = <<>> /\ DOMAIN cache_list = {}
  BY DEF Init, EmptyCache
<1>2. \A h \in Holder : held[h] = None
  BY DEF Init
<1>3. TypeOK
  BY <1>1, <1>2, StoreAssumption DEF Init, TypeOK
<1>4. ListMatchesMap /\ CleanIsOnDisk /\ HeldIsTracked
  BY <1>1, <1>2 DEF ListMatchesMap, CleanIsOnDisk, HeldIsTracked
<1>5. ModeFacts
  BY DEF Init, ModeFacts
<1> QED
  BY <1>3, <1>4, <1>5 DEF IInv

\* No step leaves the invariant.
LEMMA NextKeeps == IInv /\ [Next]_vars => IInv'
<1> SUFFICES ASSUME IInv, [Next]_vars PROVE IInv'
  OBVIOUS
<1> USE DEF IInv
<1>1. CASE \E h \in Holder, k \in Block, mut \in BOOLEAN : Access(h, k, mut)
  BY <1>1, AccessKeeps
<1>2. CASE \E h \in Holder, v \in Value : WriteBuffer(h, v)
  BY <1>2, WriteBufferKeeps
<1>3. CASE \E h \in Holder : Release(h)
  <2>1. PICK h \in Holder : Release(h)
    BY <1>3
  <2>2. /\ held' = [held EXCEPT ![h] = None]
        /\ UNCHANGED <<disk, sb, cache_list, item, mode>>
    BY <2>1 DEF Release
  <2>3. \A g \in Holder : held'[g] = None \/ held'[g] = held[g]
    BY <2>2 DEF TypeOK
  <2>4. TypeOK'
    BY <2>2 DEF TypeOK
  <2>5. HeldIsTracked' /\ ModeFacts'
    BY <2>2, <2>3 DEF HeldIsTracked, ModeFacts, NoHolders
  <2> QED
    BY <2>2, <2>4, <2>5 DEF ListMatchesMap, CleanIsOnDisk
<1>4. CASE \E v \in Value : UpdateSuper(v)
  BY <1>4 DEF UpdateSuper, TypeOK, ListMatchesMap, CleanIsOnDisk, HeldIsTracked,
              ModeFacts, NoHolders
<1>5. ASSUME disk' = [disk EXCEPT ![Super] = sb], mode' \in {"running", "flushing"},
             mode' = "flushing" => NoHolders, mode = "running",
             UNCHANGED <<sb, cache_list, item, held>>
      PROVE  IInv'
  <2>1. disk' \in [Block -> Value] /\ disk'[Super] = sb
        /\ \A k \in Lba : disk'[k] = disk[k]
    BY <1>5, StoreAssumption DEF TypeOK, Block
  <2>2. TypeOK' /\ ModeFacts'
    BY <1>5, <2>1 DEF TypeOK, ModeFacts, NoHolders
  <2>3. CleanIsOnDisk'
    BY <1>5, <2>1 DEF TypeOK, CleanIsOnDisk
  <2> QED
    BY <1>5, <2>2, <2>3 DEF ListMatchesMap, HeldIsTracked
<1>6. CASE FlushSuperBlock
  BY <1>5, <1>6 DEF FlushSuperBlock
<1>7. CASE BeginUnmount
  BY <1>5, <1>7 DEF BeginUnmount
<1>8. CASE Clear
  <2>1. DOMAIN item' = {} /\ DOMAIN cache_list' = {} /\ cache_list' \in Seq(Lba)
    BY <1>8 DEF Clear, EmptyCache
  <2>2. TypeOK'
    BY <1>8, <2>1, StoreAssumption DEF Clear, TypeOK
  <2>3. ListMatchesMap' /\ CleanIsOnDisk' /\ HeldIsTracked'
    BY <1>8, <2>1 DEF Clear, ListMatchesMap, CleanIsOnDisk, HeldIsTracked, NoHolders
  <2>4. ModeFacts'
    BY <1>8 DEF Clear, ModeFacts, NoHolders
  <2> QED
    BY <2>2, <2>3, <2>4
<1>9. CASE \E k \in Lba : FlushItem(k)
  BY <1>9, FlushItemKeeps
<1>10. CASE EndUnmount
  BY <1>10, GoneKeeps DEF EndUnmount
<1>11. CASE Crash
  BY <1>11, GoneKeeps DEF Crash
<1>12. CASE Mount
  <2>1. TypeOK'
    BY <1>12 DEF Mount, TypeOK, Block
  <2> QED
    BY <1>12, <2>1 DEF Mount, ListMatchesMap, CleanIsOnDisk, HeldIsTracked, ModeFacts
<1>13. CASE UNCHANGED vars
  BY <1>13 DEF vars, TypeOK, ListMatchesMap, CleanIsOnDisk, HeldIsTracked,
               ModeFacts, NoHolders
<1> QED
  BY <1>1, <1>2, <1>3, <1>4, <1>6, <1>7, <1>8, <1>9, <1>10, <1>11, <1>12, <1>13 DEF Next
-----------------------------------------------------------------------------
\* Every reachable state of the cache satisfies the inductive invariant.
THEOREM Invariance == Spec => []IInv
<1>1. Init => IInv
  BY InitEstablishes
<1>2. IInv /\ [Next]_vars => IInv'
  BY NextKeeps
<1> QED
  BY <1>1, <1>2, PTL DEF Spec

\* The variables of the cache keep their types.
THEOREM TypeCorrect == Spec => []TypeOK
<1>1. IInv => TypeOK
  BY DEF IInv
<1> QED
  BY <1>1, Invariance, PTL

\* cache_list and cache_map never disagree.
THEOREM ListCorrect == Spec => []ListMatchesMap
<1>1. IInv => ListMatchesMap
  BY DEF IInv
<1> QED
  BY <1>1, Invariance, PTL

\* A buffer that is not dirty can be dropped.
THEOREM CleanCorrect == Spec => []CleanIsOnDisk
<1>1. IInv => CleanIsOnDisk
  BY DEF IInv
<1> QED
  BY <1>1, Invariance, PTL

\* No buffer in somebody's hands is evicted or forgotten to be written back.
THEOREM HeldCorrect == Spec => []HeldIsTracked
<1>1. IInv => HeldIsTracked
  BY DEF IInv
<1> QED
  BY <1>1, Invariance, PTL
-----------------------------------------------------------------------------
\* Reading Memory block by block.
LEMMA MemoryAt ==
    ASSUME NEW k \in Block
    PROVE  Memory[k] = IF mode = "stopped" THEN disk[k]
                       ELSE IF k = Super THEN sb
                       ELSE IF k \in DOMAIN item THEN item[k].val
                       ELSE disk[k]
  BY DEF Memory

\* Two views of the memory are the same when they agree on every block.
LEMMA SameMemory ==
    ASSUME \A k \in Block : Memory'[k] = Memory[k]
    PROVE  Memory' = Memory
  BY DEF Memory

\* A cache operation changes nothing the client reads, and writes back at most
\* one block.
LEMMA AccessImplements ==
    ASSUME IInv, NEW h \in Holder, NEW k \in Block, NEW mut \in BOOLEAN, Access(h, k, mut)
    PROVE  Store!Next
<1>1. k \in Lba /\ mode = "running" /\ UNCHANGED <<sb, mode>> /\ NewHold(h, k, mut)
  BY DEF Access, Block, NewHold
<1>2. Running' = Running /\ Running
  BY <1>1 DEF Running
<1>3. disk \in [Block -> Value] /\ DOMAIN item \subseteq Lba /\ Lba \subseteq Block /\ Super \notin Lba
  BY StoreAssumption DEF IInv, TypeOK, Block
<1>4. CASE Hit(k, mut)
  <2>1. disk' = disk /\ DOMAIN item' = DOMAIN item
        /\ \A x \in DOMAIN item : item'[x].val = item[x].val
    BY <1>4 DEF Hit, IInv, TypeOK, Item
  <2>2. Memory' = Memory
    BY <1>1, <2>1 DEF Memory
  <2>3. Store!Acquire(h, k, mut)
    BY <1>1, <1>2, <2>1, <2>2 DEF Store!Acquire, NewHold
  <2> QED
    BY <1>1, <2>3 DEF Store!Next
<1>5. CASE MissKeepingAll(k, mut)
  <2>1. /\ disk' = disk /\ k \notin DOMAIN item /\ DOMAIN item' = DOMAIN item \cup {k}
        /\ item'[k].val = disk[k]
        /\ \A x \in DOMAIN item : item'[x] = item[x]
    BY <1>5 DEF MissKeepingAll, Loaded
  <2>2. ASSUME NEW x \in Block PROVE Memory'[x] = Memory[x]
    <3>1. Memory[x] = IF x = Super THEN sb ELSE IF x \in DOMAIN item THEN item[x].val ELSE disk[x]
      BY <1>1, MemoryAt
    <3>2. Memory'[x] = IF x = Super THEN sb' ELSE IF x \in DOMAIN item' THEN item'[x].val ELSE disk'[x]
      BY <1>1 DEF Memory
    <3> QED
      BY <1>1, <1>3, <2>1, <3>1, <3>2
  <2>3. Memory' = Memory
    BY <2>2, SameMemory
  <2>4. Store!Acquire(h, k, mut)
    BY <1>1, <1>2, <2>1, <2>3 DEF Store!Acquire, NewHold
  <2> QED
    BY <1>1, <2>4 DEF Store!Next
<1>6. CASE MissEvicting(k, mut)
  <2>1. PICK i \in DOMAIN cache_list :
          /\ disk' = Saved(cache_list[i])
          /\ item' = Loaded(k, mut, DOMAIN item \ {cache_list[i]})
    BY <1>6 DEF MissEvicting
  <2> DEFINE old == cache_list[i]
  <2>2. k \notin DOMAIN item /\ old \in DOMAIN item
    BY <1>6, <2>1, Positions DEF MissEvicting
  <2> HIDE DEF old
  <2>3. /\ DOMAIN item' = (DOMAIN item \ {old}) \cup {k}
        /\ item'[k].val = disk[k]
        /\ \A x \in DOMAIN item \ {old} : item'[x] = item[x]
    BY <2>1, <2>2 DEF Loaded, old
  <2>4. disk' = [disk EXCEPT ![old] = item[old].val]
    <3>1. CASE item[old].dirty
      BY <2>1, <3>1 DEF Saved, old
    <3>2. CASE ~item[old].dirty
      <4>1. disk[old] = item[old].val
        BY <2>2, <3>2 DEF IInv, CleanIsOnDisk
      <4>2. disk' = disk
        BY <2>1, <3>2 DEF Saved, old
      <4> QED
        BY <1>3, <2>2, <4>1, <4>2
    <3> QED
      BY <3>1, <3>2
  <2>5. Memory[old] = item[old].val /\ old \in Lba
    BY <1>1, <1>3, <2>2, MemoryAt
  <2>6. ASSUME NEW x \in Block PROVE Memory'[x] = Memory[x]
    <3>1. Memory[x] = IF x = Super THEN sb ELSE IF x \in DOMAIN item THEN item[x].val ELSE disk[x]
      BY <1>1, MemoryAt
    <3>2. Memory'[x] = IF x = Super THEN sb' ELSE IF x \in DOMAIN item' THEN item'[x].val ELSE disk'[x]
      BY <1>1 DEF Memory
    <3> QED
      BY <1>1, <1>3, <2>2, <2>3, <2>4, <3>1, <3>2
  <2>7. Memory' = Memory
    BY <2>6, SameMemory
  <2>8. Store!Saves(old)
    BY <2>4, <2>5 DEF Store!Saves
  <2>9. Store!Acquire(h, k, mut)
    BY <1>1, <1>2, <2>5, <2>7, <2>8 DEF Store!Acquire, NewHold
  <2> QED
    BY <1>1, <2>9 DEF Store!Next
<1> QED
  BY <1>4, <1>5, <1>6 DEF Access

LEMMA NextImplements == IInv /\ [Next]_vars => [Store!Next]_(Store!vars)
<1> SUFFICES ASSUME IInv, [Next]_vars PROVE [Store!Next]_(Store!vars)
  OBVIOUS
<1>0. /\ disk \in [Block -> Value] /\ DOMAIN item \subseteq Lba
      /\ Lba \subseteq Block /\ Super \notin Lba /\ Super \in Block
      /\ Store!Block = Block /\ held \in [Holder -> Hold \cup {None}]
  BY StoreAssumption DEF IInv, TypeOK, Block, Store!Block
<1>1. CASE \E h \in Holder, k \in Block, mut \in BOOLEAN : Access(h, k, mut)
  BY <1>1, AccessImplements
<1>2. CASE \E h \in Holder, v \in Value : WriteBuffer(h, v)
  <2>1. PICK h \in Holder, v \in Value : WriteBuffer(h, v)
    BY <1>2
  <2> DEFINE k == held[h].key
  <2>2. k \in DOMAIN item
    BY <2>1 DEF WriteBuffer, IInv, HeldIsTracked
  <2>3. /\ mode = "running" /\ UNCHANGED <<disk, sb, mode>>
        /\ item' = [item EXCEPT ![k].val = v]
    BY <2>1 DEF WriteBuffer
  <2> HIDE DEF k
  <2>4. /\ DOMAIN item' = DOMAIN item
        /\ item'[k].val = v
        /\ \A x \in DOMAIN item : x # k => item'[x] = item[x]
    BY <2>2, <2>3 DEF IInv, TypeOK, Item
  <2>5. Memory' = [Memory EXCEPT ![k] = v]
    BY <1>0, <2>2, <2>3, <2>4 DEF Memory
  <2>6. held[h] # None /\ held[h].mut /\ held' = held
    BY <2>1 DEF WriteBuffer
  <2>7. Store!Write(h, v)
    BY <2>3, <2>5, <2>6 DEF Store!Write, Running, k
  <2> QED
    BY <2>7 DEF Store!Next
<1>3. CASE \E h \in Holder : Release(h)
  <2>1. PICK h \in Holder : Release(h)
    BY <1>3
  <2>2. Store!Release(h)
    BY <2>1 DEF Release, Store!Release, Memory, Running
  <2> QED
    BY <2>2 DEF Store!Next
<1>4. CASE \E v \in Value : UpdateSuper(v)
  <2>1. PICK v \in Value : UpdateSuper(v)
    BY <1>4
  <2>2. Memory' = [Memory EXCEPT ![Super] = v]
    BY <1>0, <2>1 DEF UpdateSuper, Memory
  <2>3. Store!WriteSuper(v)
    BY <2>1, <2>2 DEF UpdateSuper, Store!WriteSuper, Running
  <2> QED
    BY <2>3 DEF Store!Next
<1>5. ASSUME disk' = [disk EXCEPT ![Super] = sb], mode = "running", mode' # "stopped",
             UNCHANGED <<sb, cache_list, item, held>>
      PROVE  Store!WriteBack(Super)
  <2>1. Memory' = Memory
    BY <1>0, <1>5 DEF Memory
  <2>2. Memory[Super] = sb
    BY <1>0, <1>5, MemoryAt
  <2> QED
    BY <1>5, <2>1, <2>2 DEF Store!WriteBack, Store!Saves, Running
<1>6. CASE FlushSuperBlock
  <2>1. Store!WriteBack(Super)
    BY <1>5, <1>6 DEF FlushSuperBlock
  <2> QED
    BY <1>0, <2>1 DEF Store!Next
<1>7. CASE BeginUnmount
  <2>1. Store!WriteBack(Super)
    BY <1>5, <1>7 DEF BeginUnmount
  <2> QED
    BY <1>0, <2>1 DEF Store!Next
<1>8. CASE Clear
  <2>1. /\ mode = "running" /\ UNCHANGED <<sb, mode>>
        /\ disk' = [k \in Block |-> Blank] /\ DOMAIN item' = {} /\ held' = held
    BY <1>8 DEF Clear, EmptyCache
  <2>2. Memory[Super] = sb
    BY <1>0, <2>1, MemoryAt
  <2>3. Memory' = [disk' EXCEPT ![Super] = Memory[Super]]
    BY <1>0, <2>1, <2>2 DEF Memory
  <2>4. held = Store!NothingHeld
    BY <1>0, <1>8 DEF Clear, NoHolders, Store!NothingHeld
  <2>5. Store!Erase
    BY <1>0, <2>1, <2>3, <2>4 DEF Store!Erase, Running
  <2> QED
    BY <2>5 DEF Store!Next
<1>9. CASE \E k \in Lba : FlushItem(k)
  <2>1. PICK k \in Lba : FlushItem(k)
    BY <1>9
  <2>2. /\ mode = "flushing" /\ k \in DOMAIN item /\ UNCHANGED <<sb, held, mode>>
        /\ disk' = [disk EXCEPT ![k] = item[k].val]
        /\ item' = [item EXCEPT ![k].dirty = FALSE]
    BY <2>1 DEF FlushItem, Dirty, Saved
  <2>3. DOMAIN item' = DOMAIN item /\ \A x \in DOMAIN item : item'[x].val = item[x].val
    BY <2>2 DEF IInv, TypeOK, Item
  <2>4. Memory[k] = item[k].val
    BY <1>0, <2>2, MemoryAt
  <2>5. Memory' = Memory
    BY <1>0, <2>2, <2>3 DEF Memory
  <2>6. Store!WriteBack(k)
    BY <2>2, <2>4, <2>5 DEF Store!WriteBack, Store!Saves, Running
  <2> QED
    BY <1>0, <2>6 DEF Store!Next
<1>10. ASSUME Gone, UNCHANGED disk
       PROVE  Memory' = disk /\ Running' = FALSE /\ held' = Store!NothingHeld
  BY <1>0, <1>10 DEF Gone, Memory, Running, Store!NothingHeld
<1>11. CASE EndUnmount
  <2>1. /\ mode = "flushing" /\ disk' = disk
        /\ \A k \in DOMAIN item : ~item[k].dirty
    BY <1>11 DEF EndUnmount, Dirty
  <2>2. \A k \in DOMAIN item : item[k].val = disk[k]
    BY <2>1 DEF IInv, CleanIsOnDisk
  <2>3. disk[Super] = sb
    BY <2>1 DEF IInv, ModeFacts
  <2>4. Memory = disk
    BY <1>0, <2>1, <2>2, <2>3 DEF Memory
  <2>5. Store!Stop
    BY <1>10, <1>11, <2>1, <2>4 DEF EndUnmount, Store!Stop, Running
  <2> QED
    BY <2>5 DEF Store!Next
<1>12. CASE Crash
  <2>1. Store!Crash
    BY <1>10, <1>12 DEF Crash, Store!Crash, Running
  <2> QED
    BY <2>1 DEF Store!Next
<1>13. CASE Mount
  <2>1. mode = "stopped" /\ mode' = "running" /\ sb' = disk[Super] /\ disk' = disk
        /\ item' = EmptyCache /\ held' = held
    BY <1>13 DEF Mount, IInv, ModeFacts
  <2>2. DOMAIN item' = {}
    BY <2>1 DEF EmptyCache
  <2>3. Memory' = Memory
    BY <1>0, <2>1, <2>2 DEF Memory
  <2>4. Store!Start
    BY <2>1, <2>3 DEF Store!Start, Running
  <2> QED
    BY <2>4 DEF Store!Next
<1>14. CASE UNCHANGED vars
  BY <1>14 DEF vars, Memory, Running, Store!vars
<1> QED
  BY <1>1, <1>2, <1>3, <1>4, <1>6, <1>7, <1>8, <1>9, <1>11, <1>12, <1>13, <1>14 DEF Next

\* The cache implements the abstract store: whatever it evicts, pins or leaves
\* dirty, the program reads what it last wrote, and a clean unmount loses
\* nothing.
THEOREM Implementation == Spec => ImplementsStore
<1>1. Init => Store!Init
  <2> SUFFICES ASSUME Init PROVE Store!Init
    OBVIOUS
  <2>1. DOMAIN item = {} /\ Super \in Block /\ Store!Block = Block
    BY DEF Init, EmptyCache, Block, Store!Block
  <2>2. Memory = disk
    BY <2>1 DEF Init, Memory
  <2> QED
    BY <2>1, <2>2 DEF Init, Store!Init, Store!NothingHeld, Running
<1>2. IInv /\ [Next]_vars => [Store!Next]_(Store!vars)
  BY NextImplements
<1> QED
  BY <1>1, <1>2, Invariance, PTL DEF Spec, ImplementsStore, Store!Spec
-----------------------------------------------------------------------------
\* A list that has no key twice is no longer than its set of keys.
LEMMA ListLength ==
    ASSUME NEW list, NEW K, Matches(list, K), IsFiniteSet(K)
    PROVE  Len(list) <= Cardinality(K)
<1>1. list \in [1 .. Len(list) -> K] /\ Len(list) \in Nat /\ DOMAIN list = 1 .. Len(list)
  BY LenProperties DEF Matches
<1>2. list \in Injection(1 .. Len(list), K)
  BY <1>1 DEF Matches, Injection, IsInjective
<1>3. Cardinality(1 .. Len(list)) <= Cardinality(K)
  BY <1>2, FS_Injection
<1>4. Cardinality(1 .. Len(list)) = Len(list)
  <2>1. Cardinality(1 .. Len(list)) = IF 1 > Len(list) THEN 0 ELSE Len(list) - 1 + 1
    BY <1>1, FS_Interval
  <2> QED
    BY <1>1, <2>1
<1> QED
  BY <1>3, <1>4

\* If every cached buffer is held, there are no more of them than holders.
LEMMA AllPinned ==
    ASSUME IInv, \A x \in DOMAIN item : Pinned(x)
    PROVE  Len(cache_list) <= Cardinality(Holder)
<1> DEFINE K == DOMAIN item
           by == [x \in K |-> CHOOSE h \in Holder : held[h] # None /\ held[h].key = x]
<1>1. \A x \in K : by[x] \in Holder /\ held[by[x]].key = x
  BY DEF Pinned
<1>2. by \in Injection(K, Holder)
  BY <1>1 DEF Injection, IsInjective
<1>3. IsFiniteSet(K) /\ Cardinality(K) <= Cardinality(Holder)
  BY <1>2, FS_Injection, CacheAssumption
<1>4. Len(cache_list) <= Cardinality(K)
  BY <1>3, Positions, ListLength
<1>5. Len(cache_list) \in Nat /\ Cardinality(K) \in Nat /\ Cardinality(Holder) \in Nat
  BY <1>3, CacheAssumption, FS_CardinalityType, LenProperties DEF IInv, TypeOK
<1> QED
  BY <1>3, <1>4, <1>5

\* How a miss or a hit changes the length of the list.
LEMMA ListGrowth ==
    ASSUME IInv, NEW k \in Block, NEW mut \in BOOLEAN, k # Super
    PROVE  /\ Len(cache_list) \in Nat
           /\ Hit(k, mut) => Len(cache_list') = Len(cache_list)
           /\ MissKeepingAll(k, mut) => Len(cache_list') = Len(cache_list) + 1
           /\ MissEvicting(k, mut) => Len(cache_list') = Len(cache_list)
<1>1. k \in Lba /\ cache_list \in Seq(Lba) /\ Len(cache_list) \in Nat
      /\ DOMAIN cache_list = 1 .. Len(cache_list)
  BY LenProperties DEF Block, IInv, TypeOK
<1>2. ASSUME NEW i \in DOMAIN cache_list, NEW x \in Lba
      PROVE  Len(<<x>> \o RemoveAt(cache_list, i)) = Len(cache_list)
  <2>1. RemoveAt(cache_list, i) \in Seq(Lba) /\ Len(RemoveAt(cache_list, i)) = Len(cache_list) - 1
    BY <1>1, RemoveAtProperties
  <2>2. Len(<<x>> \o RemoveAt(cache_list, i)) = Len(RemoveAt(cache_list, i)) + 1
    BY <2>1, FrontProperties
  <2>3. \A n \in Nat : (n - 1) + 1 = n
    OBVIOUS
  <2> QED
    BY <1>1, <2>1, <2>2, <2>3, Zenon
<1>3. Len(<<k>> \o cache_list) = Len(cache_list) + 1
  BY <1>1, FrontProperties
<1> QED
  BY <1>1, <1>2, <1>3 DEF Hit, ToFront, MissKeepingAll, MissEvicting

\* The cache outgrows its capacity only as far as the callers' pins force it.
THEOREM SizeCorrect == Spec => []SizeBounded
<1>1. Init => SizeBounded
  BY CacheAssumption DEF Init, SizeBounded
<1>2. IInv /\ SizeBounded /\ [Next]_vars => SizeBounded'
  <2> SUFFICES ASSUME IInv, SizeBounded, [Next]_vars PROVE SizeBounded'
    OBVIOUS
  <2>0. Cardinality(Holder) \in Nat /\ Capacity \in Nat \ {0} /\ Len(cache_list) \in Nat
    BY CacheAssumption, FS_CardinalityType, LenProperties DEF IInv, TypeOK
  <2>1. CASE \E h \in Holder, k \in Block, mut \in BOOLEAN : Access(h, k, mut)
    <3>1. PICK h \in Holder, k \in Block, mut \in BOOLEAN : Access(h, k, mut)
      BY <2>1
    <3>2. k # Super
      BY <3>1 DEF Access
    <3>3. CASE Hit(k, mut) \/ MissEvicting(k, mut)
      BY <3>2, <3>3, ListGrowth DEF SizeBounded
    <3>4. CASE MissKeepingAll(k, mut)
      <4>1. Len(cache_list') = Len(cache_list) + 1
        BY <3>2, <3>4, ListGrowth
      <4>2. Len(cache_list) < Capacity \/ Len(cache_list) <= Cardinality(Holder)
        BY <3>4, AllPinned DEF MissKeepingAll
      <4> QED
        BY <2>0, <4>1, <4>2 DEF SizeBounded
    <3> QED
      BY <3>1, <3>3, <3>4 DEF Access
  <2>2. CASE UNCHANGED cache_list
    BY <2>2 DEF SizeBounded
  <2>3. CASE cache_list' = <<>>
    BY <2>0, <2>3 DEF SizeBounded
  <2> QED
    BY <2>1, <2>2, <2>3
       DEF Next, WriteBuffer, Release, UpdateSuper, FlushSuperBlock, Clear, BeginUnmount,
           FlushItem, EndUnmount, Crash, Gone, Mount, vars
<1> QED
  BY <1>1, <1>2, Invariance, PTL DEF Spec
=============================================================================

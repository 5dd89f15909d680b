-------------------------- MODULE SearchTree_proofs --------------------------
(***************************************************************************)
(* What the tree operations do for every tree, key assignment and slot     *)
(* set.                                                                    *)
(***************************************************************************)
EXTENDS SearchTree, SequenceTheorems, TLAPS

\* A lookup in a tree that is sorted by the key searched for cannot miss, and
\* has one result: what clid.c and shell.c rely on in every tfind (and clid.c
\* loses when it searches client_tree by job id or by timer).
THEOREM SortedSearchIsExact ==
    ASSUME NEW S, NEW tree \in Seq(S), NEW key \in [S -> Int], NEW k \in Int,
           SortedBy(tree, key),
           Hits(tree, key, k) # {}
    PROVE  ~CanMiss(tree, key, k) /\ \A p, q \in Hits(tree, key, k) : p = q
<1> DEFINE K(p) == key[tree[p]]
<1>1. \A p \in 1..Len(tree) : K(p) \in Int
  OBVIOUS
<1>2. PICK p \in 1..Len(tree) : K(p) = k
  BY DEF Hits
<1>3. ASSUME NEW g \in Gaps(tree, key, k) PROVE FALSE
  <2>1. /\ g \in 0..Len(tree)
        /\ g > 0 => K(g) < k
        /\ g < Len(tree) => k < K(g + 1)
    BY <1>3 DEF Gaps
  <2>2. \A q, r \in 1..Len(tree) : q < r => K(q) < K(r)
    BY DEF SortedBy
  <2>3. CASE p <= g
    <3>1. g \in 1..Len(tree) /\ K(g) < k
      BY <2>1, <2>3, <1>2
    <3>2. p = g \/ K(p) < K(g)
      BY <2>2, <2>3, <3>1, <1>2
    <3> QED BY <3>1, <3>2, <1>1, <1>2
  <2>4. CASE g < p
    <3>1. g + 1 \in 1..Len(tree) /\ k < K(g + 1)
      BY <2>1, <2>4, <1>2
    <3>2. p = g + 1 \/ g + 1 < p
      BY <2>1, <2>4, <1>2
    <3>3. p = g + 1 \/ K(g + 1) < K(p)
      BY <2>2, <3>1, <3>2, <1>2, Zenon
    <3> QED BY <3>1, <3>3, <1>1, <1>2
  <2> QED BY <2>1, <2>3, <2>4, <1>2
<1>4. ASSUME NEW q \in Hits(tree, key, k), NEW r \in Hits(tree, key, k) PROVE q = r
  <2>1. q \in 1..Len(tree) /\ r \in 1..Len(tree) /\ K(q) = k /\ K(r) = k
    BY DEF Hits
  <2>2. ~(K(q) < K(r)) /\ ~(K(r) < K(q))
    BY <2>1
  <2> QED BY <2>1, <2>2 DEF SortedBy
<1> QED BY <1>3, <1>4 DEF CanMiss

-----------------------------------------------------------------------------
\* What InsertAt and RemoveAt return, element by element.
LEMMA InsertAtElements ==
    ASSUME NEW S, NEW tree \in Seq(S), NEW i \in 1..(Len(tree) + 1), NEW s \in S
    PROVE  /\ InsertAt(tree, i, s) \in Seq(S)
           /\ Len(InsertAt(tree, i, s)) = Len(tree) + 1
           /\ \A p \in 1..(i - 1) : InsertAt(tree, i, s)[p] = tree[p]
           /\ InsertAt(tree, i, s)[i] = s
           /\ \A p \in (i + 1)..(Len(tree) + 1) : InsertAt(tree, i, s)[p] = tree[p - 1]
<1> DEFINE left == SubSeq(tree, 1, i - 1)
           right == SubSeq(tree, i, Len(tree))
<1>1. left \in Seq(S) /\ Len(left) = i - 1 /\ \A p \in 1..(i - 1) : left[p] = tree[p]
  OBVIOUS
<1>2. /\ right \in Seq(S) /\ Len(right) = Len(tree) - (i - 1)
      /\ \A p \in 1..(Len(tree) - (i - 1)) : right[p] = tree[(i - 1) + p]
  OBVIOUS
<1>3. InsertAt(tree, i, s) = left \o <<s>> \o right
  BY DEF InsertAt
<1> HIDE DEF left, right
<1> DEFINE mid == left \o <<s>>
<1>4. /\ mid \in Seq(S) /\ Len(mid) = i
      /\ \A p \in 1..(i - 1) : mid[p] = tree[p]
      /\ mid[i] = s
  BY <1>1
<1>5. InsertAt(tree, i, s) = mid \o right
  BY <1>3
<1> HIDE DEF mid
<1>6. mid \o right \in Seq(S) /\ Len(mid \o right) = Len(tree) + 1
  <2>1. mid \o right \in Seq(S) /\ Len(mid \o right) = Len(mid) + Len(right)
    BY <1>2, <1>4, ConcatProperties
  <2>2. Len(tree) \in Nat
    OBVIOUS
  <2> QED BY <1>2, <1>4, <2>1, <2>2
<1>7. \A p \in 1..i : (mid \o right)[p] = mid[p]
  BY <1>2, <1>4
<1>8. \A p \in (i + 1)..(Len(tree) + 1) : (mid \o right)[p] = right[p - i]
  BY <1>2, <1>4
<1>9. \A p \in (i + 1)..(Len(tree) + 1) : right[p - i] = tree[p - 1]
  <2> TAKE p \in (i + 1)..(Len(tree) + 1)
  <2>1. p - i \in 1..(Len(tree) - (i - 1)) /\ (i - 1) + (p - i) = p - 1
    OBVIOUS
  <2> QED BY <1>2, <2>1
<1>10. 1..(i - 1) \subseteq 1..i /\ i \in 1..i
  OBVIOUS
<1> QED BY <1>4, <1>5, <1>6, <1>7, <1>8, <1>9, <1>10, Zenon

LEMMA RemoveAtElements ==
    ASSUME NEW S, NEW tree \in Seq(S), NEW h \in 1..Len(tree)
    PROVE  /\ RemoveAt(tree, h) \in Seq(S)
           /\ Len(RemoveAt(tree, h)) = Len(tree) - 1
           /\ \A p \in 1..(h - 1) : RemoveAt(tree, h)[p] = tree[p]
           /\ \A p \in h..(Len(tree) - 1) : RemoveAt(tree, h)[p] = tree[p + 1]
<1> DEFINE left == SubSeq(tree, 1, h - 1)
           right == SubSeq(tree, h + 1, Len(tree))
<1>1. left \in Seq(S) /\ Len(left) = h - 1 /\ \A p \in 1..(h - 1) : left[p] = tree[p]
  OBVIOUS
<1>2. /\ right \in Seq(S) /\ Len(right) = Len(tree) - h
      /\ \A p \in 1..(Len(tree) - h) : right[p] = tree[h + p]
  OBVIOUS
<1>3. RemoveAt(tree, h) = left \o right
  BY DEF RemoveAt
<1> HIDE DEF left, right
<1>4. Len(left \o right) = Len(tree) - 1 /\ left \o right \in Seq(S)
  <2>1. left \o right \in Seq(S) /\ Len(left \o right) = Len(left) + Len(right)
    BY <1>1, <1>2, ConcatProperties
  <2>2. Len(tree) \in Nat
    OBVIOUS
  <2> QED BY <1>1, <1>2, <2>1, <2>2
<1>5. \A p \in 1..(h - 1) : (left \o right)[p] = left[p]
  BY <1>1, <1>2
<1>6. \A p \in h..(Len(tree) - 1) : (left \o right)[p] = right[p - (h - 1)]
  BY <1>1, <1>2
<1>7. \A p \in h..(Len(tree) - 1) : right[p - (h - 1)] = tree[p + 1]
  <2> TAKE p \in h..(Len(tree) - 1)
  <2>1. p - (h - 1) \in 1..(Len(tree) - h) /\ h + (p - (h - 1)) = p + 1
    OBVIOUS
  <2> QED BY <1>2, <2>1
<1> QED BY <1>1, <1>3, <1>4, <1>5, <1>6, <1>7

\* The elements of a sequence, by position.
LEMMA ToSetOfSeq ==
    ASSUME NEW S, NEW T \in Seq(S)
    PROVE  /\ \A p \in 1..Len(T) : T[p] \in ToSet(T)
           /\ \A x \in ToSet(T) : \E p \in 1..Len(T) : T[p] = x
           /\ ToSet(T) \subseteq S
  BY DEF ToSet

\* A slot tfind returns is in the tree and has the key searched for.
LEMMA FoundElements ==
    ASSUME NEW S, NEW tree \in Seq(S), NEW key, NEW k, NEW s \in Found(tree, key, k)
    PROVE  s \in S /\ s \in ToSet(tree) /\ key[s] = k
<1>1. PICK p \in 1..Len(tree) : s = tree[p] /\ key[tree[p]] = k
  BY DEF Found, Hits
<1> QED BY <1>1, ToSetOfSeq

\* tsearch links the new slot, keeps every other node, and adds none.
LEMMA InsertsElements ==
    ASSUME NEW S, NEW tree \in Seq(S), NEW key, NEW k, NEW s \in S,
           NEW T \in Inserts(tree, key, k, s)
    PROVE  T \in Seq(S) /\ ToSet(T) = ToSet(tree) \cup {s}
<1>1. CASE T = tree /\ s \in ToSet(tree)
  BY <1>1
<1>2. CASE \E g \in Gaps(tree, key, k) : T = InsertAt(tree, g + 1, s)
  <2>1. PICK i \in 1..(Len(tree) + 1) : T = InsertAt(tree, i, s)
    <3>1. PICK g \in 0..Len(tree) : T = InsertAt(tree, g + 1, s)
      BY <1>2 DEF Gaps
    <3>2. g + 1 \in 1..(Len(tree) + 1)
      OBVIOUS
    <3> QED BY <3>1, <3>2
  <2>2. /\ T \in Seq(S) /\ Len(T) = Len(tree) + 1
        /\ \A p \in 1..(i - 1) : T[p] = tree[p]
        /\ T[i] = s
        /\ \A p \in (i + 1)..(Len(tree) + 1) : T[p] = tree[p - 1]
    <3>1. /\ InsertAt(tree, i, s) \in Seq(S)
          /\ Len(InsertAt(tree, i, s)) = Len(tree) + 1
      BY InsertAtElements
    <3>2. \A p \in 1..(i - 1) : InsertAt(tree, i, s)[p] = tree[p]
      BY InsertAtElements
    <3>3. InsertAt(tree, i, s)[i] = s
      BY InsertAtElements
    <3>4. \A p \in (i + 1)..(Len(tree) + 1) : InsertAt(tree, i, s)[p] = tree[p - 1]
      BY InsertAtElements
    <3> QED BY <2>1, <3>1, <3>2, <3>3, <3>4, Zenon
  <2>3. ASSUME NEW p \in 1..Len(T) PROVE T[p] \in ToSet(tree) \cup {s}
    <3>1. CASE p \in 1..(i - 1)
      BY <2>2, <3>1, ToSetOfSeq
    <3>2. CASE p = i
      BY <2>2, <3>2
    <3>3. CASE p \in (i + 1)..(Len(tree) + 1)
      <4>1. p - 1 \in 1..Len(tree)
        BY <3>3
      <4> QED BY <2>2, <3>3, <4>1, ToSetOfSeq
    <3> QED BY <2>2, <3>1, <3>2, <3>3
  <2>4. ASSUME NEW p \in 1..Len(tree) PROVE tree[p] \in ToSet(T)
    <3>1. CASE p \in 1..(i - 1)
      <4>1. p \in 1..Len(T)
        BY <2>2, <3>1
      <4> QED BY <2>2, <3>1, <4>1, ToSetOfSeq
    <3>2. CASE p \in i..Len(tree)
      <4>1. p + 1 \in (i + 1)..(Len(tree) + 1) /\ (p + 1) - 1 = p /\ p + 1 \in 1..Len(T)
        BY <2>2, <3>2
      <4>2. T[p + 1] = tree[p]
        BY <2>2, <4>1
      <4> QED BY <2>2, <4>1, <4>2, ToSetOfSeq, Zenon
    <3> QED BY <3>1, <3>2
  <2>5. s \in ToSet(T)
    <3>1. i \in 1..Len(T)
      BY <2>2
    <3> QED BY <2>2, <3>1, ToSetOfSeq, Zenon
  <2>6. ASSUME NEW x \in ToSet(tree) PROVE x \in ToSet(T)
    <3>1. PICK p \in 1..Len(tree) : tree[p] = x
      BY ToSetOfSeq
    <3> QED BY <2>4, <3>1
  <2>7. ASSUME NEW x \in ToSet(T) PROVE x \in ToSet(tree) \cup {s}
    <3>1. PICK p \in 1..Len(T) : T[p] = x
      BY <2>2, ToSetOfSeq
    <3> QED BY <2>3, <3>1
  <2>8. ToSet(T) = ToSet(tree) \cup {s}
    BY <2>5, <2>6, <2>7
  <2> QED BY <2>2, <2>8
<1> QED BY <1>1, <1>2 DEF Inserts

\* tdelete unlinks no slot whose key differs from the one it searches for,
\* and links none.
LEMMA DeletesElements ==
    ASSUME NEW S, NEW tree \in Seq(S), NEW key, NEW k,
           NEW T \in Deletes(tree, key, k)
    PROVE  /\ T \in Seq(S) /\ ToSet(T) \subseteq ToSet(tree)
           /\ \A s \in ToSet(tree) : key[s] # k => s \in ToSet(T)
<1>1. CASE T = tree
  BY <1>1
<1>2. CASE \E h \in Hits(tree, key, k) : T = RemoveAt(tree, h)
  <2>1. PICK h \in 1..Len(tree) : T = RemoveAt(tree, h) /\ key[tree[h]] = k
    BY <1>2 DEF Hits
  <2>2. /\ T \in Seq(S) /\ Len(T) = Len(tree) - 1
        /\ \A p \in 1..(h - 1) : T[p] = tree[p]
        /\ \A p \in h..(Len(tree) - 1) : T[p] = tree[p + 1]
    BY <2>1, RemoveAtElements
  <2>3. ToSet(T) \subseteq ToSet(tree)
    <3>0. \A x \in ToSet(T) : \E p \in 1..Len(T) : T[p] = x
      BY <2>2, ToSetOfSeq
    <3> SUFFICES ASSUME NEW p \in 1..Len(T) PROVE T[p] \in ToSet(tree)
      BY <3>0
    <3>1. CASE p \in 1..(h - 1)
      <4>1. p \in 1..Len(tree)
        BY <3>1
      <4> QED BY <2>2, <3>1, <4>1, ToSetOfSeq, Zenon
    <3>2. CASE p \in h..(Len(tree) - 1)
      <4>1. p + 1 \in 1..Len(tree)
        BY <3>2
      <4> QED BY <2>2, <3>2, <4>1 DEF ToSet
    <3> QED BY <2>2, <3>1, <3>2
  <2>4. ASSUME NEW s \in ToSet(tree), key[s] # k PROVE s \in ToSet(T)
    <3>1. PICK p \in 1..Len(tree) : tree[p] = s
      BY <2>4 DEF ToSet
    <3>2. p # h
      BY <2>1, <2>4, <3>1
    <3>3. CASE p \in 1..(h - 1)
      BY <2>2, <3>1, <3>3 DEF ToSet
    <3>4. CASE p \in (h + 1)..Len(tree)
      <4>1. p - 1 \in h..(Len(tree) - 1) /\ (p - 1) + 1 = p /\ p - 1 \in 1..Len(T)
        BY <2>2, <3>4
      <4>2. T[p - 1] = tree[p]
        BY <2>2, <4>1
      <4> QED BY <2>2, <3>1, <4>1, <4>2 DEF ToSet
    <3> QED BY <3>2, <3>3, <3>4
  <2> QED BY <2>2, <2>3, <2>4
<1> QED BY <1>1, <1>2 DEF Deletes

\* A gap splits a sorted tree into smaller and larger keys.
LEMMA GapSplits ==
    ASSUME NEW S, NEW tree \in Seq(S), NEW key \in [S -> Int], NEW k \in Int,
           SortedBy(tree, key), NEW g \in Gaps(tree, key, k)
    PROVE  /\ g \in 0..Len(tree)
           /\ \A p \in 1..Len(tree) : p <= g => key[tree[p]] < k
           /\ \A p \in 1..Len(tree) : p > g => k < key[tree[p]]
<1> DEFINE K(p) == key[tree[p]]
<1>1. \A p \in 1..Len(tree) : K(p) \in Int
  OBVIOUS
<1>2. /\ g \in 0..Len(tree)
      /\ g > 0 => K(g) < k
      /\ g < Len(tree) => k < K(g + 1)
  BY DEF Gaps
<1>3. \A q, r \in 1..Len(tree) : q < r => K(q) < K(r)
  BY DEF SortedBy
<1> HIDE DEF K
<1>4. ASSUME NEW p \in 1..Len(tree), p <= g PROVE K(p) < k
  <2>1. g \in 1..Len(tree) /\ K(g) < k
    BY <1>2, <1>4
  <2>2. p = g \/ K(p) < K(g)
    BY <1>3, <1>4, <2>1
  <2> QED BY <1>1, <2>1, <2>2
<1>5. ASSUME NEW p \in 1..Len(tree), p > g PROVE k < K(p)
  <2>1. g + 1 \in 1..Len(tree) /\ k < K(g + 1)
    BY <1>2, <1>5
  <2>2. p = g + 1 \/ g + 1 < p
    BY <1>2, <1>5
  <2>3. p = g + 1 \/ K(g + 1) < K(p)
    BY <1>3, <2>1, <2>2, Zenon
  <2> QED BY <1>1, <2>1, <2>3
<1> QED BY <1>2, <1>4, <1>5 DEF K

\* tsearch of a slot that is not yet linked keeps a sorted tree sorted.
LEMMA InsertKeepsSorted ==
    ASSUME NEW S, NEW tree \in Seq(S), NEW key \in [S -> Int], NEW s \in S \ ToSet(tree),
           SortedBy(tree, key), NEW T \in Inserts(tree, key, key[s], s)
    PROVE  SortedBy(T, key)
<1>1. PICK g \in Gaps(tree, key, key[s]) : T = InsertAt(tree, g + 1, s)
  BY DEF Inserts
<1>2. /\ g \in 0..Len(tree)
      /\ \A p \in 1..Len(tree) : p <= g => key[tree[p]] < key[s]
      /\ \A p \in 1..Len(tree) : p > g => key[s] < key[tree[p]]
  BY GapSplits
<1>3. PICK i \in 1..(Len(tree) + 1) : i = g + 1
  BY <1>2
<1>4. /\ Len(T) = Len(tree) + 1
      /\ \A p \in 1..(i - 1) : T[p] = tree[p]
      /\ T[i] = s
      /\ \A p \in (i + 1)..(Len(tree) + 1) : T[p] = tree[p - 1]
  <2>1. T = InsertAt(tree, i, s)
    BY <1>1, <1>3
  <2>2. Len(InsertAt(tree, i, s)) = Len(tree) + 1
    BY InsertAtElements
  <2>3. \A p \in 1..(i - 1) : InsertAt(tree, i, s)[p] = tree[p]
    BY InsertAtElements
  <2>4. InsertAt(tree, i, s)[i] = s
    BY InsertAtElements
  <2>5. \A p \in (i + 1)..(Len(tree) + 1) : InsertAt(tree, i, s)[p] = tree[p - 1]
    BY InsertAtElements
  <2> QED BY <2>1, <2>2, <2>3, <2>4, <2>5, Zenon
<1> DEFINE K(p) == key[tree[p]]
<1>5. \A q, r \in 1..Len(tree) : q < r => K(q) < K(r)
  BY DEF SortedBy
<1> SUFFICES ASSUME NEW p \in 1..Len(T), NEW q \in 1..Len(T), p < q
             PROVE  key[T[p]] < key[T[q]]
  BY DEF SortedBy
<1>6. CASE q < i
  <2>1. T[p] = tree[p] /\ T[q] = tree[q] /\ p \in 1..Len(tree) /\ q \in 1..Len(tree)
    BY <1>4, <1>6
  <2> QED BY <1>5, <2>1
<1>7. CASE q = i
  <2>1. T[p] = tree[p] /\ T[q] = s /\ p \in 1..Len(tree) /\ p <= g
    BY <1>2, <1>3, <1>4, <1>7
  <2> QED BY <1>2, <2>1
<1>8. CASE q > i /\ p < i
  <2>1. T[p] = tree[p] /\ T[q] = tree[q - 1] /\ p \in 1..Len(tree) /\ q - 1 \in 1..Len(tree)
        /\ p < q - 1
    BY <1>4, <1>8
  <2> QED BY <1>5, <2>1
<1>9. CASE p = i
  <2>1. q \in (i + 1)..(Len(tree) + 1)
    BY <1>4, <1>9
  <2>2. T[p] = s /\ T[q] = tree[q - 1]
    BY <1>4, <1>9, <2>1
  <2>3. q - 1 \in 1..Len(tree) /\ q - 1 > g
    BY <1>2, <1>3, <2>1
  <2> QED BY <1>2, <2>2, <2>3
<1>10. CASE p > i
  <2>1. T[p] = tree[p - 1] /\ T[q] = tree[q - 1]
        /\ p - 1 \in 1..Len(tree) /\ q - 1 \in 1..Len(tree) /\ p - 1 < q - 1
    BY <1>4, <1>10
  <2> QED BY <1>5, <2>1
<1> QED BY <1>4, <1>6, <1>7, <1>8, <1>9, <1>10

\* tdelete in a sorted tree leaves it sorted, without the key searched for.
LEMMA DeleteFromSorted ==
    ASSUME NEW S, NEW tree \in Seq(S), NEW key \in [S -> Int], NEW k \in Int,
           SortedBy(tree, key), NEW T \in Deletes(tree, key, k)
    PROVE  SortedBy(T, key) /\ \A s \in ToSet(T) : key[s] # k
<1>1. CASE Hits(tree, key, k) = {}
  <2>1. T = tree
    BY <1>1 DEF Deletes
  <2>2. \A p \in 1..Len(tree) : key[tree[p]] # k
    BY <1>1 DEF Hits
  <2> QED BY <2>1, <2>2, ToSetOfSeq
<1>2. CASE Hits(tree, key, k) # {}
  <2>1. PICK h \in Hits(tree, key, k) : T = RemoveAt(tree, h)
    BY <1>2, SortedSearchIsExact DEF Deletes
  <2>2. h \in 1..Len(tree) /\ \A p \in 1..Len(tree) : p # h => key[tree[p]] # k
    BY <2>1, SortedSearchIsExact DEF Hits
  <2>3. /\ T \in Seq(S) /\ Len(T) = Len(tree) - 1
        /\ \A p \in 1..(h - 1) : T[p] = tree[p]
        /\ \A p \in h..(Len(tree) - 1) : T[p] = tree[p + 1]
    BY <2>1, <2>2, RemoveAtElements
  <2> DEFINE Old(p) == IF p < h THEN p ELSE p + 1
  <2>0. Len(tree) \in Nat /\ h \in 1..Len(tree) /\ Len(T) = Len(tree) - 1
    BY <2>2, <2>3
  <2>4. \A p \in 1..Len(T) : Old(p) \in 1..Len(tree) /\ Old(p) # h
    BY <2>0
  <2>5. ASSUME NEW p \in 1..Len(T) PROVE T[p] = tree[Old(p)]
    <3>1. CASE p < h
      BY <2>0, <2>3, <3>1
    <3>2. CASE p >= h
      <4>1. p \in h..(Len(tree) - 1) /\ Old(p) = p + 1
        BY <2>0, <3>2
      <4> QED BY <2>3, <4>1
    <3> QED BY <2>0, <3>1, <3>2
  <2>6. \A p, q \in 1..Len(T) : p < q => Old(p) < Old(q)
    BY <2>2, <2>3
  <2> HIDE DEF Old
  <2>7. SortedBy(T, key)
    BY <2>4, <2>5, <2>6 DEF SortedBy
  <2>8. ASSUME NEW s \in ToSet(T) PROVE key[s] # k
    <3>1. PICK p \in 1..Len(T) : T[p] = s
      BY <2>3, ToSetOfSeq
    <3> QED BY <2>2, <2>4, <2>5, <3>1
  <2> QED BY <2>7, <2>8
<1> QED BY <1>1, <1>2
=============================================================================

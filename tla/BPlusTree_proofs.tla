-------------------------- MODULE BPlusTree_proofs --------------------------
(***************************************************************************)
(* What holds of a BPlusTree of any order over any history of calls: its   *)
(* nodes are a tree, no helper is seen by who walks the leaf chain, the    *)
(* tree implements a map from keys to posting lists, Validate returns      *)
(* true, and a range search returns what searching for each key does.      *)
(***************************************************************************)
EXTENDS BPlusTreeHeap_proofs

-----------------------------------------------------------------------------
(* What a split and a merge make of the postings of the leaves they act on. *)

\* Cutting a sequence in two loses and copies nothing.
LEMMA CutInTwo ==
    ASSUME NEW T, NEW s \in Seq(T), NEW n \in 0..Len(s)
    PROVE  /\ SubSeq(s, 1, n) \in Seq(T) /\ Len(SubSeq(s, 1, n)) = n
           /\ Drop(s, n) \in Seq(T) /\ Len(Drop(s, n)) = Len(s) - n
           /\ SubSeq(s, 1, n) \o Drop(s, n) = s
<1>1. /\ SubSeq(s, 1, n) \in Seq(T) /\ Len(SubSeq(s, 1, n)) = n
      /\ \A i \in 1..n : SubSeq(s, 1, n)[i] = s[i]
  OBVIOUS
<1>2. /\ Drop(s, n) \in Seq(T) /\ Len(Drop(s, n)) = Len(s) - n
      /\ \A i \in 1..Len(s) - n : Drop(s, n)[i] = s[n + i]
  BY DEF Drop
<1>3. SubSeq(s, 1, n) \o Drop(s, n) = s
  <2> DEFINE t == SubSeq(s, 1, n) \o Drop(s, n)
  <2>1. t \in Seq(T) /\ Len(t) = Len(s)
    BY <1>1, <1>2, ConcatProperties
  <2>2. \A i \in 1..Len(t) : t[i] = IF i <= n THEN SubSeq(s, 1, n)[i] ELSE Drop(s, n)[i - n]
    BY <1>1, <1>2, ConcatProperties
  <2>3. \A i \in 1..Len(t) : t[i] = s[i]
    BY <1>1, <1>2, <2>1, <2>2
  <2> HIDE DEF t
  <2>4. t = s
    BY <2>1, <2>3, SeqEqual
  <2> QED
    BY <2>4 DEF t
<1> QED
  BY <1>1, <1>2, <1>3

\* What SplitLeaf makes of the leaf it is called on and of the leaf it adds.
LEMMA SplitLeafHalves ==
    ASSUME IsFiniteSet(DOMAIN node),
           node \in [DOMAIN node -> NodeFields],
           Callee \in DOMAIN node,
           node[Callee].next # Callee,
           SplitLeaf
    PROVE  LET n == LeafSplitPoint(Len(node[Callee].keys))
           IN  /\ DOMAIN node' = DOMAIN node \cup {Fresh}
               /\ node'[Callee].keys = SubSeq(node[Callee].keys, 1, n)
               /\ node'[Callee].values = SubSeq(node[Callee].values, 1, n)
               /\ node'[Fresh].keys = Drop(node[Callee].keys, n)
               /\ node'[Fresh].values = Drop(node[Callee].values, n)
<1> DEFINE old   == node[Callee]
           n     == LeafSplitPoint(Len(old.keys))
           right == [NewLeaf EXCEPT !.keys = Drop(old.keys, n), !.values = Drop(old.values, n),
                                    !.next = old.next, !.previous = Callee]
           left  == [old EXCEPT !.keys = SubSeq(@, 1, n), !.values = SubSeq(@, 1, n),
                                !.next = Fresh]
           heap  == [a \in DOMAIN node |->
                        CASE a = Callee   -> left
                          [] a = old.next -> [node[a] EXCEPT !.previous = Fresh]
                          [] OTHER        -> node[a]]
<1>1. node' = Allocate(right, heap)
  BY DEF SplitLeaf
<1>2. old.next # Callee => heap[Callee] = left
  OBVIOUS
<1> QED
  BY <1>1, <1>2, FreshIsFree DEF Allocate, NodeFields, NewLeaf

\* SplitLeaf answers the overflow of a leaf of any order with two leaves within
\* their bounds; keys and posting lists stay side by side, none is lost or
\* copied, and they stay in their order.
THEOREM SplitLeafKeepsPostings ==
    ASSUME IsFiniteSet(DOMAIN node),
           node \in [DOMAIN node -> NodeFields],
           Callee \in DOMAIN node,
           node[Callee].next # Callee,
           Len(node[Callee].keys) = MaxKeys + 1,
           Len(node[Callee].values) = MaxKeys + 1,
           SplitLeaf
    PROVE  /\ \A a \in {Callee, Fresh} : /\ LeafFits(Len(node'[a].keys))
                                         /\ Len(node'[a].values) = Len(node'[a].keys)
           /\ node'[Callee].keys \o node'[Fresh].keys = node[Callee].keys
           /\ node'[Callee].values \o node'[Fresh].values = node[Callee].values
<1> DEFINE n == LeafSplitPoint(Len(node[Callee].keys))
<1>1. n \in 0..Len(node[Callee].keys) /\ MaxKeys \in Nat
  BY OrderAssumption DEF LeafSplitPoint, MaxKeys
<1>2. node[Callee].keys \in Seq(Keys) /\ node[Callee].values \in Seq(Seq(Records))
  BY DEF NodeFields
<1>3. /\ node'[Callee].keys = SubSeq(node[Callee].keys, 1, n)
      /\ node'[Callee].values = SubSeq(node[Callee].values, 1, n)
      /\ node'[Fresh].keys = Drop(node[Callee].keys, n)
      /\ node'[Fresh].values = Drop(node[Callee].values, n)
  BY SplitLeafHalves
<1> HIDE DEF n
<1>4. /\ Len(node'[Callee].keys) = n /\ Len(node'[Fresh].keys) = MaxKeys + 1 - n
      /\ node'[Callee].keys \o node'[Fresh].keys = node[Callee].keys
  <2> DEFINE s == node[Callee].keys
             l == node'[Callee].keys
             r == node'[Fresh].keys
  <2>1. s \in Seq(Keys) /\ n \in 0..Len(s) /\ Len(s) = MaxKeys + 1
    BY <1>1, <1>2
  <2>2. l = SubSeq(s, 1, n) /\ r = Drop(s, n)
    BY <1>3
  <2> HIDE DEF s, l, r
  <2>3. Len(l) = n /\ Len(r) = Len(s) - n /\ l \o r = s
    <3>1. Len(SubSeq(s, 1, n)) = n /\ Len(Drop(s, n)) = Len(s) - n
      BY <2>1, CutInTwo
    <3>2. SubSeq(s, 1, n) \o Drop(s, n) = s
      BY <2>1, CutInTwo
    <3> QED
      BY <2>2, <3>1, <3>2
  <2>4. Len(l) = n /\ Len(r) = MaxKeys + 1 - n /\ l \o r = s
    BY <1>1, <2>1, <2>3
  <2> QED
    BY <2>4 DEF s, l, r
<1>5. /\ Len(node'[Callee].values) = n /\ Len(node'[Fresh].values) = MaxKeys + 1 - n
      /\ node'[Callee].values \o node'[Fresh].values = node[Callee].values
  <2> DEFINE s == node[Callee].values
             l == node'[Callee].values
             r == node'[Fresh].values
  <2>1. s \in Seq(Seq(Records)) /\ n \in 0..Len(s) /\ Len(s) = MaxKeys + 1
    BY <1>1, <1>2
  <2>2. l = SubSeq(s, 1, n) /\ r = Drop(s, n)
    BY <1>3
  <2> HIDE DEF s, l, r
  <2>3. Len(l) = n /\ Len(r) = Len(s) - n /\ l \o r = s
    <3>1. Len(SubSeq(s, 1, n)) = n /\ Len(Drop(s, n)) = Len(s) - n
      BY <2>1, CutInTwo
    <3>2. SubSeq(s, 1, n) \o Drop(s, n) = s
      BY <2>1, CutInTwo
    <3> QED
      BY <2>2, <3>1, <3>2
  <2>4. Len(l) = n /\ Len(r) = MaxKeys + 1 - n /\ l \o r = s
    BY <1>1, <2>1, <2>3
  <2> QED
    BY <2>4 DEF s, l, r
<1>6. LeafFits(n) /\ LeafFits(MaxKeys + 1 - n)
  BY LeafSplitFits DEF n
<1> QED
  BY <1>4, <1>5, <1>6

\* MergeNodes folds two leaves, of which one is a key short and the other has
\* none to spare, into one within its bounds; the keys and posting lists of the
\* right one follow those of the left one, and only the right node is deleted.
THEOREM MergeLeavesKeepsPostings ==
    ASSUME node \in [DOMAIN node -> NodeFields],
           NEW left \in DOMAIN node, NEW right \in DOMAIN node \ {left},
           node[left].leaf, node[right].children = << >>,
           node[left].parent # left, node[right].next # left,
           \A a \in {left, right} : Len(node[a].values) = Len(node[a].keys),
           Len(node[left].keys) + Len(node[right].keys) = (MinLeafKeys - 1) + MinLeafKeys,
           MergeNodes(left, right)
    PROVE  /\ LeafFits(Len(node'[left].keys))
           /\ Len(node'[left].values) = Len(node'[left].keys)
           /\ node'[left].keys = node[left].keys \o node[right].keys
           /\ node'[left].values = node[left].values \o node[right].values
           /\ DOMAIN node' = DOMAIN node \ {right}
<1> DEFINE l == node[left]
           r == node[right]
<1>1. /\ l \in NodeFields /\ r \in NodeFields
      /\ l.keys \in Seq(Keys) /\ r.keys \in Seq(Keys)
      /\ l.values \in Seq(Seq(Records)) /\ r.values \in Seq(Seq(Records))
  BY DEF NodeFields
<1>2. left \notin ToSet(r.children)
  BY DEF ToSet
<1>3. /\ DOMAIN node' = DOMAIN node \ {right}
      /\ node'[left] = [l EXCEPT !.keys = @ \o r.keys, !.values = @ \o r.values,
                                 !.next = r.next]
  BY <1>2 DEF MergeNodes
<1>4. node'[left].keys = l.keys \o r.keys /\ node'[left].values = l.values \o r.values
  BY <1>1, <1>3 DEF NodeFields
<1>5. Len(l.keys \o r.keys) = Len(l.keys) + Len(r.keys)
  BY <1>1, ConcatProperties
<1>6. Len(l.values \o r.values) = Len(l.values) + Len(r.values)
  BY <1>1, ConcatProperties
<1>7. LeafFits(Len(l.keys \o r.keys))
  BY <1>5, MergeFits
<1> QED
  BY <1>3, <1>4, <1>5, <1>6, <1>7

-----------------------------------------------------------------------------
(* Borrowing: the leaves. *)

\* The last element of s goes over to t.
LEMMA CutEarlier ==
  ASSUME NEW T, NEW s \in Seq(T), NEW t \in Seq(T), Len(s) > 0, NEW run, Joins(run, s, t)
  PROVE  /\ CutAt(run, Len(s) - 1, Front(s), <<Last(s)>> \o t) /\ run[Len(s)] = Last(s)
         /\ Front(s) \in Seq(T) /\ <<Last(s)>> \o t \in Seq(T) /\ Last(s) \in T
<1> DEFINE n == Len(s)
           e == Last(s)
           a == Front(s)
           b == <<e>> \o t
<1>1. n \in Nat /\ Len(t) \in Nat /\ n > 0
  OBVIOUS
<1>2. /\ a \in Seq(T) /\ Len(a) = n - 1 /\ \A i \in 1..n - 1 : a[i] = s[i]
      /\ e = s[n] /\ e \in T
  BY EndsElements
<1> HIDE DEF e, a
<1>3. /\ b \in Seq(T) /\ Len(b) = Len(t) + 1
      /\ \A i \in 1..Len(t) + 1 : b[i] = IF i = 1 THEN e ELSE t[i - 1]
  BY <1>2, ConsElements
<1> HIDE DEF b
<1>4. /\ Len(run) = n + Len(t)
      /\ \A i \in 1..n + Len(t) : run[i] = IF i <= n THEN s[i] ELSE t[i - n]
  <2>1. /\ Len(s \o t) = Len(s) + Len(t)
        /\ \A i \in 1..Len(s) + Len(t) : (s \o t)[i] = IF i <= Len(s) THEN s[i] ELSE t[i - Len(s)]
    BY JoinElements
  <2> QED BY <2>1 DEF Joins
<1> HIDE DEF n
<1>5. Len(run) - (n - 1) = Len(t) + 1
  BY <1>1, <1>4
<1>6. \A i \in 1..n - 1 : a[i] = run[i]
  <2> TAKE i \in 1..n - 1
  <2>1. i \in 1..n + Len(t) /\ i <= n
    BY <1>1
  <2> QED BY <1>2, <1>4, <2>1
<1>7. \A i \in 1..Len(t) + 1 : b[i] = run[n - 1 + i]
  <2> TAKE i \in 1..Len(t) + 1
  <2> DEFINE z == n - 1 + i
  <2>1. z \in 1..n + Len(t)
    BY <1>1
  <2>2. CASE i = 1
    <3>1. z = n /\ z <= n
      BY <1>1, <2>2
    <3> HIDE DEF z
    <3> QED BY <1>2, <1>3, <1>4, <2>1, <2>2, <3>1
  <2>3. CASE i # 1
    <3>1. ~(z <= n) /\ z - n = i - 1
      BY <1>1, <2>3
    <3> HIDE DEF z
    <3>2. b[i] = t[i - 1]
      BY <1>3, <2>3
    <3>3. run[z] = t[z - n]
      BY <1>4, <2>1, <3>1
    <3>4. run[z] = b[i]
      BY <3>1, <3>2, <3>3
    <3> QED BY <3>4 DEF z
  <2> QED BY <2>2, <2>3
<1>8. run[n] = e
  <2>1. n \in 1..n + Len(t) /\ n <= n
    BY <1>1
  <2> QED BY <1>2, <1>4, <2>1
<1>9. CutAt(run, n - 1, a, b)
  BY <1>2, <1>3, <1>5, <1>6, <1>7 DEF CutAt
<1> QED BY <1>2, <1>3, <1>8, <1>9 DEF n, e, a, b

\* The first element of t goes over to s.
LEMMA CutLater ==
  ASSUME NEW T, NEW s \in Seq(T), NEW t \in Seq(T), Len(t) > 1, NEW run, Joins(run, s, t)
  PROVE  /\ CutAt(run, Len(s) + 1, Append(s, Head(t)), Tail(t)) /\ run[Len(s) + 2] = t[2]
         /\ Append(s, Head(t)) \in Seq(T) /\ Tail(t) \in Seq(T) /\ Head(t) \in T /\ t[2] \in T
<1> DEFINE n == Len(s)
           m == Len(t)
           e == Head(t)
           a == Append(s, e)
           b == Tail(t)
<1>1. n \in Nat /\ m \in Nat /\ m > 1 /\ t[2] \in T
  OBVIOUS
<1>2. /\ b \in Seq(T) /\ Len(b) = m - 1 /\ \A i \in 1..m - 1 : b[i] = t[i + 1]
      /\ e = t[1] /\ e \in T
  BY <1>1, EndsElements
<1> HIDE DEF e, b
<1>3. /\ a \in Seq(T) /\ Len(a) = n + 1
      /\ \A i \in 1..n + 1 : a[i] = IF i = n + 1 THEN e ELSE s[i]
  BY <1>2, AppendElements
<1> HIDE DEF a
<1>4. /\ Len(run) = n + m
      /\ \A i \in 1..n + m : run[i] = IF i <= n THEN s[i] ELSE t[i - n]
  <2>1. /\ Len(s \o t) = Len(s) + Len(t)
        /\ \A i \in 1..Len(s) + Len(t) : (s \o t)[i] = IF i <= Len(s) THEN s[i] ELSE t[i - Len(s)]
    BY JoinElements
  <2> QED BY <2>1 DEF Joins
<1> HIDE DEF n, m
<1>5. Len(run) - (n + 1) = m - 1
  BY <1>1, <1>4
<1>6. \A i \in 1..n + 1 : a[i] = run[i]
  <2> TAKE i \in 1..n + 1
  <2>1. i \in 1..n + m
    BY <1>1
  <2>2. CASE i = n + 1
    <3>1. ~(i <= n) /\ i - n = 1
      BY <1>1, <2>2
    <3> QED BY <1>2, <1>3, <1>4, <2>1, <2>2, <3>1
  <2>3. CASE i # n + 1
    <3>1. i <= n
      BY <1>1, <2>3
    <3> QED BY <1>3, <1>4, <2>1, <2>3, <3>1
  <2> QED BY <2>2, <2>3
<1>7. \A i \in 1..m - 1 : b[i] = run[n + 1 + i]
  <2> TAKE i \in 1..m - 1
  <2> DEFINE z == n + 1 + i
  <2>1. z \in 1..n + m /\ ~(z <= n) /\ z - n = i + 1
    BY <1>1
  <2> HIDE DEF z
  <2>2. b[i] = run[z]
    BY <1>2, <1>4, <2>1
  <2> QED BY <2>2 DEF z
<1>8. run[n + 2] = t[2]
  <2> DEFINE z == n + 2
  <2>1. z \in 1..n + m /\ ~(z <= n) /\ z - n = 2
    BY <1>1
  <2> HIDE DEF z
  <2>2. run[z] = t[2]
    BY <1>4, <2>1
  <2> QED BY <2>2 DEF z
<1>9. CutAt(run, n + 1, a, b)
  BY <1>2, <1>3, <1>5, <1>6, <1>7 DEF CutAt
<1> QED BY <1>1, <1>2, <1>3, <1>8, <1>9 DEF n, e, a, b

\* The least a node may have is not more than the most.
LEMMA Room ==
  MinLeafKeys <= MaxKeys /\ MinInternalKeys <= MaxKeys
BY OrderAssumption DEF MaxKeys, MinLeafKeys, MinInternalKeys

\* Borrowing from the left leaf keeps the invariant and every posting list.
LEMMA BorrowLeafFromLeft ==
  ASSUME IInv, BorrowFromLeft, node[Callee].leaf
  PROVE  IInv' /\ SamePostings(node, node')
<1>1. Underflow /\ CanSpare(LeftSibling) /\ root' = root /\ size' = size /\ todo' = Rest
  BY DEF BorrowFromLeft
<1>2. Rest \in After
  BY <1>1, WhenUnderflow
<1>3. PICK h, lo, hi, p, i, c : Short(h, lo, hi, p, i, c)
  BY <1>1, WhenUnderflow
<1> DEFINE l == LeftSibling
           kl == node[l].keys
           vl == node[l].values
           kr == node[c].keys
           vr == node[c].values
           K == kl \o kr
           V == vl \o vr
           j == i - 1
           m == Len(kl) - 1
           key == Last(kl)
<1>4. /\ p = Parent /\ c = Callee /\ j = Index
      /\ p \in DOMAIN node /\ ~node[p].leaf /\ c \in DOMAIN node /\ node[c].leaf
      /\ Resting(node, root, h, lo, hi, Null, c) /\ Heap(node)
  BY <1>3 DEF Short
<1>5. /\ j \in 1..Len(node[p].keys) /\ l = node[p].children[j] /\ c = node[p].children[j + 1]
      /\ l # Null /\ Len(kl) > MinLeafKeys /\ Len(kr) = MinLeafKeys - 1
  <2>1. l # Null /\ Len(kl) > MinimumOf(node[c].leaf) /\ i > 1
    BY <1>1, <1>3 DEF Short
  <2>2. i - 1 \in 1..Len(node[p].keys) /\ i - 1 + 1 = i
    BY <1>3, <2>1 DEF Short
  <2>3. MinimumOf(node[c].leaf) = MinLeafKeys
    BY <1>4 DEF MinimumOf
  <2> QED BY <1>3, <2>1, <2>2, <2>3 DEF Short
<1> HIDE DEF l, j
<1>50. Pair(node, p, j, l, c)
  BY <1>4, <1>5 DEF Pair
<1>6. l \in DOMAIN node /\ l # c /\ p # l /\ p # c /\ node[l].leaf
  BY <1>4, <1>5, Neighbours
<1>7. /\ kl \in Seq(Keys) /\ kr \in Seq(Keys) /\ vl \in Seq(Seq(Records)) /\ vr \in Seq(Seq(Records))
      /\ Len(kl) \in Nat /\ Len(kr) \in Nat
  BY <1>4, <1>6, Fields
<1>8. Len(vl) = Len(kl) /\ Len(kl) <= MaxKeys
  <2>1. KindOf(node, h, l) /\ FilledAt(node, root, Null, c, l) /\ Null # l
    BY <1>3, <1>4, <1>6, Parts DEF Kinds, Filled, Short
  <2> QED BY <1>6, <2>1 DEF KindOf, FilledAt
<1>9. Len(kl) > 0 /\ Len(vl) > 0
  BY <1>5, <1>7, <1>8, Bounds0
<1> DEFINE rk == <<key>> \o kr
           rv == <<Last(vl)>> \o vr
           lk == Front(kl)
           lv == Front(vl)
<1>10. LeavesPut(node, node', c, l, p, j, rk, rv, lk, lv, key)
  <2>1. node' = [node EXCEPT ![c].keys = <<key>> \o @, ![c].values = <<Last(vl)>> \o @,
                             ![l].keys = Front(@), ![l].values = Front(@), ![p].keys[j] = key]
    BY <1>4 DEF BorrowFromLeft, l
  <2>2. /\ [node[c] EXCEPT !.keys = rk].values = node[c].values
        /\ [node[l] EXCEPT !.keys = lk].values = node[l].values
    BY <1>4, <1>6, Fields DEF NodeFields
  <2> HIDE DEF rk, rv, lk, lv, key
  <2>3. node' = [node EXCEPT ![c].keys = rk, ![c].values = rv, ![l].keys = lk, ![l].values = lv,
                             ![p].keys[j] = key]
    BY <1>4, <1>6, <2>1, <2>2 DEF rk, rv, lk, lv
  <2> QED BY <2>3 DEF LeavesPut
<1> HIDE DEF kl, vl, kr, vr, K, V, rk, rv, lk, lv, key
<1>11. Joins(K, kl, kr) /\ Joins(V, vl, vr)
  BY DEF Joins, K, V
<1>12. /\ CutAt(K, m, lk, rk) /\ K[Len(kl)] = key /\ lk \in Seq(Keys) /\ rk \in Seq(Keys) /\ key \in Keys
  BY <1>7, <1>9, <1>11, CutEarlier DEF lk, rk, key
<1>13. CutAt(V, m, lv, rv) /\ lv \in Seq(Seq(Records)) /\ rv \in Seq(Seq(Records))
  <2>1. CutAt(V, Len(vl) - 1, lv, rv) /\ lv \in Seq(Seq(Records)) /\ rv \in Seq(Seq(Records))
    BY <1>7, <1>9, <1>11, CutEarlier DEF lv, rv
  <2> QED BY <1>8, <2>1
<1>14. /\ LeafMoved(node, node', p, j, l, c, key)
       /\ node'[c].keys = rk /\ node'[c].values = rv /\ node'[l].keys = lk /\ node'[l].values = lv
  <2>1. Three(node, c, l, p, j)
    BY <1>4, <1>5, <1>6 DEF Three
  <2>2. Lists(lk, lv) /\ Lists(rk, rv)
    BY <1>12, <1>13 DEF Lists
  <2> QED BY <1>10, <1>12, <2>1, <2>2, LeavesAssigned
<1>15. Len(K) = Len(kl) + Len(kr)
  BY <1>7, JoinElements DEF K
<1>16. /\ m \in Nat /\ m >= MinLeafKeys /\ m <= MaxKeys /\ Len(K) - m >= MinLeafKeys
       /\ Len(K) - m <= MaxKeys /\ m + 1 = Len(kl)
  BY <1>5, <1>7, <1>8, <1>15, Bounds0, Room
<1> HIDE DEF m
<1>17. /\ Joins(K, node[l].keys, node[c].keys) /\ Joins(V, node[l].values, node[c].values)
       /\ LeafMoved(node, node', p, j, l, c, K[m + 1])
       /\ CutAt(K, m, node'[l].keys, node'[c].keys) /\ CutAt(V, m, node'[l].values, node'[c].values)
  BY <1>11, <1>12, <1>13, <1>14, <1>16 DEF kl, kr, vl, vr
<1>18. /\ \E lo2, hi2 : Resting(node', root, h, lo2, hi2, Null, Null)
       /\ SamePostings(node, node')
  BY <1>4, <1>50, <1>6, <1>16, <1>17, LeafMovedKeeps
<1>19. size' = Cardinality(KeysOf(node')) /\ IsFiniteSet(KeysOf(node'))
  BY <1>1, <1>18, SizeAgain
<1>20. PICK lo2, hi2 : Resting(node', root', h, lo2, hi2, Null, Null)
  BY <1>1, <1>18
<1>21. IInv'
  BY <1>1, <1>2, <1>19, <1>20, RestAgain
<1> QED BY <1>18, <1>21

\* Borrowing from the right leaf keeps the invariant and every posting list.
LEMMA BorrowLeafFromRight ==
  ASSUME IInv, BorrowFromRight, node[Callee].leaf
  PROVE  IInv' /\ SamePostings(node, node')
<1>1. Underflow /\ CanSpare(RightSibling) /\ root' = root /\ size' = size /\ todo' = Rest
  BY DEF BorrowFromRight
<1>2. Rest \in After
  BY <1>1, WhenUnderflow
<1>3. PICK h, lo, hi, p, i, c : Short(h, lo, hi, p, i, c)
  BY <1>1, WhenUnderflow
<1> DEFINE r == RightSibling
           kl == node[c].keys
           vl == node[c].values
           kr == node[r].keys
           vr == node[r].values
           K == kl \o kr
           V == vl \o vr
           m == Len(kl) + 1
           key == kr[2]
<1>4. /\ p = Parent /\ c = Callee /\ i = Index + 1
      /\ p \in DOMAIN node /\ ~node[p].leaf /\ c \in DOMAIN node /\ node[c].leaf
      /\ Resting(node, root, h, lo, hi, Null, c) /\ Heap(node)
  BY <1>3 DEF Short
<1>5. /\ i \in 1..Len(node[p].keys) /\ c = node[p].children[i] /\ r = node[p].children[i + 1]
      /\ r # Null /\ Len(kr) > MinLeafKeys /\ Len(kl) = MinLeafKeys - 1
  <2>1. r # Null /\ Len(kr) > MinimumOf(node[c].leaf) /\ i < Len(node[p].keys) + 1
    BY <1>1, <1>3 DEF Short
  <2>2. i \in 1..Len(node[p].keys)
    BY <1>3, <2>1 DEF Short
  <2>3. MinimumOf(node[c].leaf) = MinLeafKeys
    BY <1>4 DEF MinimumOf
  <2> QED BY <1>3, <2>1, <2>2, <2>3 DEF Short
<1> HIDE DEF r
<1>50. Pair(node, p, i, c, r)
  BY <1>4, <1>5 DEF Pair
<1>6. r \in DOMAIN node /\ c # r /\ p # c /\ p # r /\ node[r].leaf
  BY <1>4, <1>5, Neighbours
<1>7. /\ kl \in Seq(Keys) /\ kr \in Seq(Keys) /\ vl \in Seq(Seq(Records)) /\ vr \in Seq(Seq(Records))
      /\ Len(kl) \in Nat /\ Len(kr) \in Nat
  BY <1>4, <1>6, Fields
<1>8. Len(vl) = Len(kl) /\ Len(vr) = Len(kr) /\ Len(kr) <= MaxKeys
  <2>1. KindOf(node, h, c) /\ KindOf(node, h, r) /\ FilledAt(node, root, Null, c, r) /\ Null # r
    BY <1>3, <1>4, <1>6, Parts DEF Kinds, Filled, Short
  <2> QED BY <1>4, <1>6, <2>1 DEF KindOf, FilledAt
<1>9. Len(kr) > 1 /\ Len(vr) > 1
  BY <1>5, <1>7, <1>8, Bounds0
<1> DEFINE lk == Append(kl, Head(kr))
           lv == Append(vl, Head(vr))
           rk == Tail(kr)
           rv == Tail(vr)
<1>10. LeavesPut(node, node', c, r, p, i, lk, lv, rk, rv, key)
  <2>1. node' = [node EXCEPT ![c].keys = Append(@, Head(kr)), ![c].values = Append(@, Head(vr)),
                             ![r].keys = Tail(@), ![r].values = Tail(@), ![p].keys[i] = key]
    BY <1>4 DEF BorrowFromRight, r
  <2>2. /\ [node[c] EXCEPT !.keys = lk].values = node[c].values
        /\ [node[r] EXCEPT !.keys = rk].values = node[r].values
    BY <1>4, <1>6, Fields DEF NodeFields
  <2> HIDE DEF rk, rv, lk, lv, key
  <2>3. node' = [node EXCEPT ![c].keys = lk, ![c].values = lv, ![r].keys = rk, ![r].values = rv,
                             ![p].keys[i] = key]
    BY <1>4, <1>6, <2>1, <2>2 DEF rk, rv, lk, lv
  <2> QED BY <2>3 DEF LeavesPut
<1> HIDE DEF kl, vl, kr, vr, K, V, rk, rv, lk, lv, key
<1>11. Joins(K, kl, kr) /\ Joins(V, vl, vr)
  BY DEF Joins, K, V
<1>12. /\ CutAt(K, m, lk, rk) /\ K[Len(kl) + 2] = key /\ lk \in Seq(Keys) /\ rk \in Seq(Keys) /\ key \in Keys
  BY <1>7, <1>9, <1>11, CutLater DEF lk, rk, key
<1>13. CutAt(V, m, lv, rv) /\ lv \in Seq(Seq(Records)) /\ rv \in Seq(Seq(Records))
  <2>1. CutAt(V, Len(vl) + 1, lv, rv) /\ lv \in Seq(Seq(Records)) /\ rv \in Seq(Seq(Records))
    BY <1>7, <1>9, <1>11, CutLater DEF lv, rv
  <2> QED BY <1>8, <2>1
<1>14. /\ LeafMoved(node, node', p, i, c, r, key)
       /\ node'[c].keys = lk /\ node'[c].values = lv /\ node'[r].keys = rk /\ node'[r].values = rv
  <2>1. Three(node, c, r, p, i)
    BY <1>4, <1>5, <1>6 DEF Three
  <2>2. Lists(lk, lv) /\ Lists(rk, rv)
    BY <1>12, <1>13 DEF Lists
  <2> QED BY <1>10, <1>12, <2>1, <2>2, LeavesAssigned
<1>15. Len(K) = Len(kl) + Len(kr)
  BY <1>7, JoinElements DEF K
<1>16. /\ m \in Nat /\ m >= MinLeafKeys /\ m <= MaxKeys /\ Len(K) - m >= MinLeafKeys
       /\ Len(K) - m <= MaxKeys /\ m + 1 = Len(kl) + 2
  BY <1>5, <1>7, <1>8, <1>15, Bounds0, Room
<1> HIDE DEF m
<1>17. /\ Joins(K, node[c].keys, node[r].keys) /\ Joins(V, node[c].values, node[r].values)
       /\ LeafMoved(node, node', p, i, c, r, K[m + 1])
       /\ CutAt(K, m, node'[c].keys, node'[r].keys) /\ CutAt(V, m, node'[c].values, node'[r].values)
  BY <1>11, <1>12, <1>13, <1>14, <1>16 DEF kl, kr, vl, vr
<1>18. /\ \E lo2, hi2 : Resting(node', root, h, lo2, hi2, Null, Null)
       /\ SamePostings(node, node')
  BY <1>4, <1>50, <1>6, <1>16, <1>17, LeafMovedKeeps
<1>19. size' = Cardinality(KeysOf(node')) /\ IsFiniteSet(KeysOf(node'))
  BY <1>1, <1>18, SizeAgain
<1>20. PICK lo2, hi2 : Resting(node', root', h, lo2, hi2, Null, Null)
  BY <1>1, <1>18
<1>21. IInv'
  BY <1>1, <1>2, <1>19, <1>20, RestAgain
<1> QED BY <1>18, <1>21

-----------------------------------------------------------------------------
(* Borrowing: the internal nodes. *)

\* run is s, then e, then t.
Encloses(run, s, e, t) == run = s \o <<e>> \o t

\* The elements of the three, one after the other.
LEMMA EnclosesElements ==
  ASSUME NEW T, NEW s \in Seq(T), NEW t \in Seq(T), NEW e \in T, NEW run, Encloses(run, s, e, t)
  PROVE  /\ run \in Seq(T) /\ Len(run) = Len(s) + 1 + Len(t)
         /\ \A i \in 1..Len(s) + 1 + Len(t) :
               run[i] = IF i <= Len(s) THEN s[i] ELSE IF i = Len(s) + 1 THEN e ELSE t[i - Len(s) - 1]
<1> DEFINE u == s \o <<e>>
           n == Len(s)
           m == Len(t)
<1>1. n \in Nat /\ m \in Nat /\ <<e>> \in Seq(T) /\ Len(<<e>>) = 1 /\ <<e>>[1] = e
  OBVIOUS
<1>2. /\ u \in Seq(T) /\ Len(u) = n + 1
      /\ \A i \in 1..n + 1 : u[i] = IF i <= n THEN s[i] ELSE <<e>>[i - n]
  BY <1>1, JoinElements
<1>3. \A i \in 1..n + 1 : u[i] = IF i <= n THEN s[i] ELSE e
  <2> TAKE i \in 1..n + 1
  <2>1. CASE i <= n
    BY <1>2, <2>1
  <2>2. CASE ~(i <= n)
    <3>1. i - n = 1
      BY <1>1, <2>2
    <3> QED BY <1>1, <1>2, <2>2, <3>1
  <2> QED BY <2>1, <2>2
<1>4. run = u \o t
  BY DEF Encloses
<1> HIDE DEF u
<1>5. /\ run \in Seq(T) /\ Len(run) = n + 1 + m
      /\ \A i \in 1..n + 1 + m : run[i] = IF i <= n + 1 THEN u[i] ELSE t[i - (n + 1)]
  <2>1. /\ u \o t \in Seq(T) /\ Len(u \o t) = Len(u) + Len(t)
        /\ \A i \in 1..Len(u) + Len(t) : (u \o t)[i] = IF i <= Len(u) THEN u[i] ELSE t[i - Len(u)]
    BY <1>2, JoinElements
  <2> HIDE DEF n, m
  <2>2. Len(u) = n + 1 /\ Len(t) = m
    BY <1>2 DEF m
  <2> QED BY <1>4, <2>1, <2>2
<1> HIDE DEF n, m
<1>6. ASSUME NEW i \in 1..n + 1 + m
      PROVE  run[i] = IF i <= n THEN s[i] ELSE IF i = n + 1 THEN e ELSE t[i - n - 1]
  <2>1. CASE i <= n + 1
    <3>1. i \in 1..n + 1 /\ (i <= n \/ i = n + 1)
      BY <1>1, <2>1
    <3> QED BY <1>1, <1>3, <1>5, <2>1, <3>1
  <2>2. CASE ~(i <= n + 1)
    <3>1. ~(i <= n) /\ i # n + 1 /\ i - (n + 1) = i - n - 1
      BY <1>1, <2>2
    <3>2. run[i] = t[i - (n + 1)]
      BY <1>5, <2>2
    <3> QED BY <3>1, <3>2
  <2> QED BY <2>1, <2>2
<1> QED BY <1>5, <1>6 DEF n, m

\* The keys and the children of internal nodes that stand side by side at height top, between
\* low and high.
NodeRun(S, h, lo, hi, top, K, C, low, high) ==
    /\ K \in Seq(Keys) /\ Len(K) \in Nat /\ Len(C) = Len(K) + 1
    /\ \A i \in 1..Len(K) : K[i] \in Int /\ low < K[i] /\ K[i] < high
    /\ \A i, j \in 1..Len(K) : i < j => K[i] < K[j]
    /\ \A i \in 1..Len(K) + 1 : /\ C[i] \in S /\ h[C[i]] \in Nat /\ h[C[i]] + 1 = top
                                /\ lo[C[i]] = IF i = 1 THEN low ELSE K[i - 1]
                                /\ hi[C[i]] = IF i = Len(K) + 1 THEN high ELSE K[i]

\* C lists the children of l and then those of r, n of them l's.
Brood(heap, C, l, r, n) ==
    /\ \A j \in 1..Len(C) : heap[C[j]].parent = IF j <= n THEN l ELSE r
    /\ \A b \in DOMAIN heap : heap[b].parent \in {l, r} => \E j \in 1..Len(C) : C[j] = b
    /\ \A i, j \in 1..Len(C) : C[i] = C[j] => i = j

\* Two internal nodes side by side, joined.
LEMMA NodesJoin ==
  ASSUME NEW heap, NEW top, NEW h, NEW lo, NEW hi, NEW over, NEW short,
         Resting(heap, top, h, lo, hi, over, short),
         NEW p, NEW i, NEW l, NEW r, Pair(heap, p, i, l, r), ~heap[l].leaf,
         NEW K, NEW C, Encloses(K, heap[l].keys, heap[p].keys[i], heap[r].keys),
         Joins(C, heap[l].children, heap[r].children)
  PROVE  /\ NodeRun(DOMAIN heap, h, lo, hi, h[l], K, C, lo[l], hi[r])
         /\ Len(K) = Len(heap[l].keys) + 1 + Len(heap[r].keys)
         /\ Brood(heap, C, l, r, Len(heap[l].keys) + 1)
<1> DEFINE kl == heap[l].keys
           kr == heap[r].keys
           cl == heap[l].children
           cr == heap[r].children
           n == Len(kl)
           m == Len(kr)
           sep == heap[p].keys[i]
<1>1. Heap(heap) /\ Kinds(heap, h) /\ Ordered(heap, lo, hi) /\ Down(heap, h, lo, hi, Null, Null) /\ Up(heap, top, Null)
  BY Parts
<1>2. /\ l \in DOMAIN heap /\ r \in DOMAIN heap /\ l # r /\ ~heap[r].leaf /\ hi[l] = sep /\ lo[r] = sep
      /\ h[l] = h[r] /\ p \in DOMAIN heap /\ i \in 1..Len(heap[p].keys)
  BY Neighbours DEF Pair
<1>3. /\ lo[l] \in Int /\ hi[l] \in Int /\ lo[r] \in Int /\ hi[r] \in Int
      /\ lo[l] < hi[l] /\ lo[r] < hi[r] /\ l # Null /\ r # Null
  BY <1>2, Parts
<1>4. /\ kl \in Seq(Keys) /\ kr \in Seq(Keys) /\ cl \in Seq(Nat) /\ cr \in Seq(Nat) /\ sep \in Keys /\ sep \in Int
      /\ \A j \in 1..n : kl[j] \in Int
      /\ \A j \in 1..m : kr[j] \in Int
  BY <1>1, <1>2, Fields
<1>40. n \in Nat /\ m \in Nat
  BY <1>4
<1>5. /\ Len(cl) = n + 1
      /\ \A j \in 1..n + 1 : /\ cl[j] \in DOMAIN heap /\ heap[cl[j]].parent = l
                             /\ Hangs(heap, h, lo, hi, Null, Null, l, j)
      /\ \A j, k \in 1..n + 1 : cl[j] = cl[k] => j = k
  BY <1>1, <1>2, ChildrenApart
<1>6. /\ Len(cr) = m + 1
      /\ \A j \in 1..m + 1 : /\ cr[j] \in DOMAIN heap /\ heap[cr[j]].parent = r
                             /\ Hangs(heap, h, lo, hi, Null, Null, r, j)
      /\ \A j, k \in 1..m + 1 : cr[j] = cr[k] => j = k
  BY <1>1, <1>2, ChildrenApart
<1>7. /\ \A j \in 1..n + 1 : /\ h[cl[j]] \in Nat /\ h[cl[j]] + 1 = h[l]
                             /\ lo[cl[j]] = IF j = 1 THEN lo[l] ELSE kl[j - 1]
                             /\ hi[cl[j]] = IF j = n + 1 THEN hi[l] ELSE kl[j]
      /\ \A j \in 1..m + 1 : /\ h[cr[j]] \in Nat /\ h[cr[j]] + 1 = h[r]
                             /\ lo[cr[j]] = IF j = 1 THEN lo[r] ELSE kr[j - 1]
                             /\ hi[cr[j]] = IF j = m + 1 THEN hi[r] ELSE kr[j]
  <2>1. \A b \in DOMAIN heap : h[b] \in Nat /\ End(hi, Null, Null, b) = hi[b]
    BY Parts
  <2>2. ASSUME NEW j \in 1..n + 1
        PROVE  /\ h[cl[j]] \in Nat /\ h[cl[j]] + 1 = h[l]
               /\ lo[cl[j]] = IF j = 1 THEN lo[l] ELSE kl[j - 1]
               /\ hi[cl[j]] = IF j = n + 1 THEN hi[l] ELSE kl[j]
    <3>1. Hangs(heap, h, lo, hi, Null, Null, l, j) /\ cl[j] \in DOMAIN heap
      BY <1>5
    <3> QED BY <2>1, <3>1 DEF Hangs, ChildLow, ChildHigh
  <2>3. ASSUME NEW j \in 1..m + 1
        PROVE  /\ h[cr[j]] \in Nat /\ h[cr[j]] + 1 = h[r]
               /\ lo[cr[j]] = IF j = 1 THEN lo[r] ELSE kr[j - 1]
               /\ hi[cr[j]] = IF j = m + 1 THEN hi[r] ELSE kr[j]
    <3>1. Hangs(heap, h, lo, hi, Null, Null, r, j) /\ cr[j] \in DOMAIN heap
      BY <1>6
    <3> QED BY <2>1, <3>1 DEF Hangs, ChildLow, ChildHigh
  <2> QED BY <2>2, <2>3
<1>8. /\ \A j \in 1..n : lo[l] < kl[j] /\ kl[j] < hi[l]
      /\ \A j, k \in 1..n : j < k => kl[j] < kl[k]
      /\ \A j \in 1..m : lo[r] < kr[j] /\ kr[j] < hi[r]
      /\ \A j, k \in 1..m : j < k => kr[j] < kr[k]
  <2>1. InOrder(heap, lo, hi, l) /\ InOrder(heap, lo, hi, r)
    BY <1>1, <1>2 DEF Ordered
  <2> QED BY <1>2, <2>1 DEF InOrder
<1>9. Encloses(K, kl, sep, kr) /\ Joins(C, cl, cr)
  OBVIOUS
<1>90. \A b \in DOMAIN heap : heap[b].parent \in {l, r} =>
          \/ \E j \in 1..n + 1 : cl[j] = b
          \/ \E j \in 1..m + 1 : cr[j] = b
  <2> TAKE b \in DOMAIN heap
  <2> HAVE heap[b].parent \in {l, r}
  <2>1. IsChild(heap, heap[b].parent, b)
    BY <1>1, <1>3 DEF Up
  <2> QED BY <1>5, <1>6, <2>1 DEF IsChild
<1> HIDE DEF kl, kr, cl, cr, sep
<1>10. /\ K \in Seq(Keys) /\ Len(K) = n + 1 + m
       /\ \A j \in 1..n + 1 + m :
             K[j] = IF j <= n THEN kl[j] ELSE IF j = n + 1 THEN sep ELSE kr[j - n - 1]
  BY <1>4, <1>9, EnclosesElements
<1>11. /\ Len(C) = n + 1 + (m + 1)
       /\ \A j \in 1..n + 1 + (m + 1) : C[j] = IF j <= n + 1 THEN cl[j] ELSE cr[j - (n + 1)]
  <2>1. C = cl \o cr
    BY <1>9 DEF Joins
  <2>2. /\ Len(cl \o cr) = Len(cl) + Len(cr)
        /\ \A j \in 1..Len(cl) + Len(cr) : (cl \o cr)[j] = IF j <= Len(cl) THEN cl[j] ELSE cr[j - Len(cl)]
    BY <1>4, JoinElements
  <2> QED BY <1>5, <1>6, <2>1, <2>2
<1>110. Len(C) = n + m + 2 /\ Len(K) + 1 = Len(C) /\ Len(K) \in Nat
  BY <1>10, <1>11, <1>40
<1> HIDE DEF n, m
<1>12. \A j \in 1..n + 1 + m :
          \/ j \in 1..n /\ K[j] = kl[j]
          \/ j = n + 1 /\ K[j] = sep
          \/ j > n + 1 /\ j - n - 1 \in 1..m /\ K[j] = kr[j - n - 1]
  <2> TAKE j \in 1..n + 1 + m
  <2>1. CASE j <= n
    BY <1>10, <1>40, <2>1
  <2>2. CASE j = n + 1
    BY <1>10, <1>40, <2>2
  <2>3. CASE j > n + 1
    <3>1. ~(j <= n) /\ j # n + 1 /\ j - n - 1 \in 1..m
      BY <1>40, <2>3
    <3> QED BY <1>10, <2>3, <3>1
  <2>4. j <= n \/ j = n + 1 \/ j > n + 1
    BY <1>40
  <2> QED BY <2>1, <2>2, <2>3, <2>4
<1>13. \A j \in 1..n + 1 + m : K[j] \in Int /\ lo[l] < K[j] /\ K[j] < hi[r]
  <2> TAKE j \in 1..n + 1 + m
  <2>1. CASE j \in 1..n /\ K[j] = kl[j]
    <3>1. kl[j] \in Int /\ lo[l] < kl[j] /\ kl[j] < hi[l]
      BY <1>4, <1>8, <2>1
    <3> QED BY <1>2, <1>3, <2>1, <3>1
  <2>2. CASE j = n + 1 /\ K[j] = sep
    BY <1>2, <1>3, <2>2
  <2>3. CASE j > n + 1 /\ j - n - 1 \in 1..m /\ K[j] = kr[j - n - 1]
    <3>1. kr[j - n - 1] \in Int /\ lo[r] < kr[j - n - 1] /\ kr[j - n - 1] < hi[r]
      BY <1>4, <1>8, <2>3
    <3> QED BY <1>2, <1>3, <2>3, <3>1
  <2> QED BY <1>12, <2>1, <2>2, <2>3
<1>14. \A j, k \in 1..n + 1 + m : j < k => K[j] < K[k]
  <2> TAKE j, k \in 1..n + 1 + m
  <2> HAVE j < k
  <2>1. CASE j \in 1..n /\ K[j] = kl[j]
    <3>1. kl[j] < sep /\ kl[j] \in Int
      BY <1>2, <1>4, <1>8, <2>1
    <3>2. CASE k \in 1..n /\ K[k] = kl[k]
      BY <1>8, <2>1, <3>2
    <3>3. CASE k = n + 1 /\ K[k] = sep
      BY <2>1, <3>1, <3>3
    <3>4. CASE k > n + 1 /\ k - n - 1 \in 1..m /\ K[k] = kr[k - n - 1]
      <4>1. sep < kr[k - n - 1] /\ kr[k - n - 1] \in Int
        BY <1>2, <1>4, <1>8, <3>4
      <4> QED BY <1>4, <2>1, <3>1, <3>4, <4>1
    <3> QED BY <1>12, <3>2, <3>3, <3>4
  <2>2. CASE j = n + 1 /\ K[j] = sep
    <3>1. k > n + 1
      BY <1>40, <2>2
    <3>2. k - n - 1 \in 1..m /\ K[k] = kr[k - n - 1]
      BY <1>12, <1>40, <3>1
    <3> QED BY <1>2, <1>8, <2>2, <3>2
  <2>3. CASE j > n + 1 /\ j - n - 1 \in 1..m /\ K[j] = kr[j - n - 1]
    <3>1. k > n + 1 /\ j - n - 1 < k - n - 1
      BY <1>40, <2>3
    <3>2. k - n - 1 \in 1..m /\ K[k] = kr[k - n - 1]
      BY <1>12, <1>40, <3>1
    <3> QED BY <1>8, <2>3, <3>1, <3>2
  <2> QED BY <1>12, <2>1, <2>2, <2>3
<1>15. \A j \in 1..n + m + 2 :
          \/ j \in 1..n + 1 /\ C[j] = cl[j]
          \/ j > n + 1 /\ j - (n + 1) \in 1..m + 1 /\ C[j] = cr[j - (n + 1)]
  <2> TAKE j \in 1..n + m + 2
  <2>0. j \in 1..n + 1 + (m + 1)
    BY <1>40
  <2>1. CASE j <= n + 1
    BY <1>11, <1>40, <2>0, <2>1
  <2>2. CASE ~(j <= n + 1)
    <3>1. j > n + 1 /\ j - (n + 1) \in 1..m + 1
      BY <1>40, <2>2
    <3> QED BY <1>11, <2>0, <2>2, <3>1
  <2> QED BY <2>1, <2>2
<1>16. \A j \in 1..Len(K) + 1 : /\ C[j] \in DOMAIN heap /\ h[C[j]] \in Nat /\ h[C[j]] + 1 = h[l]
                                /\ lo[C[j]] = IF j = 1 THEN lo[l] ELSE K[j - 1]
                                /\ hi[C[j]] = IF j = Len(K) + 1 THEN hi[r] ELSE K[j]
  <2> TAKE j \in 1..Len(K) + 1
  <2>0. j \in 1..n + m + 2 /\ Len(K) = n + m + 1
    BY <1>10, <1>40
  <2>1. CASE j \in 1..n + 1 /\ C[j] = cl[j]
    <3>1. cl[j] \in DOMAIN heap /\ h[cl[j]] \in Nat /\ h[cl[j]] + 1 = h[l]
      BY <1>5, <1>7, <2>1
    <3>2. lo[cl[j]] = IF j = 1 THEN lo[l] ELSE K[j - 1]
      <4>1. CASE j = 1
        BY <1>7, <2>1, <4>1
      <4>2. CASE j # 1
        <5>1. j - 1 \in 1..n + 1 + m /\ j - 1 <= n
          BY <1>40, <2>1, <4>2
        <5>2. K[j - 1] = kl[j - 1]
          BY <1>10, <5>1
        <5> QED BY <1>7, <2>1, <4>2, <5>2
      <4> QED BY <4>1, <4>2
    <3>3. j # Len(K) + 1 /\ j \in 1..n + 1 + m
      BY <1>40, <2>0, <2>1
    <3>4. hi[cl[j]] = K[j]
      <4>1. CASE j = n + 1
        BY <1>2, <1>7, <1>12, <1>40, <2>1, <3>3, <4>1
      <4>2. CASE j # n + 1
        <5>1. j <= n
          BY <1>40, <2>1, <4>2
        <5> QED BY <1>7, <1>10, <2>1, <3>3, <4>2, <5>1
      <4> QED BY <4>1, <4>2
    <3> QED BY <2>1, <3>1, <3>2, <3>3, <3>4
  <2>2. CASE j > n + 1 /\ j - (n + 1) \in 1..m + 1 /\ C[j] = cr[j - (n + 1)]
    <3> DEFINE z == j - (n + 1)
    <3>1. z \in 1..m + 1 /\ C[j] = cr[z]
      BY <2>2
    <3>10. j # 1 /\ j - 1 \in 1..n + 1 + m /\ (z = 1 <=> j - 1 = n + 1) /\ (z = m + 1 <=> j = Len(K) + 1)
           /\ j - 1 - n - 1 = z - 1 /\ j - n - 1 = z
      BY <1>40, <2>0, <2>2
    <3> HIDE DEF z
    <3>2. cr[z] \in DOMAIN heap /\ h[cr[z]] \in Nat /\ h[cr[z]] + 1 = h[l]
      BY <1>2, <1>6, <1>7, <3>1
    <3>3. lo[cr[z]] = K[j - 1]
      <4>1. CASE z = 1
        <5>1. K[j - 1] = sep
          BY <1>10, <1>40, <3>10, <4>1
        <5> QED BY <1>2, <1>7, <3>1, <4>1, <5>1
      <4>2. CASE z # 1
        <5>1. j - 1 > n + 1
          BY <1>40, <2>2, <3>10, <4>2
        <5>2. K[j - 1] = kr[z - 1]
          BY <1>12, <1>40, <3>10, <5>1
        <5> QED BY <1>7, <3>1, <4>2, <5>2
      <4> QED BY <4>1, <4>2
    <3>4. hi[cr[z]] = IF j = Len(K) + 1 THEN hi[r] ELSE K[j]
      <4>1. CASE z = m + 1
        BY <1>7, <3>1, <3>10, <4>1
      <4>2. CASE z # m + 1
        <5>1. j \in 1..n + 1 + m /\ j > n + 1 /\ j # Len(K) + 1
          BY <1>40, <2>0, <2>2, <3>10, <4>2
        <5>2. K[j] = kr[z]
          BY <1>12, <1>40, <3>10, <5>1
        <5> QED BY <1>7, <3>1, <4>2, <5>1, <5>2
      <4> QED BY <4>1, <4>2
    <3> QED BY <3>1, <3>10, <3>2, <3>3, <3>4
  <2> QED BY <1>15, <2>0, <2>1, <2>2
<1>17. NodeRun(DOMAIN heap, h, lo, hi, h[l], K, C, lo[l], hi[r])
  <2>1. \A j \in 1..Len(K) : K[j] \in Int /\ lo[l] < K[j] /\ K[j] < hi[r]
    BY <1>10, <1>13
  <2>2. \A j, k \in 1..Len(K) : j < k => K[j] < K[k]
    BY <1>10, <1>14
  <2> QED BY <1>10, <1>16, <1>110, <2>1, <2>2 DEF NodeRun
<1>18. Brood(heap, C, l, r, n + 1)
  <2>1. ASSUME NEW j \in 1..Len(C) PROVE heap[C[j]].parent = IF j <= n + 1 THEN l ELSE r
    <3>1. CASE j \in 1..n + 1 /\ C[j] = cl[j]
      BY <1>5, <1>40, <3>1
    <3>2. CASE j > n + 1 /\ j - (n + 1) \in 1..m + 1 /\ C[j] = cr[j - (n + 1)]
      <4>1. heap[cr[j - (n + 1)]].parent = r
        BY <1>6, <3>2
      <4>2. ~(j <= n + 1)
        BY <1>40, <3>2
      <4> QED BY <3>2, <4>1, <4>2
    <3> QED BY <1>15, <1>110, <3>1, <3>2
  <2>2. ASSUME NEW b \in DOMAIN heap, heap[b].parent \in {l, r} PROVE \E j \in 1..Len(C) : C[j] = b
    <3>1. ASSUME NEW j \in 1..n + 1, cl[j] = b PROVE \E k \in 1..Len(C) : C[k] = b
      <4>1. j \in 1..n + 1 + (m + 1) /\ j \in 1..Len(C) /\ j <= n + 1
        BY <1>40, <1>110
      <4> QED BY <1>11, <3>1, <4>1
    <3>2. ASSUME NEW j \in 1..m + 1, cr[j] = b PROVE \E k \in 1..Len(C) : C[k] = b
      <4> DEFINE z == n + 1 + j
      <4>1. z \in 1..n + 1 + (m + 1) /\ z \in 1..Len(C) /\ ~(z <= n + 1) /\ z - (n + 1) = j
        BY <1>40, <1>110
      <4> HIDE DEF z
      <4>2. C[z] = cr[z - (n + 1)]
        BY <1>11, <4>1
      <4> QED BY <3>2, <4>1, <4>2
    <3> QED BY <1>90, <2>2, <3>1, <3>2
  <2>3. ASSUME NEW j \in 1..Len(C), NEW k \in 1..Len(C), C[j] = C[k] PROVE j = k
    <3>1. CASE j \in 1..n + 1 /\ C[j] = cl[j]
      <4>1. CASE k \in 1..n + 1 /\ C[k] = cl[k]
        BY <1>5, <2>3, <3>1, <4>1
      <4>2. CASE k > n + 1
        <5>1. heap[C[j]].parent = l /\ heap[C[k]].parent = r
          BY <1>40, <2>1, <3>1, <4>2
        <5> QED BY <1>2, <2>3, <5>1
      <4> QED BY <1>15, <1>110, <4>1, <4>2
    <3>2. CASE j > n + 1 /\ j - (n + 1) \in 1..m + 1 /\ C[j] = cr[j - (n + 1)]
      <4>1. CASE k \in 1..n + 1 /\ C[k] = cl[k]
        <5>1. heap[C[j]].parent = r /\ heap[C[k]].parent = l
          BY <1>40, <2>1, <3>2, <4>1
        <5> QED BY <1>2, <2>3, <5>1
      <4>2. CASE k > n + 1 /\ k - (n + 1) \in 1..m + 1 /\ C[k] = cr[k - (n + 1)]
        <5>1. j - (n + 1) = k - (n + 1)
          BY <1>6, <2>3, <3>2, <4>2
        <5> QED BY <1>40, <5>1
      <4> QED BY <1>15, <1>110, <4>1, <4>2
    <3> QED BY <1>15, <1>110, <3>1, <3>2
  <2> QED BY <2>1, <2>2, <2>3 DEF Brood
<1> QED BY <1>10, <1>17, <1>18 DEF n, m, kl, kr

\* An internal node that has been given the n keys of a run after the first d, and the children
\* around them.
SectionOf(heap, a, K, C, d, n) ==
    /\ ~heap[a].leaf /\ heap[a].values = << >> /\ heap[a].next = Null /\ heap[a].previous = Null
    /\ Len(heap[a].keys) = n /\ Len(heap[a].children) = n + 1
    /\ \A i \in 1..n : heap[a].keys[i] = K[d + i]
    /\ \A i \in 1..n + 1 : heap[a].children[i] = C[d + i] /\ heap[C[d + i]].parent = a

\* Its interval, from x to y.
Between(K, d, n, low, high, x, y) ==
    /\ x \in Int /\ y \in Int /\ x < y
    /\ x = IF d = 0 THEN low ELSE K[d]
    /\ y = IF d + n = Len(K) THEN high ELSE K[d + n + 1]

\* A node that has n keys of a run, from d on, and the children between them, is in order.
LEMMA NodeOfRun ==
  ASSUME NEW heap, NEW h, NEW lo, NEW hi, NEW H, NEW K, NEW C, NEW low, NEW high,
         NodeRun(DOMAIN heap, h, lo, hi, H, K, C, low, high),
         NEW d \in Nat, NEW n \in Nat, d + n <= Len(K), n >= MinInternalKeys, n <= MaxKeys,
         NEW top, NEW a, a # top, a # Null, SectionOf(heap, a, K, C, d, n),
         h[a] = H, Between(K, d, n, low, high, lo[a], hi[a])
  PROVE  Settled(heap, top, h, lo, hi, a)
<1>0. Len(K) \in Nat
  BY DEF NodeRun
<1>1. \A i \in 1..n : d + i \in 1..Len(K)
  BY <1>0
<1>2. \A i \in 1..Len(K) : K[i] \in Int /\ low < K[i] /\ K[i] < high
  BY DEF NodeRun
<1>3. \A i, j \in 1..Len(K) : i < j => K[i] < K[j]
  BY DEF NodeRun
<1>30. \A i \in 1..Len(K) + 1 : /\ C[i] \in DOMAIN heap /\ h[C[i]] \in Nat /\ h[C[i]] + 1 = H
                                /\ lo[C[i]] = IF i = 1 THEN low ELSE K[i - 1]
                                /\ hi[C[i]] = IF i = Len(K) + 1 THEN high ELSE K[i]
  BY DEF NodeRun
<1>4. KindOf(heap, h, a)
  <2>1. h[a] # 0
    <3>1. 1 \in 1..Len(K) + 1
      BY <1>0
    <3> QED BY <1>30, <3>1
  <2> QED BY <2>1 DEF KindOf, SectionOf
<1>5. \A i, j \in 1..n : i < j => K[d + i] < K[d + j]
  <2> TAKE i, j \in 1..n
  <2> HAVE i < j
  <2>1. d + i \in 1..Len(K) /\ d + j \in 1..Len(K) /\ d + i < d + j
    BY <1>1
  <2> QED BY <1>3, <2>1
<1>6. \A i \in 1..n : lo[a] < K[d + i]
  <2> TAKE i \in 1..n
  <2>1. CASE d = 0
    BY <1>1, <1>2, <2>1 DEF Between
  <2>2. CASE d # 0
    <3>1. d \in 1..Len(K) /\ d + i \in 1..Len(K) /\ d < d + i
      BY <1>0, <2>2
    <3> QED BY <1>3, <2>2, <3>1 DEF Between
  <2> QED BY <2>1, <2>2
<1>7. \A i \in 1..n : K[d + i] < hi[a]
  <2> TAKE i \in 1..n
  <2>1. CASE d + n = Len(K)
    BY <1>1, <1>2, <2>1 DEF Between
  <2>2. CASE d + n # Len(K)
    <3> DEFINE z == d + n + 1
    <3>1. z \in 1..Len(K) /\ d + i \in 1..Len(K) /\ d + i < z
      BY <1>0, <2>2
    <3>2. hi[a] = K[z]
      BY <2>2 DEF Between
    <3> HIDE DEF z
    <3> QED BY <1>3, <3>1, <3>2
  <2> QED BY <2>1, <2>2
<1>8. InOrder(heap, lo, hi, a)
  <2>1. \A i \in 1..n : heap[a].keys[i] = K[d + i]
    BY DEF SectionOf
  <2>2. Len(heap[a].keys) = n /\ lo[a] < hi[a] /\ lo[a] \in Int
    BY DEF SectionOf, Between
  <2>3. \A i \in 1..n : lo[a] <= K[d + i]
    <3> TAKE i \in 1..n
    <3>1. K[d + i] \in Int /\ lo[a] < K[d + i]
      BY <1>1, <1>2, <1>6
    <3> QED BY <2>2, <3>1
  <2> QED BY <1>5, <1>6, <1>7, <2>1, <2>2, <2>3 DEF InOrder
<1>9. FilledAt(heap, top, Null, Null, a)
  <2>1. ~heap[a].leaf /\ Len(heap[a].keys) = n
    BY DEF SectionOf
  <2>2. MinimumOf(heap[a].leaf) = MinInternalKeys
    BY <2>1 DEF MinimumOf
  <2> QED BY <2>1, <2>2, Bounds0 DEF FilledAt
<1>10. ASSUME NEW j \in 1..Len(heap[a].children) PROVE Hangs(heap, h, lo, hi, Null, Null, a, j)
  <2> DEFINE z == d + j
  <2>1. j \in 1..n + 1 /\ Len(heap[a].keys) = n
    BY DEF SectionOf
  <2>2. heap[a].children[j] = C[z] /\ heap[C[z]].parent = a
    BY <2>1 DEF SectionOf
  <2>3. z \in 1..Len(K) + 1 /\ (z = 1 <=> d = 0 /\ j = 1)
        /\ (z = Len(K) + 1 <=> d + n = Len(K) /\ j = n + 1)
    <3>1. d \in Nat /\ n \in Nat /\ Len(K) \in Nat /\ d + n <= Len(K) /\ j \in 1..n + 1
      BY <1>0, <2>1
    <3>2. z \in 1..Len(K) + 1
      BY <3>1
    <3>3. z = 1 <=> d = 0 /\ j = 1
      BY <3>1
    <3>4. z = Len(K) + 1 <=> d + n = Len(K) /\ j = n + 1
      BY <3>1
    <3> QED BY <3>2, <3>3, <3>4
  <2>4. lo[C[z]] = ChildLow(heap, lo, a, j)
    <3>1. CASE j = 1
      <4>1. CASE d = 0
        BY <1>30, <2>3, <3>1, <4>1 DEF ChildLow, Between
      <4>2. CASE d # 0
        <5>1. z # 1 /\ z - 1 = d
          BY <2>3, <3>1, <4>2
        <5>2. lo[C[z]] = K[d]
          BY <1>30, <2>3, <5>1
        <5> QED BY <3>1, <4>2, <5>2 DEF ChildLow, Between
      <4> QED BY <4>1, <4>2
    <3>2. CASE j # 1
      <4>1. z # 1 /\ j - 1 \in 1..n /\ z - 1 = d + (j - 1)
        BY <2>1, <2>3, <3>2
      <4>2. lo[C[z]] = K[d + (j - 1)]
        BY <1>30, <2>3, <4>1
      <4>3. heap[a].keys[j - 1] = K[d + (j - 1)]
        BY <4>1 DEF SectionOf
      <4> QED BY <3>2, <4>2, <4>3 DEF ChildLow
    <3> QED BY <3>1, <3>2
  <2>5. hi[C[z]] = ChildHigh(heap, hi, a, j)
    <3>1. CASE j = n + 1
      <4>1. CASE d + n = Len(K)
        BY <1>30, <2>1, <2>3, <3>1, <4>1 DEF ChildHigh, Between
      <4>2. CASE d + n # Len(K)
        <5>1. z # Len(K) + 1 /\ z = d + n + 1
          BY <2>3, <3>1, <4>2
        <5>2. hi[C[z]] = K[z]
          BY <1>30, <2>3, <5>1
        <5>3. hi[a] = K[d + n + 1]
          BY <4>2 DEF Between
        <5> HIDE DEF z
        <5> QED BY <2>1, <3>1, <5>1, <5>2, <5>3 DEF ChildHigh
      <4> QED BY <4>1, <4>2
    <3>2. CASE j # n + 1
      <4>1. z # Len(K) + 1 /\ j \in 1..n
        BY <2>1, <2>3, <3>2
      <4>2. hi[C[z]] = K[z]
        BY <1>30, <2>3, <4>1
      <4>3. heap[a].keys[j] = K[d + j]
        BY <4>1 DEF SectionOf
      <4> QED BY <2>1, <3>2, <4>2, <4>3 DEF ChildHigh
    <3> QED BY <3>1, <3>2
  <2>6. C[z] \in DOMAIN heap /\ h[C[z]] + 1 = h[a]
    BY <1>30, <2>3
  <2> HIDE DEF z
  <2>7. End(hi, Null, Null, C[z]) = hi[C[z]]
    BY DEF End
  <2> QED BY <2>2, <2>4, <2>5, <2>6, <2>7 DEF Hangs
<1> QED BY <1>4, <1>8, <1>9, <1>10 DEF Settled

\* a and b are s without its element after the first m, cut there.
CutAround(s, m, a, b) ==
    /\ Len(a) = m /\ Len(b) = Len(s) - m - 1
    /\ \A i \in 1..m : a[i] = s[i]
    /\ \A i \in 1..Len(s) - m - 1 : b[i] = s[m + 1 + i]

\* What borrowing between internal nodes does: of the children C of the two, l keeps n.
NodeMoved(heap, heap2, p, i, l, r, sep, C, n) ==
    /\ Heap(heap2) /\ DOMAIN heap2 = DOMAIN heap
    /\ \A b \in DOMAIN heap : /\ heap2[b].leaf = heap[b].leaf /\ heap2[b].values = heap[b].values
                              /\ heap2[b].next = heap[b].next /\ heap2[b].previous = heap[b].previous
                              /\ heap[b].parent \notin {l, r} => heap2[b].parent = heap[b].parent
    /\ \A b \in DOMAIN heap : b \notin {p, l, r} => /\ heap2[b].keys = heap[b].keys
                                                    /\ heap2[b].children = heap[b].children
    /\ heap2[p].children = heap[p].children
    /\ Len(heap2[p].keys) = Len(heap[p].keys)
    /\ \A j \in 1..Len(heap[p].keys) : heap2[p].keys[j] = IF j = i THEN sep ELSE heap[p].keys[j]
    /\ \A j \in 1..Len(C) : heap2[C[j]].parent = IF j <= n THEN l ELSE r

\* Keys and children may move between two internal nodes as long as neither has too few or too
\* many.
LEMMA NodeMovedKeeps ==
  ASSUME NEW heap, NEW heap2, NEW top, NEW h, NEW lo, NEW hi, NEW short,
         Resting(heap, top, h, lo, hi, Null, short),
         NEW p, NEW i, NEW l, NEW r, Pair(heap, p, i, l, r), short \in {l, r}, ~heap[l].leaf,
         NEW K, NEW C, Encloses(K, heap[l].keys, heap[p].keys[i], heap[r].keys),
         Joins(C, heap[l].children, heap[r].children),
         NEW m \in Nat, m >= MinInternalKeys, m <= MaxKeys,
         Len(K) - m - 1 >= MinInternalKeys, Len(K) - m - 1 <= MaxKeys,
         NodeMoved(heap, heap2, p, i, l, r, K[m + 1], C, m + 1),
         CutAround(K, m, heap2[l].keys, heap2[r].keys),
         CutAt(C, m + 1, heap2[l].children, heap2[r].children)
  PROVE  /\ \E lo2, hi2 : Resting(heap2, top, h, lo2, hi2, Null, Null)
         /\ SamePostings(heap, heap2)
<1> DEFINE sep == K[m + 1]
           lo2 == [lo EXCEPT ![r] = sep]
           hi2 == [hi EXCEPT ![l] = sep]
           d == m + 1
           n == Len(K) - m - 1
           H == h[l]
<1>1. /\ l \in DOMAIN heap /\ r \in DOMAIN heap /\ l # r /\ p # l /\ p # r /\ l # top /\ r # top
      /\ h[l] = h[r] /\ ~heap[r].leaf
  BY Neighbours DEF Pair
<1>2. /\ NodeRun(DOMAIN heap, h, lo, hi, H, K, C, lo[l], hi[r])
      /\ Brood(heap, C, l, r, Len(heap[l].keys) + 1)
  BY NodesJoin
<1>3. /\ Kinds(heap, h) /\ Ordered(heap, lo, hi)
      /\ lo[l] \in Int /\ hi[r] \in Int /\ l # Null /\ r # Null /\ lo[l] < hi[l] /\ lo[r] < hi[r]
      /\ h[l] \in Nat
  BY <1>1, Parts
<1>4. /\ heap[l].values = << >> /\ heap[l].next = Null /\ heap[l].previous = Null
      /\ heap[r].values = << >> /\ heap[r].next = Null /\ heap[r].previous = Null
  <2>1. KindOf(heap, h, l)
    BY <1>1, <1>3 DEF Kinds
  <2>2. KindOf(heap, h, r)
    BY <1>1, <1>3 DEF Kinds
  <2> QED BY <1>1, <2>1, <2>2 DEF KindOf
<1>50. Len(K) \in Nat /\ Len(C) = Len(K) + 1
  BY <1>2 DEF NodeRun
<1>5. /\ m + 1 \in 1..Len(K) /\ n \in Nat /\ d \in Nat /\ d + n = Len(K) /\ m < Len(K) /\ d # 0
      /\ 0 + m # Len(K)
  <2> DEFINE k == Len(K)
  <2>1. k \in Nat
    BY <1>50
  <2> HIDE DEF k
  <2>2. k - m - 1 >= 1
    BY <2>1, Bounds0 DEF k
  <2>3. /\ m + 1 \in 1..k /\ k - m - 1 \in Nat /\ m + 1 \in Nat /\ (m + 1) + (k - m - 1) = k
        /\ m < k /\ m + 1 # 0 /\ 0 + m # k
    BY <2>1, <2>2
  <2> QED BY <2>3 DEF k
<1>6. sep \in Int /\ lo[l] < sep /\ sep < hi[r]
  BY <1>2, <1>5 DEF NodeRun
<1>7. Replaced(lo, lo2, r, sep) /\ Replaced(hi, hi2, l, sep)
  BY DEF Replaced
<1>8. /\ lo2[l] = lo[l] /\ lo2[r] = sep /\ hi2[l] = sep /\ hi2[r] = hi[r]
      /\ \A b \in DOMAIN heap : b \notin {l, r} => lo2[b] = lo[b] /\ hi2[b] = hi[b]
  BY <1>1, <1>3 DEF Ordered
<1> HIDE DEF lo2, hi2, sep
<1>9. \A j \in 1..Len(K) + 1 : C[j] \in DOMAIN heap /\ C[j] \notin {l, r}
  <2> TAKE j \in 1..Len(K) + 1
  <2>1. C[j] \in DOMAIN heap /\ h[C[j]] \in Nat /\ h[C[j]] + 1 = H
    BY <1>2 DEF NodeRun
  <2>2. h[C[j]] # h[l] /\ h[C[j]] # h[r]
    BY <1>1, <1>3, <2>1
  <2> QED BY <2>1, <2>2
<1>10. NodeRun(DOMAIN heap2, h, lo2, hi2, H, K, C, lo[l], hi[r])
  <2>1. \A j \in 1..Len(K) + 1 : lo2[C[j]] = lo[C[j]] /\ hi2[C[j]] = hi[C[j]]
    BY <1>8, <1>9
  <2>2. DOMAIN heap2 = DOMAIN heap
    BY DEF NodeMoved
  <2> HIDE DEF H
  <2> QED BY <1>2, <2>1, <2>2 DEF NodeRun
<1>11. /\ ~heap2[l].leaf /\ heap2[l].values = << >> /\ heap2[l].next = Null /\ heap2[l].previous = Null
       /\ ~heap2[r].leaf /\ heap2[r].values = << >> /\ heap2[r].next = Null /\ heap2[r].previous = Null
  BY <1>1, <1>4 DEF NodeMoved
<1>12. SectionOf(heap2, l, K, C, 0, m)
  <2>1. /\ Len(heap2[l].keys) = m /\ Len(heap2[l].children) = m + 1
        /\ \A j \in 1..m : heap2[l].keys[j] = K[0 + j]
        /\ \A j \in 1..m + 1 : heap2[l].children[j] = C[0 + j]
    BY DEF CutAround, CutAt
  <2>2. \A j \in 1..m + 1 : heap2[C[0 + j]].parent = l
    <3> TAKE j \in 1..m + 1
    <3>1. j \in 1..Len(C) /\ j <= m + 1 /\ 0 + j = j
      BY <1>50, <1>5
    <3> QED BY <3>1 DEF NodeMoved
  <2> QED BY <1>11, <2>1, <2>2 DEF SectionOf
<1>13. SectionOf(heap2, r, K, C, d, n)
  <2>1. /\ Len(heap2[r].keys) = n
        /\ \A j \in 1..n : heap2[r].keys[j] = K[d + j]
    BY DEF CutAround
  <2>2. Len(C) - (m + 1) = n + 1
    BY <1>50, <1>5
  <2>3. /\ Len(heap2[r].children) = n + 1
        /\ \A j \in 1..n + 1 : heap2[r].children[j] = C[d + j]
    BY <2>2 DEF CutAt
  <2>4. \A j \in 1..n + 1 : heap2[C[d + j]].parent = r
    <3> TAKE j \in 1..n + 1
    <3> DEFINE z == d + j
    <3>1. z \in 1..Len(C) /\ ~(z <= m + 1)
      BY <1>50, <1>5
    <3> HIDE DEF z
    <3>2. heap2[C[z]].parent = r
      BY <3>1 DEF NodeMoved
    <3> QED BY <3>2 DEF z
  <2> QED BY <1>11, <2>1, <2>3, <2>4 DEF SectionOf
<1>14. Settled(heap2, top, h, lo2, hi2, l)
  <2>1. Between(K, 0, m, lo[l], hi[r], lo2[l], hi2[l])
    <3>0. 0 + m + 1 = m + 1
      OBVIOUS
    <3>1. K[0 + m + 1] = sep
      BY <3>0 DEF sep
    <3> QED BY <1>3, <1>5, <1>6, <1>8, <3>1 DEF Between
  <2>2. 0 \in Nat /\ 0 + m <= Len(K)
    BY <1>5, <1>50
  <2> QED BY <1>1, <1>3, <1>10, <1>12, <2>1, <2>2, NodeOfRun
<1>15. Settled(heap2, top, h, lo2, hi2, r)
  <2>1. Between(K, d, n, lo[l], hi[r], lo2[r], hi2[r])
    <3>1. K[d] = sep
      BY DEF sep
    <3> QED BY <1>3, <1>5, <1>6, <1>8, <3>1 DEF Between
  <2>2. d + n <= Len(K) /\ n >= MinInternalKeys /\ n <= MaxKeys /\ h[r] = H
    BY <1>1, <1>5, <1>50
  <2> HIDE DEF d, n, H
  <2> QED BY <1>1, <1>3, <1>5, <1>10, <1>13, <2>1, <2>2, NodeOfRun
<1>16. Shifted(heap, heap2, p, i, l, r, sep)
  <2>1. NodeMoved(heap, heap2, p, i, l, r, sep, C, d)
    BY DEF sep
  <2>2. p \in DOMAIN heap /\ i \in 1..Len(heap[p].keys)
    BY DEF Pair
  <2> HIDE DEF d
  <2>3. \A b \in DOMAIN heap : heap[b].parent \notin {l, r} => heap2[b].parent = heap[b].parent
    BY <2>1 DEF NodeMoved
  <2>4. ASSUME NEW b \in DOMAIN heap, heap[b].parent \in {l, r} PROVE IsChild(heap2, heap2[b].parent, b)
    <3>1. PICK j \in 1..Len(C) : C[j] = b
      BY <1>2, <2>4 DEF Brood
    <3>2. heap2[b].parent = IF j <= d THEN l ELSE r
      BY <2>1, <3>1 DEF NodeMoved
    <3>3. l \in DOMAIN heap2 /\ r \in DOMAIN heap2
      BY <1>1, <2>1 DEF NodeMoved
    <3>4. CASE j <= d
      <4>1. j \in 1..m + 1
        BY <1>50, <3>4 DEF d
      <4>2. heap2[l].children[j] = b /\ Len(heap2[l].children) = m + 1
        <5>1. heap2[l].children[j] = C[j] /\ Len(heap2[l].children) = m + 1
          BY <4>1 DEF CutAt
        <5> QED BY <3>1, <5>1
      <4>3. IsChild(heap2, l, b)
        BY <1>11, <3>3, <4>1, <4>2 DEF IsChild
      <4> QED BY <3>2, <3>4, <4>3
    <3>5. CASE ~(j <= d)
      <4> DEFINE z == j - d
      <4>1. z \in 1..n + 1 /\ d + z = j
        BY <1>5, <1>50, <3>5
      <4> HIDE DEF z
      <4>2. heap2[r].children[z] = C[d + z] /\ Len(heap2[r].children) = n + 1
        BY <1>13, <4>1 DEF SectionOf
      <4>3. IsChild(heap2, r, b)
        BY <1>11, <3>1, <3>3, <4>1, <4>2 DEF IsChild
      <4> QED BY <3>2, <3>5, <4>3
    <3> QED BY <3>4, <3>5
  <2>5. /\ heap2[p].children = heap[p].children /\ heap2[p].values = heap[p].values
        /\ Len(heap2[p].keys) = Len(heap[p].keys)
        /\ \A j \in 1..Len(heap[p].keys) : heap2[p].keys[j] = IF j = i THEN sep ELSE heap[p].keys[j]
    BY <2>1, <2>2 DEF NodeMoved
  <2>6. \A b \in DOMAIN heap : b \notin {p, l, r} =>
           /\ heap2[b].keys = heap[b].keys /\ heap2[b].values = heap[b].values
           /\ heap2[b].children = heap[b].children
    BY <2>1 DEF NodeMoved
  <2>7. /\ Heap(heap2) /\ DOMAIN heap2 = DOMAIN heap
        /\ \A b \in DOMAIN heap : /\ heap2[b].leaf = heap[b].leaf /\ heap2[b].next = heap[b].next
                                  /\ heap2[b].previous = heap[b].previous
    BY <2>1 DEF NodeMoved
  <2> QED BY <2>3, <2>4, <2>5, <2>6, <2>7 DEF Shifted
<1>17. Resting(heap2, top, h, lo2, hi2, Null, Null)
  BY <1>6, <1>7, <1>14, <1>15, <1>16, ShiftKeeps DEF Pair
<1>18. SamePostings(heap, heap2)
  <2>1. p \in DOMAIN heap /\ ~heap[p].leaf
    BY DEF Pair
  <2>2. /\ DOMAIN heap2 = DOMAIN heap
        /\ \A b \in DOMAIN heap : heap2[b].leaf = heap[b].leaf /\ heap2[b].values = heap[b].values
        /\ \A b \in DOMAIN heap : b \notin {p, l, r} => heap2[b].keys = heap[b].keys
    BY DEF NodeMoved
  <2>3. \A b \in DOMAIN heap : heap[b].leaf => b \notin {p, l, r}
    BY <1>1, <2>1
  <2>4. /\ \A b \in DOMAIN heap : heap[b].leaf => /\ b \in DOMAIN heap2 /\ heap2[b].leaf
                                                  /\ heap2[b].keys = heap[b].keys
                                                  /\ heap2[b].values = heap[b].values
        /\ \A b \in DOMAIN heap2 : heap2[b].leaf => b \in DOMAIN heap /\ heap[b].leaf
    BY <2>2, <2>3
  <2> QED BY <2>4, SameLeaves
<1> QED BY <1>17, <1>18

\* The last element of s takes the place of e, which goes over to t.
LEMMA RotateEarlier ==
  ASSUME NEW T, NEW s \in Seq(T), NEW t \in Seq(T), NEW e \in T, Len(s) > 0,
         NEW run, Encloses(run, s, e, t)
  PROVE  /\ CutAround(run, Len(s) - 1, Front(s), <<e>> \o t) /\ run[Len(s)] = Last(s)
         /\ Front(s) \in Seq(T) /\ <<e>> \o t \in Seq(T) /\ Last(s) \in T
         /\ Len(run) = Len(s) + 1 + Len(t)
<1> DEFINE n == Len(s)
           m == Len(t)
           a == Front(s)
           b == <<e>> \o t
           x == Last(s)
<1>1. n \in Nat /\ m \in Nat /\ n > 0
  OBVIOUS
<1>2. /\ a \in Seq(T) /\ Len(a) = n - 1 /\ \A i \in 1..n - 1 : a[i] = s[i]
      /\ x = s[n] /\ x \in T
  BY EndsElements
<1>3. /\ b \in Seq(T) /\ Len(b) = m + 1
      /\ \A i \in 1..m + 1 : b[i] = IF i = 1 THEN e ELSE t[i - 1]
  BY ConsElements
<1> HIDE DEF a, b, x
<1>4. /\ Len(run) = n + 1 + m
      /\ \A i \in 1..n + 1 + m : run[i] = IF i <= n THEN s[i] ELSE IF i = n + 1 THEN e ELSE t[i - n - 1]
  BY EnclosesElements
<1> HIDE DEF n, m
<1>5. Len(run) - (n - 1) - 1 = m + 1
  BY <1>1, <1>4
<1>6. \A i \in 1..n - 1 : a[i] = run[i]
  <2> TAKE i \in 1..n - 1
  <2>1. i \in 1..n + 1 + m /\ i <= n
    BY <1>1
  <2> QED BY <1>2, <1>4, <2>1
<1>7. \A i \in 1..m + 1 : b[i] = run[n - 1 + 1 + i]
  <2> TAKE i \in 1..m + 1
  <2> DEFINE z == n - 1 + 1 + i
  <2>1. z \in 1..n + 1 + m /\ ~(z <= n) /\ (z = n + 1 <=> i = 1) /\ z - n - 1 = i - 1
    BY <1>1
  <2> HIDE DEF z
  <2>2. b[i] = run[z]
    BY <1>3, <1>4, <2>1
  <2> QED BY <2>2 DEF z
<1>8. run[n] = x
  <2>1. n \in 1..n + 1 + m /\ n <= n
    BY <1>1
  <2> QED BY <1>2, <1>4, <2>1
<1>9. CutAround(run, n - 1, a, b)
  BY <1>2, <1>3, <1>5, <1>6, <1>7 DEF CutAround
<1> QED BY <1>2, <1>3, <1>4, <1>8, <1>9 DEF n, m, a, b, x

\* The first element of t takes the place of e, which goes over to s.
LEMMA RotateLater ==
  ASSUME NEW T, NEW s \in Seq(T), NEW t \in Seq(T), NEW e \in T, Len(t) > 0,
         NEW run, Encloses(run, s, e, t)
  PROVE  /\ CutAround(run, Len(s) + 1, Append(s, e), Tail(t)) /\ run[Len(s) + 2] = Head(t)
         /\ Append(s, e) \in Seq(T) /\ Tail(t) \in Seq(T) /\ Head(t) \in T
         /\ Len(run) = Len(s) + 1 + Len(t)
<1> DEFINE n == Len(s)
           m == Len(t)
           a == Append(s, e)
           b == Tail(t)
           x == Head(t)
<1>1. n \in Nat /\ m \in Nat /\ m > 0
  OBVIOUS
<1>2. /\ b \in Seq(T) /\ Len(b) = m - 1 /\ \A i \in 1..m - 1 : b[i] = t[i + 1]
      /\ x = t[1] /\ x \in T
  BY EndsElements
<1>3. /\ a \in Seq(T) /\ Len(a) = n + 1
      /\ \A i \in 1..n + 1 : a[i] = IF i = n + 1 THEN e ELSE s[i]
  BY AppendElements
<1> HIDE DEF a, b, x
<1>4. /\ Len(run) = n + 1 + m
      /\ \A i \in 1..n + 1 + m : run[i] = IF i <= n THEN s[i] ELSE IF i = n + 1 THEN e ELSE t[i - n - 1]
  BY EnclosesElements
<1> HIDE DEF n, m
<1>5. Len(run) - (n + 1) - 1 = m - 1
  BY <1>1, <1>4
<1>6. \A i \in 1..n + 1 : a[i] = run[i]
  <2> TAKE i \in 1..n + 1
  <2>1. i \in 1..n + 1 + m /\ (i <= n <=> i # n + 1)
    BY <1>1
  <2> QED BY <1>3, <1>4, <2>1
<1>7. \A i \in 1..m - 1 : b[i] = run[n + 1 + 1 + i]
  <2> TAKE i \in 1..m - 1
  <2> DEFINE z == n + 1 + 1 + i
  <2>1. z \in 1..n + 1 + m /\ ~(z <= n) /\ z # n + 1 /\ z - n - 1 = i + 1
    BY <1>1
  <2> HIDE DEF z
  <2>2. b[i] = run[z]
    BY <1>2, <1>4, <2>1
  <2> QED BY <2>2 DEF z
<1>8. run[n + 2] = x
  <2> DEFINE z == n + 2
  <2>1. z \in 1..n + 1 + m /\ ~(z <= n) /\ z # n + 1 /\ z - n - 1 = 1
    BY <1>1
  <2> HIDE DEF z
  <2>2. run[z] = x
    BY <1>2, <1>4, <2>1
  <2> QED BY <2>2 DEF z
<1>9. CutAround(run, n + 1, a, b)
  BY <1>2, <1>3, <1>5, <1>6, <1>7 DEF CutAround
<1> QED BY <1>2, <1>3, <1>4, <1>8, <1>9 DEF n, m, a, b, x

\* Assigning the keys and the children of two nodes, the parent of z and one key of p.
NodesPut(heap, heap2, x, y, z, p, i, kx, cx, ky, cy, sep) ==
    heap2 = [heap EXCEPT ![x].keys = kx, ![x].children = cx, ![z].parent = x,
                         ![y].keys = ky, ![y].children = cy, ![p].keys[i] = sep]

\* The keys and the children of an internal node.
NodeLists(ks, cs) == ks \in Seq(Keys) /\ cs \in Seq(Nat)

\* The node that changes parents is none of the three.
Four(heap, x, y, z, p, i) ==
    Three(heap, x, y, p, i) /\ z \in DOMAIN heap /\ z # x /\ z # y /\ z # p

\* What has then changed.
ChildPassed(heap, heap2, x, y, z, p, i, sep) ==
    /\ Heap(heap2) /\ DOMAIN heap2 = DOMAIN heap
    /\ \A b \in DOMAIN heap : /\ heap2[b].leaf = heap[b].leaf /\ heap2[b].values = heap[b].values
                              /\ heap2[b].next = heap[b].next /\ heap2[b].previous = heap[b].previous
                              /\ heap2[b].parent = IF b = z THEN x ELSE heap[b].parent
    /\ \A b \in DOMAIN heap : b \notin {p, x, y} => /\ heap2[b].keys = heap[b].keys
                                                    /\ heap2[b].children = heap[b].children
    /\ heap2[p].children = heap[p].children
    /\ Len(heap2[p].keys) = Len(heap[p].keys)
    /\ \A j \in 1..Len(heap[p].keys) : heap2[p].keys[j] = IF j = i THEN sep ELSE heap[p].keys[j]

\* The fields of two nodes, of the separator between them and of the child that goes over, after
\* a borrowing.
LEMMA NodesAssigned ==
  ASSUME NEW heap, NEW x, NEW y, NEW z, NEW p, NEW i, Four(heap, x, y, z, p, i), NEW sep \in Keys,
         NEW kx, NEW cx, NEW ky, NEW cy, NodeLists(kx, cx), NodeLists(ky, cy),
         NEW heap2, NodesPut(heap, heap2, x, y, z, p, i, kx, cx, ky, cy, sep)
  PROVE  /\ ChildPassed(heap, heap2, x, y, z, p, i, sep)
         /\ heap2[x].keys = kx /\ heap2[x].children = cx /\ heap2[y].keys = ky /\ heap2[y].children = cy
<1> DEFINE ks == [heap[p].keys EXCEPT ![i] = sep]
           nx == [heap[x] EXCEPT !.keys = kx, !.children = cx]
           ny == [heap[y] EXCEPT !.keys = ky, !.children = cy]
           nz == [heap[z] EXCEPT !.parent = x]
           np == [heap[p] EXCEPT !.keys = ks]
<1>0. /\ Heap(heap) /\ x \in DOMAIN heap /\ y \in DOMAIN heap /\ p \in DOMAIN heap /\ z \in DOMAIN heap
      /\ x # y /\ x # p /\ y # p /\ z # x /\ z # y /\ z # p /\ i \in 1..Len(heap[p].keys)
      /\ kx \in Seq(Keys) /\ cx \in Seq(Nat) /\ ky \in Seq(Keys) /\ cy \in Seq(Nat)
  BY DEF Three, Four, NodeLists
<1>1. /\ heap[x] \in NodeFields /\ heap[y] \in NodeFields /\ heap[p] \in NodeFields /\ heap[z] \in NodeFields
      /\ heap[p].keys \in Seq(Keys) /\ x \in Nat
  BY <1>0, Fields
<1>2. /\ ks \in Seq(Keys) /\ Len(ks) = Len(heap[p].keys)
      /\ \A j \in 1..Len(heap[p].keys) : ks[j] = IF j = i THEN sep ELSE heap[p].keys[j]
  <2> DEFINE s == heap[p].keys
  <2>1. s \in Seq(Keys) /\ i \in 1..Len(s)
    BY <1>0, <1>1
  <2> HIDE DEF s
  <2>2. /\ [s EXCEPT ![i] = sep] \in Seq(Keys) /\ Len([s EXCEPT ![i] = sep]) = Len(s)
        /\ \A j \in 1..Len(s) : [s EXCEPT ![i] = sep][j] = IF j = i THEN sep ELSE s[j]
    BY <2>1, ReplaceElements
  <2> QED BY <2>2 DEF s
<1>3. heap2 = [heap EXCEPT ![x] = nx, ![z] = nz, ![y] = ny, ![p] = np]
  <2>1. heap2 = [heap EXCEPT ![x].keys = kx, ![x].children = cx, ![z].parent = x,
                             ![y].keys = ky, ![y].children = cy, ![p].keys[i] = sep]
    BY DEF NodesPut
  <2> QED BY <1>0, <2>1
<1> HIDE DEF ks
<1>5. /\ nx = [heap[x] EXCEPT !.keys = kx, !.children = cx]
      /\ ny = [heap[y] EXCEPT !.keys = ky, !.children = cy]
      /\ nz = [heap[z] EXCEPT !.parent = x]
      /\ np = [heap[p] EXCEPT !.keys = ks]
  OBVIOUS
<1> HIDE DEF nx, ny, np, nz
<1>6. /\ nx \in NodeFields /\ nx.keys = kx /\ nx.children = cx /\ nx.leaf = heap[x].leaf
      /\ nx.values = heap[x].values /\ nx.parent = heap[x].parent /\ nx.next = heap[x].next
      /\ nx.previous = heap[x].previous
  <2> DEFINE n == heap[x]
  <2>1. n \in NodeFields
    BY <1>1
  <2> HIDE DEF n
  <2>2. LET n2 == [n EXCEPT !.keys = kx, !.children = cx]
        IN  /\ n2 \in NodeFields /\ n2.keys = kx /\ n2.children = cx /\ n2.leaf = n.leaf
            /\ n2.values = n.values /\ n2.parent = n.parent /\ n2.next = n.next
            /\ n2.previous = n.previous
    BY <1>0, <2>1 DEF NodeFields
  <2> QED BY <1>5, <2>2 DEF n
<1>7. /\ ny \in NodeFields /\ ny.keys = ky /\ ny.children = cy /\ ny.leaf = heap[y].leaf
      /\ ny.values = heap[y].values /\ ny.parent = heap[y].parent /\ ny.next = heap[y].next
      /\ ny.previous = heap[y].previous
  <2> DEFINE n == heap[y]
  <2>1. n \in NodeFields
    BY <1>1
  <2> HIDE DEF n
  <2>2. LET n2 == [n EXCEPT !.keys = ky, !.children = cy]
        IN  /\ n2 \in NodeFields /\ n2.keys = ky /\ n2.children = cy /\ n2.leaf = n.leaf
            /\ n2.values = n.values /\ n2.parent = n.parent /\ n2.next = n.next
            /\ n2.previous = n.previous
    BY <1>0, <2>1 DEF NodeFields
  <2> QED BY <1>5, <2>2 DEF n
<1>8. /\ np \in NodeFields /\ np.keys = ks /\ np.values = heap[p].values /\ np.leaf = heap[p].leaf
      /\ np.children = heap[p].children /\ np.parent = heap[p].parent /\ np.next = heap[p].next
      /\ np.previous = heap[p].previous
  BY <1>1, <1>2, <1>5, KeysAssigned
<1>80. /\ nz \in NodeFields /\ nz.parent = x
       /\ nz.leaf = heap[z].leaf /\ nz.keys = heap[z].keys /\ nz.values = heap[z].values
       /\ nz.children = heap[z].children /\ nz.next = heap[z].next /\ nz.previous = heap[z].previous
  BY <1>1, <1>5, ParentAssigned
<1>9. /\ DOMAIN heap2 = DOMAIN heap /\ heap2 = [b \in DOMAIN heap2 |-> heap2[b]]
      /\ heap2[x] = nx /\ heap2[y] = ny /\ heap2[p] = np /\ heap2[z] = nz
      /\ \A b \in DOMAIN heap : b \notin {p, x, y, z} => heap2[b] = heap[b]
  BY <1>0, <1>3
<1>10. Heap(heap2)
  <2>1. \A b \in DOMAIN heap : heap[b] \in NodeFields
    BY <1>0, Fields
  <2>2. \A b \in DOMAIN heap2 : heap2[b] \in NodeFields
    BY <1>6, <1>7, <1>8, <1>80, <1>9, <2>1
  <2>3. IsFiniteSet(DOMAIN heap2) /\ DOMAIN heap2 \subseteq Nat \ {Null}
    BY <1>0, <1>9 DEF Heap
  <2> QED BY <1>9, <2>2, <2>3, HeapOf
<1>11. \A b \in DOMAIN heap : /\ heap2[b].leaf = heap[b].leaf /\ heap2[b].values = heap[b].values
                              /\ heap2[b].next = heap[b].next /\ heap2[b].previous = heap[b].previous
                              /\ heap2[b].parent = IF b = z THEN x ELSE heap[b].parent
  <2> TAKE b \in DOMAIN heap
  <2>1. CASE b = x
    BY <1>0, <1>6, <1>9, <2>1
  <2>2. CASE b = y
    BY <1>0, <1>7, <1>9, <2>2
  <2>3. CASE b = p
    BY <1>0, <1>8, <1>9, <2>3
  <2>4. CASE b = z
    BY <1>0, <1>80, <1>9, <2>4
  <2>5. CASE b \notin {p, x, y, z}
    BY <1>9, <2>5
  <2> QED BY <2>1, <2>2, <2>3, <2>4, <2>5
<1>12. \A b \in DOMAIN heap : b \notin {p, x, y} => /\ heap2[b].keys = heap[b].keys
                                                    /\ heap2[b].children = heap[b].children
  BY <1>80, <1>9
<1>13. ChildPassed(heap, heap2, x, y, z, p, i, sep)
  BY <1>2, <1>8, <1>9, <1>10, <1>11, <1>12 DEF ChildPassed
<1> QED BY <1>6, <1>7, <1>9, <1>13

\* A child passed on between l and r is the k-th of theirs, and l keeps n of them.
LEMMA PassedIsMoved ==
  ASSUME NEW heap, NEW heap2, NEW x, NEW y, NEW z, NEW p, NEW i, NEW sep,
         ChildPassed(heap, heap2, x, y, z, p, i, sep),
         NEW l, NEW r, l # r, {l, r} = {x, y}, NEW C, NEW q \in Nat, Brood(heap, C, l, r, q), q + 1 \in 1..Len(C),
         \A j \in 1..Len(C) : C[j] \in DOMAIN heap,
         NEW k \in Nat, k \in 1..Len(C), z = C[k], NEW n \in Nat,
         (x = r /\ k = q /\ n = q - 1) \/ (x = l /\ k = q + 1 /\ n = q + 1)
  PROVE  NodeMoved(heap, heap2, p, i, l, r, sep, C, n)
<1>1. heap[z].parent \in {l, r}
  BY DEF Brood
<1>2. ASSUME NEW j \in 1..Len(C) PROVE heap2[C[j]].parent = IF j <= n THEN l ELSE r
  <2>1. heap2[C[j]].parent = IF C[j] = z THEN x ELSE heap[C[j]].parent
    BY DEF ChildPassed
  <2>2. C[j] = z <=> j = k
    BY DEF Brood
  <2>3. heap[C[j]].parent = IF j <= q THEN l ELSE r
    BY DEF Brood
  <2> QED BY <2>1, <2>2, <2>3
<1>3. /\ \A b \in DOMAIN heap : /\ heap2[b].leaf = heap[b].leaf /\ heap2[b].values = heap[b].values
                                /\ heap2[b].next = heap[b].next /\ heap2[b].previous = heap[b].previous
                                /\ heap[b].parent \notin {l, r} => heap2[b].parent = heap[b].parent
      /\ Heap(heap2) /\ DOMAIN heap2 = DOMAIN heap
  BY <1>1 DEF ChildPassed
<1>4. \A b \in DOMAIN heap : b \notin {p, l, r} => /\ heap2[b].keys = heap[b].keys
                                                   /\ heap2[b].children = heap[b].children
  <2>1. \A b : b \notin {p, l, r} <=> b \notin {p, x, y}
    OBVIOUS
  <2> QED BY <2>1 DEF ChildPassed
<1>5. /\ heap2[p].children = heap[p].children
      /\ Len(heap2[p].keys) = Len(heap[p].keys)
      /\ \A j \in 1..Len(heap[p].keys) : heap2[p].keys[j] = IF j = i THEN sep ELSE heap[p].keys[j]
  BY DEF ChildPassed
<1> QED BY <1>2, <1>3, <1>4, <1>5 DEF NodeMoved

\* The counts when a, with a key to spare, gives one to b, which lacks one.
LEMMA SpareCounts ==
  ASSUME NEW a \in Nat, NEW b \in Nat, a > MinInternalKeys, a <= MaxKeys, b = MinInternalKeys - 1
  PROVE  /\ a > 0 /\ a - 1 \in Nat /\ a - 1 >= MinInternalKeys /\ a - 1 <= MaxKeys
         /\ b + 1 >= MinInternalKeys /\ b + 1 <= MaxKeys /\ b + 1 \in Nat
         /\ (a + 1 + b) - (a - 1) - 1 = b + 1 /\ (b + 1 + a) - (b + 1) - 1 = a - 1
<1> DEFINE x == MinInternalKeys
           y == MaxKeys
<1>1. x \in Nat /\ y \in Nat /\ x <= y /\ x >= 1
  BY Bounds0, Room
<1> HIDE DEF x, y
<1>2. a > x /\ a <= y /\ b = x - 1
  BY DEF x, y
<1>3. /\ a > 0 /\ a - 1 \in Nat /\ a - 1 >= x /\ a - 1 <= y
      /\ b + 1 >= x /\ b + 1 <= y /\ b + 1 \in Nat
      /\ (a + 1 + b) - (a - 1) - 1 = b + 1 /\ (b + 1 + a) - (b + 1) - 1 = a - 1
  BY <1>1, <1>2
<1> QED BY <1>3 DEF x, y

\* Borrowing from the left internal node keeps the invariant and every posting list.
LEMMA BorrowNodeFromLeft ==
  ASSUME IInv, BorrowFromLeft, ~node[Callee].leaf
  PROVE  IInv' /\ SamePostings(node, node')
<1>1. Underflow /\ CanSpare(LeftSibling) /\ root' = root /\ size' = size /\ todo' = Rest
  BY DEF BorrowFromLeft
<1>2. Rest \in After
  BY <1>1, WhenUnderflow
<1>3. PICK h, lo, hi, p, i, c : Short(h, lo, hi, p, i, c)
  BY <1>1, WhenUnderflow
<1> DEFINE l == LeftSibling
           kl == node[l].keys
           cl == node[l].children
           kr == node[c].keys
           cr == node[c].children
           j == i - 1
           old == node[p].keys[j]
           K == kl \o <<old>> \o kr
           C == cl \o cr
           m == Len(kl) - 1
           key == Last(kl)
           z == Last(cl)
<1>4. /\ p = Parent /\ c = Callee /\ j = Index
      /\ p \in DOMAIN node /\ ~node[p].leaf /\ c \in DOMAIN node /\ ~node[c].leaf
      /\ Resting(node, root, h, lo, hi, Null, c) /\ Heap(node)
      /\ Kinds(node, h) /\ Ordered(node, lo, hi) /\ Down(node, h, lo, hi, Null, Null)
  BY <1>3 DEF Short
<1>5. /\ j \in 1..Len(node[p].keys) /\ l = node[p].children[j] /\ c = node[p].children[j + 1]
      /\ l # Null /\ Len(kl) > MinInternalKeys /\ Len(kr) = MinInternalKeys - 1
  <2>1. l # Null /\ Len(kl) > MinimumOf(node[c].leaf) /\ i > 1
    BY <1>1, <1>3 DEF Short
  <2>2. i - 1 \in 1..Len(node[p].keys) /\ i - 1 + 1 = i
    BY <1>3, <2>1 DEF Short
  <2>3. MinimumOf(node[c].leaf) = MinInternalKeys
    BY <1>4 DEF MinimumOf
  <2> QED BY <1>3, <2>1, <2>2, <2>3 DEF Short
<1> HIDE DEF l, j
<1>50. Pair(node, p, j, l, c)
  BY <1>4, <1>5 DEF Pair
<1>6. l \in DOMAIN node /\ l # c /\ p # l /\ p # c /\ ~node[l].leaf /\ h[l] = h[c] /\ h[l] + 1 = h[p]
  BY <1>4, <1>5, Neighbours
<1>7. /\ kl \in Seq(Keys) /\ kr \in Seq(Keys) /\ cl \in Seq(Nat) /\ cr \in Seq(Nat)
      /\ Len(kl) \in Nat /\ Len(kr) \in Nat /\ old \in Keys
  BY <1>4, <1>5, <1>6, Fields
<1>8. Len(kl) <= MaxKeys
  <2>1. FilledAt(node, root, Null, c, l) /\ Null # l
    BY <1>4, <1>6, Parts DEF Filled
  <2> QED BY <2>1 DEF FilledAt
<1>80. /\ Len(cl) = Len(kl) + 1 /\ Len(cr) = Len(kr) + 1
       /\ \A x \in 1..Len(kl) + 1 : cl[x] \in DOMAIN node /\ h[cl[x]] + 1 = h[l]
  <2>1. /\ Len(cl) = Len(kl) + 1
        /\ \A x \in 1..Len(kl) + 1 : cl[x] \in DOMAIN node /\ h[cl[x]] + 1 = h[l]
    BY <1>4, <1>6, ChildrenApart
  <2>2. Len(cr) = Len(kr) + 1
    BY <1>4, ChildrenApart
  <2> QED BY <2>1, <2>2
<1>9. Len(kl) > 0 /\ Len(cl) > 0
  <2>1. Len(kl) > 0 /\ Len(kl) \in Nat
    BY <1>5, <1>7, <1>8, SpareCounts
  <2> QED BY <1>80, <2>1
<1>90. z \in DOMAIN node /\ z # c /\ z # l /\ z # p /\ z = cl[Len(cl)]
  <2>1. z = cl[Len(cl)]
    BY <1>7, <1>9, EndsElements
  <2>2. Len(cl) \in 1..Len(kl) + 1
    BY <1>7, <1>80
  <2>3. z \in DOMAIN node /\ h[z] + 1 = h[l]
    BY <1>80, <2>1, <2>2
  <2>4. \A b \in DOMAIN node : h[b] \in Nat
    BY <1>4, Parts
  <2> QED BY <1>4, <1>6, <2>1, <2>3, <2>4
<1> DEFINE rk == <<old>> \o kr
           rc == <<z>> \o cr
           lk == Front(kl)
           lc == Front(cl)
<1>10. NodesPut(node, node', c, l, z, p, j, rk, rc, lk, lc, key)
  <2>1. node' = [node EXCEPT ![c].keys = <<old>> \o @, ![c].children = <<z>> \o @, ![z].parent = c,
                             ![l].keys = Front(@), ![l].children = Front(@), ![p].keys[j] = key]
    BY <1>4 DEF BorrowFromLeft, l
  <2>2. /\ [node[c] EXCEPT !.keys = rk].children = node[c].children
        /\ [node[l] EXCEPT !.keys = lk].children = node[l].children
    BY <1>4, <1>6, Fields DEF NodeFields
  <2> HIDE DEF rk, rc, lk, lc, key, z, old
  <2>3. node' = [node EXCEPT ![c].keys = rk, ![c].children = rc, ![z].parent = c,
                             ![l].keys = lk, ![l].children = lc, ![p].keys[j] = key]
    BY <1>4, <1>6, <1>90, <2>1, <2>2 DEF rk, rc, lk, lc
  <2> QED BY <2>3 DEF NodesPut
<1> HIDE DEF kl, cl, kr, cr, K, C, rk, rc, lk, lc, key, z, old
<1>11. Encloses(K, kl, old, kr) /\ Joins(C, cl, cr)
  BY DEF Joins, Encloses, K, C
<1>12. /\ CutAround(K, m, lk, rk) /\ K[Len(kl)] = key /\ lk \in Seq(Keys) /\ rk \in Seq(Keys) /\ key \in Keys
       /\ Len(K) = Len(kl) + 1 + Len(kr)
  <2>1. kl \in Seq(Keys) /\ kr \in Seq(Keys) /\ old \in Keys /\ Len(kl) > 0 /\ Encloses(K, kl, old, kr)
    BY <1>7, <1>9, <1>11
  <2>2. /\ CutAround(K, Len(kl) - 1, Front(kl), <<old>> \o kr) /\ K[Len(kl)] = Last(kl)
        /\ Front(kl) \in Seq(Keys) /\ <<old>> \o kr \in Seq(Keys) /\ Last(kl) \in Keys
        /\ Len(K) = Len(kl) + 1 + Len(kr)
    BY <2>1, RotateEarlier
  <2> QED BY <2>2 DEF lk, rk, key
<1>16. /\ m \in Nat /\ m >= MinInternalKeys /\ m <= MaxKeys /\ Len(K) - m - 1 >= MinInternalKeys
       /\ Len(K) - m - 1 <= MaxKeys /\ m + 1 = Len(kl) /\ m + 1 = Len(cl) - 1
       /\ Len(kl) + 1 \in Nat /\ m + 1 \in Nat /\ m + 1 = Len(kl) + 1 - 1
  <2>1. /\ Len(kl) \in Nat /\ Len(kr) \in Nat /\ Len(kl) > MinInternalKeys /\ Len(kl) <= MaxKeys
        /\ Len(kr) = MinInternalKeys - 1
    BY <1>5, <1>7, <1>8
  <2>2. /\ m \in Nat /\ m >= MinInternalKeys /\ m <= MaxKeys
        /\ Len(kr) + 1 >= MinInternalKeys /\ Len(kr) + 1 <= MaxKeys
        /\ (Len(kl) + 1 + Len(kr)) - m - 1 = Len(kr) + 1
    BY <2>1, SpareCounts
  <2>3. Len(K) - m - 1 >= MinInternalKeys /\ Len(K) - m - 1 <= MaxKeys
    BY <1>12, <2>2
  <2>4. m + 1 = Len(kl) /\ m + 1 = Len(cl) - 1 /\ Len(kl) + 1 \in Nat /\ m + 1 \in Nat
        /\ m + 1 = Len(kl) + 1 - 1
    BY <1>7, <1>80
  <2> QED BY <2>2, <2>3, <2>4
<1>13. CutAt(C, m + 1, lc, rc) /\ lc \in Seq(Nat) /\ rc \in Seq(Nat)
  <2>1. CutAt(C, Len(cl) - 1, lc, rc) /\ lc \in Seq(Nat) /\ rc \in Seq(Nat)
    BY <1>7, <1>9, <1>11, CutEarlier DEF lc, rc, z
  <2> QED BY <1>16, <2>1
<1>14. /\ ChildPassed(node, node', c, l, z, p, j, key)
       /\ node'[c].keys = rk /\ node'[c].children = rc /\ node'[l].keys = lk /\ node'[l].children = lc
  <2>1. Four(node, c, l, z, p, j)
    BY <1>4, <1>5, <1>6, <1>90 DEF Four, Three
  <2>2. NodeLists(lk, lc) /\ NodeLists(rk, rc)
    BY <1>12, <1>13 DEF NodeLists
  <2> QED BY <1>10, <1>12, <2>1, <2>2, NodesAssigned
<1>15. Encloses(K, node[l].keys, node[p].keys[j], node[c].keys) /\ Joins(C, node[l].children, node[c].children)
  BY <1>11 DEF kl, kr, cl, cr, old
<1> HIDE DEF m
<1>17. /\ Brood(node, C, l, c, Len(kl) + 1) /\ Len(C) = Len(K) + 1
       /\ \A x \in 1..Len(C) : C[x] \in DOMAIN node
  <2>1. /\ NodeRun(DOMAIN node, h, lo, hi, h[l], K, C, lo[l], hi[c])
        /\ Brood(node, C, l, c, Len(node[l].keys) + 1)
    BY <1>4, <1>50, <1>6, <1>15, NodesJoin
  <2> QED BY <2>1 DEF NodeRun, kl
<1>18. NodeMoved(node, node', p, j, l, c, K[m + 1], C, m + 1)
  <2> DEFINE q == Len(kl) + 1
  <2>1. q \in Nat /\ q + 1 \in 1..Len(C) /\ q \in 1..Len(C) /\ m + 1 = q - 1
    BY <1>7, <1>12, <1>16, <1>17
  <2>2. z = C[q]
    <3>1. C = cl \o cr /\ q = Len(cl) /\ q <= Len(cl) /\ q \in 1..Len(cl) + Len(cr)
      BY <1>7, <1>80 DEF C
    <3>2. (cl \o cr)[q] = cl[q]
      BY <1>7, <3>1, JoinElements
    <3> QED BY <1>90, <3>1, <3>2
  <2>3. key = K[m + 1]
    BY <1>12, <1>16
  <2>4. ChildPassed(node, node', c, l, z, p, j, K[m + 1]) /\ {l, c} = {c, l}
    BY <1>14, <2>3
  <2>5. Brood(node, C, l, c, q)
    BY <1>17
  <2> HIDE DEF q
  <2> QED BY <1>6, <1>16, <1>17, <2>1, <2>2, <2>4, <2>5, PassedIsMoved
<1>19. /\ CutAround(K, m, node'[l].keys, node'[c].keys)
       /\ CutAt(C, m + 1, node'[l].children, node'[c].children)
  BY <1>12, <1>13, <1>14
<1>20. /\ \E lo2, hi2 : Resting(node', root, h, lo2, hi2, Null, Null)
       /\ SamePostings(node, node')
  BY <1>4, <1>50, <1>6, <1>15, <1>16, <1>18, <1>19, NodeMovedKeeps
<1>21. size' = Cardinality(KeysOf(node')) /\ IsFiniteSet(KeysOf(node'))
  BY <1>1, <1>20, SizeAgain
<1>22. PICK lo2, hi2 : Resting(node', root', h, lo2, hi2, Null, Null)
  BY <1>1, <1>20
<1>23. IInv'
  BY <1>1, <1>2, <1>21, <1>22, RestAgain
<1> QED BY <1>20, <1>23

\* Borrowing from the right internal node keeps the invariant and every posting list.
LEMMA BorrowNodeFromRight ==
  ASSUME IInv, BorrowFromRight, ~node[Callee].leaf
  PROVE  IInv' /\ SamePostings(node, node')
<1>1. Underflow /\ CanSpare(RightSibling) /\ root' = root /\ size' = size /\ todo' = Rest
  BY DEF BorrowFromRight
<1>2. Rest \in After
  BY <1>1, WhenUnderflow
<1>3. PICK h, lo, hi, p, i, c : Short(h, lo, hi, p, i, c)
  BY <1>1, WhenUnderflow
<1> DEFINE r == RightSibling
           kl == node[c].keys
           cl == node[c].children
           kr == node[r].keys
           cr == node[r].children
           old == node[p].keys[i]
           K == kl \o <<old>> \o kr
           C == cl \o cr
           m == Len(kl) + 1
           key == Head(kr)
           z == Head(cr)
<1>4. /\ p = Parent /\ c = Callee /\ i = Index + 1
      /\ p \in DOMAIN node /\ ~node[p].leaf /\ c \in DOMAIN node /\ ~node[c].leaf
      /\ Resting(node, root, h, lo, hi, Null, c) /\ Heap(node)
      /\ Kinds(node, h) /\ Ordered(node, lo, hi) /\ Down(node, h, lo, hi, Null, Null)
  BY <1>3 DEF Short
<1>5. /\ i \in 1..Len(node[p].keys) /\ c = node[p].children[i] /\ r = node[p].children[i + 1]
      /\ r # Null /\ Len(kr) > MinInternalKeys /\ Len(kl) = MinInternalKeys - 1
  <2>1. r # Null /\ Len(kr) > MinimumOf(node[c].leaf) /\ i < Len(node[p].keys) + 1
    BY <1>1, <1>3 DEF Short
  <2>2. i \in 1..Len(node[p].keys)
    BY <1>3, <2>1 DEF Short
  <2>3. MinimumOf(node[c].leaf) = MinInternalKeys
    BY <1>4 DEF MinimumOf
  <2> QED BY <1>3, <2>1, <2>2, <2>3 DEF Short
<1> HIDE DEF r
<1>50. Pair(node, p, i, c, r)
  BY <1>4, <1>5 DEF Pair
<1>6. r \in DOMAIN node /\ c # r /\ p # c /\ p # r /\ ~node[r].leaf /\ h[c] = h[r] /\ h[c] + 1 = h[p]
  BY <1>4, <1>5, Neighbours
<1>7. /\ kl \in Seq(Keys) /\ kr \in Seq(Keys) /\ cl \in Seq(Nat) /\ cr \in Seq(Nat)
      /\ Len(kl) \in Nat /\ Len(kr) \in Nat /\ old \in Keys
  BY <1>4, <1>5, <1>6, Fields
<1>8. Len(kr) <= MaxKeys
  <2>1. FilledAt(node, root, Null, c, r) /\ Null # r
    BY <1>4, <1>6, Parts DEF Filled
  <2> QED BY <2>1 DEF FilledAt
<1>80. /\ Len(cl) = Len(kl) + 1 /\ Len(cr) = Len(kr) + 1
       /\ \A x \in 1..Len(kr) + 1 : cr[x] \in DOMAIN node /\ h[cr[x]] + 1 = h[r]
  <2>1. /\ Len(cr) = Len(kr) + 1
        /\ \A x \in 1..Len(kr) + 1 : cr[x] \in DOMAIN node /\ h[cr[x]] + 1 = h[r]
    BY <1>4, <1>6, ChildrenApart
  <2>2. Len(cl) = Len(kl) + 1
    BY <1>4, ChildrenApart
  <2> QED BY <2>1, <2>2
<1>9. Len(kr) > 0 /\ Len(cr) > 1 /\ Len(cr) > 0
  <2>1. Len(kr) > 0 /\ Len(kr) \in Nat
    BY <1>5, <1>7, <1>8, SpareCounts
  <2> QED BY <1>80, <2>1
<1>90. z \in DOMAIN node /\ z # c /\ z # r /\ z # p /\ z = cr[1]
  <2>1. z = cr[1]
    BY <1>7, <1>9, EndsElements
  <2>2. 1 \in 1..Len(kr) + 1
    BY <1>7, <1>80
  <2>3. z \in DOMAIN node /\ h[z] + 1 = h[r]
    BY <1>80, <2>1, <2>2
  <2>4. \A b \in DOMAIN node : h[b] \in Nat
    BY <1>4, Parts
  <2> QED BY <1>4, <1>6, <2>1, <2>3, <2>4
<1> DEFINE lk == Append(kl, old)
           lc == Append(cl, z)
           rk == Tail(kr)
           rc == Tail(cr)
<1>10. NodesPut(node, node', c, r, z, p, i, lk, lc, rk, rc, key)
  <2>1. node' = [node EXCEPT ![c].keys = Append(@, old), ![c].children = Append(@, z), ![z].parent = c,
                             ![r].keys = Tail(@), ![r].children = Tail(@), ![p].keys[i] = key]
    BY <1>4 DEF BorrowFromRight, r
  <2>2. /\ [node[c] EXCEPT !.keys = lk].children = node[c].children
        /\ [node[r] EXCEPT !.keys = rk].children = node[r].children
    BY <1>4, <1>6, Fields DEF NodeFields
  <2> HIDE DEF rk, rc, lk, lc, key, z, old
  <2>3. node' = [node EXCEPT ![c].keys = lk, ![c].children = lc, ![z].parent = c,
                             ![r].keys = rk, ![r].children = rc, ![p].keys[i] = key]
    BY <1>4, <1>6, <1>90, <2>1, <2>2 DEF rk, rc, lk, lc
  <2> QED BY <2>3 DEF NodesPut
<1> HIDE DEF kl, cl, kr, cr, K, C, rk, rc, lk, lc, key, z, old
<1>11. Encloses(K, kl, old, kr) /\ Joins(C, cl, cr)
  BY DEF Joins, Encloses, K, C
<1>12. /\ CutAround(K, m, lk, rk) /\ K[Len(kl) + 2] = key /\ lk \in Seq(Keys) /\ rk \in Seq(Keys) /\ key \in Keys
       /\ Len(K) = Len(kl) + 1 + Len(kr)
  <2>1. kl \in Seq(Keys) /\ kr \in Seq(Keys) /\ old \in Keys /\ Len(kr) > 0 /\ Encloses(K, kl, old, kr)
    BY <1>7, <1>9, <1>11
  <2>2. /\ CutAround(K, Len(kl) + 1, Append(kl, old), Tail(kr)) /\ K[Len(kl) + 2] = Head(kr)
        /\ Append(kl, old) \in Seq(Keys) /\ Tail(kr) \in Seq(Keys) /\ Head(kr) \in Keys
        /\ Len(K) = Len(kl) + 1 + Len(kr)
    BY <2>1, RotateLater
  <2> QED BY <2>2 DEF lk, rk, key
<1>16. /\ m \in Nat /\ m >= MinInternalKeys /\ m <= MaxKeys /\ Len(K) - m - 1 >= MinInternalKeys
       /\ Len(K) - m - 1 <= MaxKeys /\ m + 1 = Len(kl) + 2 /\ m + 1 = Len(cl) + 1
       /\ Len(kl) + 1 \in Nat /\ m + 1 \in Nat
  <2>1. /\ Len(kl) \in Nat /\ Len(kr) \in Nat /\ Len(kr) > MinInternalKeys /\ Len(kr) <= MaxKeys
        /\ Len(kl) = MinInternalKeys - 1
    BY <1>5, <1>7, <1>8
  <2>2. /\ m \in Nat /\ m >= MinInternalKeys /\ m <= MaxKeys
        /\ Len(kr) - 1 >= MinInternalKeys /\ Len(kr) - 1 <= MaxKeys
        /\ (Len(kl) + 1 + Len(kr)) - m - 1 = Len(kr) - 1
    BY <2>1, SpareCounts
  <2>3. Len(K) - m - 1 >= MinInternalKeys /\ Len(K) - m - 1 <= MaxKeys
    BY <1>12, <2>2
  <2>4. m + 1 = Len(kl) + 2 /\ m + 1 = Len(cl) + 1 /\ Len(kl) + 1 \in Nat /\ m + 1 \in Nat
    BY <1>7, <1>80
  <2> QED BY <2>2, <2>3, <2>4
<1>13. CutAt(C, m + 1, lc, rc) /\ lc \in Seq(Nat) /\ rc \in Seq(Nat)
  <2>1. CutAt(C, Len(cl) + 1, lc, rc) /\ lc \in Seq(Nat) /\ rc \in Seq(Nat)
    BY <1>7, <1>9, <1>11, CutLater DEF lc, rc, z
  <2> QED BY <1>16, <2>1
<1>14. /\ ChildPassed(node, node', c, r, z, p, i, key)
       /\ node'[c].keys = lk /\ node'[c].children = lc /\ node'[r].keys = rk /\ node'[r].children = rc
  <2>1. Four(node, c, r, z, p, i)
    BY <1>4, <1>5, <1>6, <1>90 DEF Four, Three
  <2>2. NodeLists(lk, lc) /\ NodeLists(rk, rc)
    BY <1>12, <1>13 DEF NodeLists
  <2> QED BY <1>10, <1>12, <2>1, <2>2, NodesAssigned
<1>15. Encloses(K, node[c].keys, node[p].keys[i], node[r].keys) /\ Joins(C, node[c].children, node[r].children)
  BY <1>11 DEF kl, kr, cl, cr, old
<1> HIDE DEF m
<1>17. /\ Brood(node, C, c, r, Len(kl) + 1) /\ Len(C) = Len(K) + 1
       /\ \A x \in 1..Len(C) : C[x] \in DOMAIN node
  <2>1. /\ NodeRun(DOMAIN node, h, lo, hi, h[c], K, C, lo[c], hi[r])
        /\ Brood(node, C, c, r, Len(node[c].keys) + 1)
    BY <1>4, <1>50, <1>6, <1>15, NodesJoin
  <2> QED BY <2>1 DEF NodeRun, kl
<1>18. NodeMoved(node, node', p, i, c, r, K[m + 1], C, m + 1)
  <2> DEFINE q == Len(kl) + 1
             q1 == q + 1
  <2>1. q \in Nat /\ q + 1 \in 1..Len(C) /\ m + 1 = q + 1 /\ q + 1 \in Nat
    BY <1>7, <1>12, <1>16, <1>17
  <2>2. z = C[q + 1]
    <3>1. C = cl \o cr /\ ~(q1 <= Len(cl)) /\ q1 - Len(cl) = 1 /\ q1 \in 1..Len(cl) + Len(cr)
      BY <1>7, <1>80 DEF C
    <3> HIDE DEF q1
    <3>2. (cl \o cr)[q1] = cr[q1 - Len(cl)]
      BY <1>7, <3>1, JoinElements
    <3>3. C[q1] = cr[1]
      BY <3>1, <3>2
    <3> QED BY <1>90, <3>3 DEF q1
  <2>3. key = K[m + 1]
    BY <1>12, <1>16
  <2>4. ChildPassed(node, node', c, r, z, p, i, K[m + 1]) /\ {c, r} = {c, r}
    BY <1>14, <2>3
  <2>5. Brood(node, C, c, r, q)
    BY <1>17
  <2> HIDE DEF q
  <2> QED BY <1>6, <1>16, <1>17, <2>1, <2>2, <2>4, <2>5, PassedIsMoved
<1>19. /\ CutAround(K, m, node'[c].keys, node'[r].keys)
       /\ CutAt(C, m + 1, node'[c].children, node'[r].children)
  BY <1>12, <1>13, <1>14
<1>20. /\ \E lo2, hi2 : Resting(node', root, h, lo2, hi2, Null, Null)
       /\ SamePostings(node, node')
  BY <1>4, <1>50, <1>6, <1>15, <1>16, <1>18, <1>19, NodeMovedKeeps
<1>21. size' = Cardinality(KeysOf(node')) /\ IsFiniteSet(KeysOf(node'))
  BY <1>1, <1>20, SizeAgain
<1>22. PICK lo2, hi2 : Resting(node', root', h, lo2, hi2, Null, Null)
  BY <1>1, <1>20
<1>23. IInv'
  BY <1>1, <1>2, <1>21, <1>22, RestAgain
<1> QED BY <1>20, <1>23

-----------------------------------------------------------------------------
(* Merging. *)

\* l and r, the i-th child of p and the next one, are to be merged.
Mergeable(h, lo, hi, p, i, l, r, short) ==
    /\ Resting(node, root, h, lo, hi, Null, short) /\ short \in {l, r}
    /\ Pair(node, p, i, l, r)
    /\ Len(node[l].keys) + Len(node[r].keys) = MinimumOf(node[l].leaf) - 1 + MinimumOf(node[l].leaf)

\* A node that is not the root and not short has the least it may have, at least.
LEMMA NotShort ==
  ASSUME NEW heap, NEW top, NEW h, NEW lo, NEW hi, NEW short,
         Resting(heap, top, h, lo, hi, Null, short), NEW a \in DOMAIN heap, a # top, a # short
  PROVE  Len(heap[a].keys) >= MinimumOf(heap[a].leaf)
<1>1. FilledAt(heap, top, Null, short, a)
  BY Parts DEF Filled
<1> QED BY <1>1 DEF FilledAt

\* The two nodes that Merge, or an exception in it, is about.
Folding(l, r) == /\ l = IF LeftSibling # Null THEN LeftSibling ELSE Callee
                /\ r = IF LeftSibling # Null THEN Callee ELSE RightSibling

\* What is folded is a node that is a key short and a sibling without a key to spare.
LEMMA WhenFolding ==
  ASSUME IInv, Underflow, ~CanSpare(LeftSibling), ~CanSpare(RightSibling)
  PROVE  /\ Rest \in After
         /\ \E h, lo, hi, p, i, l, r : /\ Mergeable(h, lo, hi, p, i, l, r, Callee)
                                       /\ Folding(l, r)
                                       /\ p = Parent
                                       /\ Len(node[Callee].keys) = MinimumOf(node[Callee].leaf) - 1
<1>1. Underflow /\ ~CanSpare(LeftSibling) /\ ~CanSpare(RightSibling)
  OBVIOUS
<1>2. Rest \in After
  BY <1>1, WhenUnderflow
<1>3. PICK h, lo, hi, p, i, c : Short(h, lo, hi, p, i, c)
  BY <1>1, WhenUnderflow
<1> DEFINE ks == node[p].keys
           cs == node[p].children
           least == MinimumOf(node[c].leaf)
<1>4. /\ Resting(node, root, h, lo, hi, Null, c) /\ Heap(node) /\ c \in DOMAIN node /\ c # root
      /\ Kinds(node, h) /\ Ordered(node, lo, hi) /\ Down(node, h, lo, hi, Null, Null)
      /\ p \in DOMAIN node /\ ~node[p].leaf /\ p # Null /\ p = Parent /\ c = Callee
  BY <1>3 DEF Short
<1>5. /\ i \in 1..Len(ks) + 1 /\ i \in Nat /\ cs[i] = c /\ Len(ks) \in Nat
      /\ Len(node[c].keys) = least - 1
      /\ LeftSibling = IF i > 1 THEN cs[i - 1] ELSE Null
      /\ RightSibling = IF i < Len(ks) + 1 THEN cs[i + 1] ELSE Null
  BY <1>3 DEF Short
<1>6. \A s : CanSpare(s) <=> s # Null /\ Len(node[s].keys) > least
  BY <1>3 DEF Short
<1>7. least \in Nat /\ Len(node[c].keys) \in Nat
  <2>1. node[c].leaf \in BOOLEAN /\ Len(node[c].keys) \in Nat
    BY <1>4, Fields
  <2> QED BY <2>1, Bounds0 DEF MinimumOf
<1>8. ASSUME NEW s \in DOMAIN node, s # Null, s # root, s # c, node[s].leaf <=> node[c].leaf, ~CanSpare(s)
      PROVE  Len(node[s].keys) = least
  <2>1. ~(Len(node[s].keys) > least) /\ Len(node[s].keys) \in Nat
    BY <1>4, <1>6, <1>8, Fields
  <2>2. Len(node[s].keys) >= MinimumOf(node[s].leaf)
    BY <1>4, <1>8, NotShort
  <2>3. MinimumOf(node[s].leaf) = least
    BY <1>8 DEF MinimumOf
  <2> QED BY <1>7, <2>1, <2>2, <2>3
<1>9. \A b \in DOMAIN node : b # Null
  BY <1>4, Parts
<1>10. CASE LeftSibling # Null
  <2> DEFINE j == i - 1
             l == cs[j]
  <2>1. j \in 1..Len(ks) /\ LeftSibling = l /\ j + 1 = i
    BY <1>5, <1>10
  <2> HIDE DEF j, cs
  <2>2. Pair(node, p, j, l, c)
    BY <1>4, <1>5, <2>1 DEF Pair, cs
  <2>3. l \in DOMAIN node /\ l # c /\ l # root /\ (node[l].leaf <=> node[c].leaf)
    BY <1>4, <2>2, Neighbours DEF Pair
  <2>4. Len(node[l].keys) = least
    BY <1>1, <1>8, <1>9, <2>1, <2>3
  <2>5. MinimumOf(node[l].leaf) = least
    BY <2>3 DEF MinimumOf
  <2>6. Len(node[l].keys) + Len(node[c].keys) = MinimumOf(node[l].leaf) - 1 + MinimumOf(node[l].leaf)
    <3> HIDE DEF least
    <3> QED BY <1>5, <1>7, <2>4, <2>5
  <2>7. Folding(l, c)
    BY <1>4, <1>10, <2>1 DEF Folding
  <2>8. Mergeable(h, lo, hi, p, j, l, c, c)
    BY <1>4, <2>2, <2>6 DEF Mergeable
  <2> QED BY <1>2, <1>4, <1>5, <2>7, <2>8
<1>11. CASE LeftSibling = Null
  <2> DEFINE r == cs[i + 1]
  <2>1. i = 1
    <3>1. CASE i > 1
      <4>1. i - 1 \in 1..Len(ks) + 1 /\ LeftSibling = cs[i - 1]
        BY <1>5, <3>1
      <4>2. cs[i - 1] \in DOMAIN node
        BY <1>4, <4>1, ChildrenApart
      <4> QED BY <1>9, <1>11, <4>1, <4>2
    <3> QED BY <1>5, <3>1
  <2>2. Len(ks) >= 1
    <3>1. h[c] + 1 = h[p] /\ h[c] \in Nat
      <4>1. h[cs[i]] + 1 = h[p]
        BY <1>4, <1>5, ChildrenApart
      <4> QED BY <1>4, <1>5, <4>1, Parts
    <3>2. p # c
      BY <3>1
    <3>3. FilledAt(node, root, Null, c, p)
      BY <1>4, Parts DEF Filled
    <3>4. MinimumOf(node[p].leaf) >= 1 /\ MinimumOf(node[p].leaf) \in Nat
      BY <1>4, Bounds0 DEF MinimumOf
    <3> HIDE DEF least
    <3> QED BY <1>5, <3>2, <3>3, <3>4 DEF FilledAt
  <2>3. i \in 1..Len(ks) /\ RightSibling = r
    BY <1>5, <2>1, <2>2
  <2> HIDE DEF cs
  <2>4. Pair(node, p, i, c, r)
    BY <1>4, <1>5, <2>3 DEF Pair, cs
  <2>5. r \in DOMAIN node /\ r # c /\ r # root /\ (node[r].leaf <=> node[c].leaf)
    BY <1>4, <2>4, Neighbours DEF Pair
  <2>6. Len(node[r].keys) = least
    BY <1>1, <1>8, <1>9, <2>3, <2>5
  <2>7. Len(node[c].keys) + Len(node[r].keys) = MinimumOf(node[c].leaf) - 1 + MinimumOf(node[c].leaf)
    <3>1. least = MinimumOf(node[c].leaf)
      OBVIOUS
    <3> HIDE DEF least
    <3> QED BY <1>5, <1>7, <2>6, <3>1
  <2>8. Folding(c, r)
    BY <1>4, <1>11, <2>3 DEF Folding
  <2>9. Mergeable(h, lo, hi, p, i, c, r, c)
    BY <1>4, <2>4, <2>7 DEF Mergeable
  <2> QED BY <1>2, <1>4, <1>5, <2>8, <2>9
<1> QED BY <1>10, <1>11

\* Merge folds them.
LEMMA WhenMerge ==
  ASSUME IInv, Merge
  PROVE  /\ Rest \in After
         /\ \E h, lo, hi, p, i, l, r, short : /\ Mergeable(h, lo, hi, p, i, l, r, short)
                                              /\ MergeNodes(l, r)
                                              /\ p = Parent
<1>1. Underflow /\ ~CanSpare(LeftSibling) /\ ~CanSpare(RightSibling)
  BY DEF Merge
<1>2. \A l, r : Folding(l, r) => MergeNodes(l, r)
  BY DEF Merge, Folding
<1> QED BY <1>1, <1>2, WhenFolding

\* The heap after r has been folded into l, which has become n.
Survived(heap, heap2, p, i, l, r, n) ==
    heap2 = [a \in DOMAIN heap \ {r} |->
                IF a = l THEN n
                ELSE IF a = p THEN [heap[a] EXCEPT !.keys = RemoveAt(@, i), !.children = RemoveAt(@, i + 1)]
                ELSE IF a = heap[r].next THEN [heap[a] EXCEPT !.previous = l]
                ELSE IF a \in ToSet(heap[r].children) THEN [heap[a] EXCEPT !.parent = l]
                ELSE heap[a]]

\* The nodes that MergeNodes changes are different ones.
LEMMA SurvivorsApart ==
  ASSUME NEW heap, NEW top, NEW h, NEW lo, NEW hi, NEW over, NEW short,
         Resting(heap, top, h, lo, hi, over, short),
         NEW p, NEW i, NEW l, NEW r, Pair(heap, p, i, l, r)
  PROVE  /\ heap[r].next \notin {l, p}
         /\ \A a \in ToSet(heap[r].children) : /\ a \notin {l, p, r, heap[r].next} /\ a \in DOMAIN heap
                                               /\ heap[a].parent = r
         /\ \A a \in DOMAIN heap : heap[a].parent = r => a \in ToSet(heap[r].children)
         /\ heap[r].leaf => heap[r].next # r
         /\ ~heap[r].leaf => heap[r].next \notin DOMAIN heap
         /\ heap[r].leaf => ToSet(heap[r].children) = {}
<1>1. /\ Heap(heap) /\ Kinds(heap, h) /\ Ordered(heap, lo, hi) /\ Down(heap, h, lo, hi, Null, Null)
      /\ Up(heap, top, Null) /\ Chain(heap, top, lo, hi, Null, Null)
      /\ \A b \in DOMAIN heap : h[b] \in Nat /\ b # Null /\ lo[b] \in Int /\ hi[b] \in Int /\ lo[b] < hi[b]
  BY Parts
<1>2. /\ l \in DOMAIN heap /\ r \in DOMAIN heap /\ l # r /\ p # l /\ p # r /\ (heap[l].leaf <=> heap[r].leaf)
      /\ h[l] = h[r] /\ h[l] + 1 = h[p] /\ hi[l] = lo[r] /\ p \in DOMAIN heap /\ ~heap[p].leaf
  BY Neighbours DEF Pair
<1>3. KindOf(heap, h, r) /\ r # Null /\ l # Null /\ p # Null
  BY <1>1, <1>2 DEF Kinds
<1>4. CASE heap[r].leaf
  <2>1. heap[r].children = << >>
    BY <1>3, <1>4 DEF KindOf
  <2>2. ToSet(heap[r].children) = {}
    BY <2>1 DEF ToSet
  <2>3. Linked(heap, top, lo, hi, Null, Null, r)
    BY <1>1, <1>2, <1>4 DEF Chain
  <2>4. heap[r].next # Null => heap[heap[r].next].leaf /\ lo[heap[r].next] = hi[r]
    BY <2>3 DEF Linked
  <2>5. heap[r].next # l /\ heap[r].next # p /\ heap[r].next # r
    BY <1>1, <1>2, <1>3, <2>4
  <2>6. \A a \in DOMAIN heap : heap[a].parent # r
    BY <1>2, <1>4, NextIsOther
  <2> QED BY <1>4, <2>2, <2>5, <2>6
<1>5. CASE ~heap[r].leaf
  <2>1. heap[r].next = Null /\ heap[r].next \notin DOMAIN heap
    BY <1>1, <1>3, <1>5 DEF KindOf
  <2> DEFINE cs == heap[r].children
  <2>2. /\ Len(cs) = Len(heap[r].keys) + 1
        /\ \A j \in 1..Len(heap[r].keys) + 1 : cs[j] \in DOMAIN heap /\ heap[cs[j]].parent = r /\ h[cs[j]] + 1 = h[r]
    BY <1>1, <1>2, <1>5, ChildrenApart
  <2>20. cs \in Seq(Nat)
    BY <1>1, <1>2, Fields
  <2> HIDE DEF cs
  <2>3. ToSet(cs) = {cs[j] : j \in 1..Len(cs)}
    BY <2>20 DEF ToSet
  <2>4. ASSUME NEW a \in ToSet(cs)
        PROVE  a \notin {l, p, r, heap[r].next} /\ a \in DOMAIN heap /\ heap[a].parent = r
    <3>1. a \in DOMAIN heap /\ heap[a].parent = r /\ h[a] + 1 = h[r]
      BY <2>2, <2>3, <2>4
    <3>2. a # l /\ a # p /\ a # r
      BY <1>1, <1>2, <3>1
    <3> QED BY <2>1, <3>1, <3>2
  <2>5. ASSUME NEW a \in DOMAIN heap, heap[a].parent = r PROVE a \in ToSet(cs)
    <3>1. IsChild(heap, r, a)
      BY <1>1, <1>3, <2>5 DEF Up
    <3>2. \E j \in 1..Len(cs) : cs[j] = a
      BY <3>1 DEF IsChild, cs
    <3> QED BY <2>3, <3>2
  <2>6. heap[r].next \notin {l, p}
    BY <1>3, <2>1
  <2> QED BY <1>5, <2>1, <2>4, <2>5, <2>6 DEF cs
<1> QED BY <1>4, <1>5

\* The node that l becomes.
MergedNode(heap, p, i, l, r) ==
    IF heap[l].leaf
    THEN [heap[l] EXCEPT !.keys = @ \o heap[r].keys, !.values = @ \o heap[r].values, !.next = heap[r].next]
    ELSE [heap[l] EXCEPT !.keys = @ \o <<heap[p].keys[i]>> \o heap[r].keys,
                         !.children = @ \o heap[r].children]

\* What MergeNodes does to every node.
LEMMA MergeNodesSurvive ==
  ASSUME NEW h, NEW lo, NEW hi, NEW over, NEW short,
         Resting(node, root, h, lo, hi, over, short),
         NEW p, NEW i, NEW l, NEW r, Pair(node, p, i, l, r), MergeNodes(l, r)
  PROVE  Survived(node, node', p, i, l, r, MergedNode(node, p, i, l, r))
<1> DEFINE n == MergedNode(node, p, i, l, r)
           CaseOf(a) == CASE a = l -> n
                          [] a = p -> [node[a] EXCEPT !.keys = RemoveAt(@, i), !.children = RemoveAt(@, i + 1)]
                          [] a = node[r].next -> [node[a] EXCEPT !.previous = l]
                          [] a \in ToSet(node[r].children) -> [node[a] EXCEPT !.parent = l]
                          [] OTHER -> node[a]
           IfOf(a) == IF a = l THEN n
                ELSE IF a = p THEN [node[a] EXCEPT !.keys = RemoveAt(@, i), !.children = RemoveAt(@, i + 1)]
                ELSE IF a = node[r].next THEN [node[a] EXCEPT !.previous = l]
                ELSE IF a \in ToSet(node[r].children) THEN [node[a] EXCEPT !.parent = l]
                ELSE node[a]
<1>1. node[l].parent = p /\ p # l /\ node[l].leaf \in BOOLEAN
  BY Neighbours, Parts, Fields, SMTT(20) DEF Pair
<1>2. ChildIndex(p, r) = i
  <2>1. /\ Heap(node) /\ Kinds(node, h) /\ Ordered(node, lo, hi) /\ Down(node, h, lo, hi, Null, Null)
    BY Parts
  <2>2. p \in DOMAIN node /\ ~node[p].leaf /\ i \in 1..Len(node[p].keys) /\ r = node[p].children[i + 1]
    BY DEF Pair
  <2>3. i + 1 \in 1..Len(node[p].keys) + 1 /\ i + 1 - 1 = i
    BY <2>1, <2>2, Fields
  <2>4. ChildIndex(p, node[p].children[i + 1]) = i + 1 - 1
    BY <2>1, <2>2, <2>3, ChildIndexFinds
  <2> QED BY <2>2, <2>3, <2>4
<1>3. n = IF node[l].leaf
          THEN [node[l] EXCEPT !.keys = @ \o node[r].keys, !.values = @ \o node[r].values, !.next = node[r].next]
          ELSE [node[l] EXCEPT !.keys = @ \o <<node[p].keys[i]>> \o node[r].keys,
                               !.children = @ \o node[r].children]
  BY DEF MergedNode
<1> HIDE DEF n
<1> DEFINE Whole2(q, x) ==
             IF node[l].leaf
             THEN [node[l] EXCEPT !.keys = @ \o node[r].keys, !.values = @ \o node[r].values, !.next = node[r].next]
             ELSE [node[l] EXCEPT !.keys = @ \o <<node[q].keys[x]>> \o node[r].keys,
                                  !.children = @ \o node[r].children]
           All(q, x) ==
             [a \in DOMAIN node \ {r} |->
                CASE a = l -> Whole2(q, x)
                  [] a = q -> [node[a] EXCEPT !.keys = RemoveAt(@, x), !.children = RemoveAt(@, x + 1)]
                  [] a = node[r].next -> [node[a] EXCEPT !.previous = l]
                  [] a \in ToSet(node[r].children) -> [node[a] EXCEPT !.parent = l]
                  [] OTHER -> node[a]]
<1>40. node' = All(node[l].parent, ChildIndex(node[l].parent, r))
  BY DEF MergeNodes
<1>41. All(p, i) = [a \in DOMAIN node \ {r} |-> CaseOf(a)]
  BY <1>3
<1> HIDE DEF All
<1>4. node' = [a \in DOMAIN node \ {r} |-> CaseOf(a)]
  <2>1. node' = All(p, i)
    BY <1>1, <1>2, <1>40
  <2> QED BY <1>41, <2>1
<1>5. /\ node[r].next \notin {l, p}
      /\ \A a \in ToSet(node[r].children) : a \notin {l, p, r, node[r].next}
  BY SurvivorsApart
<1>6. \A a \in DOMAIN node \ {r} : CaseOf(a) = IfOf(a)
  BY <1>1, <1>5
<1>7. node' = [a \in DOMAIN node \ {r} |-> IfOf(a)]
  BY <1>4, <1>6
<1> QED BY <1>7 DEF Survived, n

\* What Survived changes, but for the contents of l.
Folded(heap, heap2, p, i, l, r) ==
    /\ Heap(heap2) /\ DOMAIN heap2 = DOMAIN heap \ {r}
    /\ \A b \in DOMAIN heap2 : /\ heap2[b].leaf = heap[b].leaf
                               /\ heap2[b].next = IF b = l THEN heap[r].next ELSE heap[b].next
                               /\ heap2[b].previous = IF b = heap[r].next THEN l ELSE heap[b].previous
                               /\ heap2[b].parent = IF heap[b].parent = r THEN l ELSE heap[b].parent
    /\ \A b \in DOMAIN heap2 : b \notin {p, l} =>
          /\ heap2[b].keys = heap[b].keys /\ heap2[b].values = heap[b].values
          /\ heap2[b].children = heap[b].children
    /\ heap2[p].values = heap[p].values
    /\ Len(heap2[p].keys) = Len(heap[p].keys) - 1
    /\ Len(heap2[p].children) = Len(heap[p].children) - 1
    /\ \A j \in 1..Len(heap[p].keys) - 1 :
          heap2[p].keys[j] = IF j < i THEN heap[p].keys[j] ELSE heap[p].keys[j + 1]
    /\ \A j \in 1..Len(heap[p].keys) :
          heap2[p].children[j] = IF j < i + 1 THEN heap[p].children[j] ELSE heap[p].children[j + 1]

\* The node that takes the place of l keeps its kind and its place, but for the next leaf.
Takes(heap, n, l, r) ==
    /\ n \in NodeFields /\ n.leaf = heap[l].leaf /\ n.parent = heap[l].parent
    /\ n.next = heap[r].next /\ n.previous = heap[l].previous

\* The fields of every node after MergeNodes.
LEMMA SurvivedFields ==
  ASSUME NEW heap, NEW top, NEW h, NEW lo, NEW hi, NEW over, NEW short,
         Resting(heap, top, h, lo, hi, over, short),
         NEW p, NEW i, NEW l, NEW r, Pair(heap, p, i, l, r), NEW n, Takes(heap, n, l, r),
         NEW heap2, Survived(heap, heap2, p, i, l, r, n)
  PROVE  Folded(heap, heap2, p, i, l, r) /\ heap2[l] = n
<1> DEFINE ks == RemoveAt(heap[p].keys, i)
           cs == RemoveAt(heap[p].children, i + 1)
           np == [heap[p] EXCEPT !.keys = ks, !.children = cs]
           next == heap[r].next
           brood == ToSet(heap[r].children)
<1>1. /\ Heap(heap) /\ Kinds(heap, h) /\ Ordered(heap, lo, hi) /\ Down(heap, h, lo, hi, Null, Null)
      /\ l \in DOMAIN heap /\ r \in DOMAIN heap /\ p \in DOMAIN heap /\ l # r /\ p # l /\ p # r /\ ~heap[p].leaf
      /\ i \in 1..Len(heap[p].keys) /\ heap[l].parent = p /\ heap[r].parent = p
      /\ (heap[l].leaf <=> heap[r].leaf)
  <2>1. Heap(heap) /\ Kinds(heap, h) /\ Ordered(heap, lo, hi) /\ Down(heap, h, lo, hi, Null, Null)
    BY Parts
  <2>2. /\ p \in DOMAIN heap /\ ~heap[p].leaf /\ i \in 1..Len(heap[p].keys)
        /\ l = heap[p].children[i] /\ r = heap[p].children[i + 1]
    BY DEF Pair
  <2>3. /\ l \in DOMAIN heap /\ r \in DOMAIN heap /\ l # r /\ p # l /\ p # r
        /\ heap[l].parent = p /\ heap[r].parent = p /\ (heap[l].leaf <=> heap[r].leaf)
    BY <2>2, Neighbours
  <2> QED BY <2>1, <2>2, <2>3
<1>2. /\ next \notin {l, p}
      /\ \A a \in brood : a \notin {l, p, r, next} /\ a \in DOMAIN heap /\ heap[a].parent = r
      /\ \A a \in DOMAIN heap : heap[a].parent = r => a \in brood
      /\ heap[p].parent # r /\ heap[l].parent # r
      /\ heap[r].leaf => next # r
      /\ ~heap[r].leaf => next \notin DOMAIN heap
  BY <1>1, SurvivorsApart
<1>3. \A a \in DOMAIN heap : heap[a] \in NodeFields /\ a \in Nat
  BY <1>1, Fields
<1>4. /\ heap[p].keys \in Seq(Keys) /\ heap[p].children \in Seq(Nat)
      /\ Len(heap[p].children) = Len(heap[p].keys) + 1 /\ Len(heap[p].keys) \in Nat
  BY <1>1, Fields, ChildrenApart
<1>5. /\ ks \in Seq(Keys) /\ Len(ks) = Len(heap[p].keys) - 1
      /\ \A j \in 1..Len(heap[p].keys) - 1 : ks[j] = IF j < i THEN heap[p].keys[j] ELSE heap[p].keys[j + 1]
  BY <1>1, <1>4, RemoveAtElements
<1>6. /\ cs \in Seq(Nat) /\ Len(cs) = Len(heap[p].children) - 1
      /\ \A j \in 1..Len(heap[p].keys) :
            cs[j] = IF j < i + 1 THEN heap[p].children[j] ELSE heap[p].children[j + 1]
  <2> DEFINE all == heap[p].children
  <2>1. all \in Seq(Nat) /\ i + 1 \in 1..Len(all) /\ Len(all) - 1 = Len(heap[p].keys)
    BY <1>1, <1>4
  <2> HIDE DEF all
  <2>2. /\ RemoveAt(all, i + 1) \in Seq(Nat) /\ Len(RemoveAt(all, i + 1)) = Len(all) - 1
        /\ \A j \in 1..Len(all) - 1 : RemoveAt(all, i + 1)[j] = IF j < i + 1 THEN all[j] ELSE all[j + 1]
    BY <2>1, RemoveAtElements
  <2> QED BY <2>1, <2>2 DEF all
<1>7. heap2 = [a \in DOMAIN heap \ {r} |->
                  IF a = l THEN n
                  ELSE IF a = p THEN np
                  ELSE IF a = next THEN [heap[a] EXCEPT !.previous = l]
                  ELSE IF a \in brood THEN [heap[a] EXCEPT !.parent = l]
                  ELSE heap[a]]
  <2>1. [heap[p] EXCEPT !.keys = RemoveAt(@, i), !.children = RemoveAt(@, i + 1)] = np
    <3>1. heap[p] \in NodeFields
      BY <1>1, <1>3
    <3>2. [heap[p] EXCEPT !.keys = ks].children = heap[p].children
      BY <3>1 DEF NodeFields
    <3> HIDE DEF ks
    <3> QED BY <3>2 DEF ks
  <2> HIDE DEF np, brood, next
  <2>2. \A a \in DOMAIN heap \ {r} :
           (IF a = l THEN n
            ELSE IF a = p THEN [heap[a] EXCEPT !.keys = RemoveAt(@, i), !.children = RemoveAt(@, i + 1)]
            ELSE IF a = next THEN [heap[a] EXCEPT !.previous = l]
            ELSE IF a \in brood THEN [heap[a] EXCEPT !.parent = l]
            ELSE heap[a])
           = (IF a = l THEN n
              ELSE IF a = p THEN np
              ELSE IF a = next THEN [heap[a] EXCEPT !.previous = l]
              ELSE IF a \in brood THEN [heap[a] EXCEPT !.parent = l]
              ELSE heap[a])
    BY <2>1
  <2> QED BY <2>2 DEF Survived, next, brood
<1> HIDE DEF ks, cs
<1>8. /\ np \in NodeFields /\ np.keys = ks /\ np.children = cs /\ np.leaf = heap[p].leaf
      /\ np.values = heap[p].values /\ np.parent = heap[p].parent /\ np.next = heap[p].next
      /\ np.previous = heap[p].previous
  <2> DEFINE m == heap[p]
  <2>1. m \in NodeFields
    BY <1>1, <1>3
  <2> HIDE DEF m
  <2>2. LET m2 == [m EXCEPT !.keys = ks, !.children = cs]
        IN  /\ m2 \in NodeFields /\ m2.keys = ks /\ m2.children = cs /\ m2.leaf = m.leaf
            /\ m2.values = m.values /\ m2.parent = m.parent /\ m2.next = m.next
            /\ m2.previous = m.previous
    BY <1>5, <1>6, <2>1 DEF NodeFields
  <2> QED BY <2>2 DEF m
<1> HIDE DEF np, next, brood
<1>9. DOMAIN heap2 = DOMAIN heap \ {r} /\ heap2 = [b \in DOMAIN heap2 |-> heap2[b]]
      /\ heap2[l] = n /\ heap2[p] = np
  BY <1>1, <1>7
<1>10. /\ n \in NodeFields /\ n.leaf = heap[l].leaf /\ n.parent = heap[l].parent
       /\ n.next = next /\ n.previous = heap[l].previous
  BY DEF Takes, next
<1>11. ASSUME NEW b \in DOMAIN heap2, b # l, b # p
       PROVE  /\ heap2[b] \in NodeFields /\ heap2[b].leaf = heap[b].leaf /\ heap2[b].keys = heap[b].keys
              /\ heap2[b].values = heap[b].values /\ heap2[b].children = heap[b].children
              /\ heap2[b].next = heap[b].next
              /\ heap2[b].previous = IF b = next THEN l ELSE heap[b].previous
              /\ heap2[b].parent = IF heap[b].parent = r THEN l ELSE heap[b].parent
  <2> DEFINE m == heap[b]
  <2>0. b \in DOMAIN heap /\ b # r /\ m \in NodeFields /\ l \in Nat
    BY <1>1, <1>3, <1>9
  <2>1. CASE b = next
    <3>1. heap2[b] = [m EXCEPT !.previous = l]
      BY <1>7, <1>9, <1>11, <2>1
    <3>2. heap[b].parent # r
      BY <1>2, <2>0, <2>1
    <3> HIDE DEF m
    <3>3. /\ heap2[b] \in NodeFields /\ heap2[b].previous = l
          /\ heap2[b].leaf = m.leaf /\ heap2[b].keys = m.keys /\ heap2[b].values = m.values
          /\ heap2[b].children = m.children /\ heap2[b].next = m.next /\ heap2[b].parent = m.parent
      BY <2>0, <3>1, PreviousAssigned
    <3> QED BY <2>1, <3>2, <3>3 DEF m
  <2>2. CASE b # next /\ b \in brood
    <3>1. heap2[b] = [m EXCEPT !.parent = l]
      BY <1>7, <1>9, <1>11, <2>2
    <3>2. heap[b].parent = r
      BY <1>2, <2>2
    <3> HIDE DEF m
    <3>3. /\ heap2[b] \in NodeFields /\ heap2[b].parent = l
          /\ heap2[b].leaf = m.leaf /\ heap2[b].keys = m.keys /\ heap2[b].values = m.values
          /\ heap2[b].children = m.children /\ heap2[b].next = m.next /\ heap2[b].previous = m.previous
      BY <2>0, <3>1, ParentAssigned
    <3> QED BY <2>2, <3>2, <3>3 DEF m
  <2>3. CASE b # next /\ b \notin brood
    <3>1. heap2[b] = m
      BY <1>7, <1>9, <1>11, <2>3
    <3>2. heap[b].parent # r
      BY <1>2, <2>0, <2>3
    <3> QED BY <2>0, <2>3, <3>1, <3>2
  <2> QED BY <2>1, <2>2, <2>3
<1>12. Heap(heap2)
  <2>1. \A b \in DOMAIN heap2 : heap2[b] \in NodeFields
    BY <1>8, <1>9, <1>10, <1>11
  <2>2. IsFiniteSet(DOMAIN heap2) /\ DOMAIN heap2 \subseteq Nat \ {Null}
    <3>1. IsFiniteSet(DOMAIN heap) /\ DOMAIN heap \subseteq Nat \ {Null}
      BY <1>1 DEF Heap
    <3> QED BY <1>9, <3>1, FS_Subset
  <2> QED BY <1>9, <2>1, <2>2, HeapOf
<1>13. \A b \in DOMAIN heap2 : /\ heap2[b].leaf = heap[b].leaf
                               /\ heap2[b].next = IF b = l THEN next ELSE heap[b].next
                               /\ heap2[b].previous = IF b = next THEN l ELSE heap[b].previous
                               /\ heap2[b].parent = IF heap[b].parent = r THEN l ELSE heap[b].parent
  <2> TAKE b \in DOMAIN heap2
  <2>1. CASE b = l
    BY <1>1, <1>2, <1>9, <1>10, <2>1
  <2>2. CASE b = p
    BY <1>1, <1>2, <1>8, <1>9, <2>2
  <2>3. CASE b # l /\ b # p
    BY <1>11, <2>3
  <2> QED BY <2>1, <2>2, <2>3
<1>14. \A b \in DOMAIN heap2 : b \notin {p, l} =>
          /\ heap2[b].keys = heap[b].keys /\ heap2[b].values = heap[b].values
          /\ heap2[b].children = heap[b].children
  BY <1>11
<1>15. Folded(heap, heap2, p, i, l, r)
  BY <1>5, <1>6, <1>8, <1>9, <1>12, <1>13, <1>14 DEF Folded, next
<1> QED BY <1>9, <1>15

\* The nodes below the two are below l now.
LEMMA FoldedIsMerged ==
  ASSUME NEW heap, NEW heap2, NEW p, NEW i, NEW l, NEW r, Folded(heap, heap2, p, i, l, r),
         \A b \in DOMAIN heap2 : heap[b].parent \in {l, r} => IsChild(heap2, l, b)
  PROVE  Merged(heap, heap2, p, i, l, r)
<1>1. \A b \in DOMAIN heap2 : IF heap[b].parent \in {l, r}
                              THEN heap2[b].parent = l /\ IsChild(heap2, l, b)
                              ELSE heap2[b].parent = heap[b].parent
  BY DEF Folded
<1>2. /\ Heap(heap2) /\ DOMAIN heap2 = DOMAIN heap \ {r}
      /\ \A b \in DOMAIN heap2 : /\ heap2[b].leaf = heap[b].leaf
                                 /\ heap2[b].next = IF b = l THEN heap[r].next ELSE heap[b].next
                                 /\ heap2[b].previous = IF b = heap[r].next THEN l ELSE heap[b].previous
      /\ \A b \in DOMAIN heap2 : b \notin {p, l} =>
            /\ heap2[b].keys = heap[b].keys /\ heap2[b].values = heap[b].values
            /\ heap2[b].children = heap[b].children
  BY DEF Folded
<1>3. /\ heap2[p].values = heap[p].values
      /\ Len(heap2[p].keys) = Len(heap[p].keys) - 1
      /\ Len(heap2[p].children) = Len(heap[p].children) - 1
      /\ \A j \in 1..Len(heap[p].keys) - 1 :
            heap2[p].keys[j] = IF j < i THEN heap[p].keys[j] ELSE heap[p].keys[j + 1]
      /\ \A j \in 1..Len(heap[p].keys) :
            heap2[p].children[j] = IF j < i + 1 THEN heap[p].children[j] ELSE heap[p].children[j + 1]
  BY DEF Folded
<1> QED BY <1>1, <1>2, <1>3 DEF Merged

\* The heights and intervals afterwards: l ends where r ended.
Afterwards3(S, h, lo, hi, l, r, h2, lo2, hi2) ==
    /\ h2[l] = h[l] /\ lo2[l] = lo[l] /\ hi2[l] = hi[r]
    /\ \A b \in S : b \notin {l, r} => h2[b] = h[b] /\ lo2[b] = lo[b] /\ hi2[b] = hi[b]
    /\ Without(h, h2, r) /\ Without(lo, lo2, r)
    /\ \E hi1 : Replaced(hi, hi1, l, hi[r]) /\ Without(hi1, hi2, r)

\* The heights and the intervals after a merge.
LEMMA IntervalsAfter ==
  ASSUME NEW S, NEW h \in [S -> Nat], NEW lo \in [S -> Int], NEW hi \in [S -> Int],
         NEW l \in S, NEW r \in S, l # r
  PROVE  \E h2, lo2, hi2 : Afterwards3(S, h, lo, hi, l, r, h2, lo2, hi2)
<1> DEFINE h2  == [b \in S \ {r} |-> h[b]]
           lo2 == [b \in S \ {r} |-> lo[b]]
           hi1 == [hi EXCEPT ![l] = hi[r]]
           hi2 == [b \in S \ {r} |-> hi1[b]]
<1>1. DOMAIN h = S /\ DOMAIN lo = S /\ DOMAIN hi = S /\ DOMAIN hi1 = S
  OBVIOUS
<1>2. Without(h, h2, r) /\ Without(lo, lo2, r) /\ Replaced(hi, hi1, l, hi[r]) /\ Without(hi1, hi2, r)
  BY <1>1 DEF Without, Replaced
<1>3. /\ h2[l] = h[l] /\ lo2[l] = lo[l] /\ hi2[l] = hi[r]
      /\ \A b \in S : b \notin {l, r} => h2[b] = h[b] /\ lo2[b] = lo[b] /\ hi2[b] = hi[b]
  OBVIOUS
<1> HIDE DEF h2, lo2, hi1, hi2
<1> QED BY <1>2, <1>3 DEF Afterwards3

\* What l holds afterwards, if l is a leaf and if it is an internal node.
LeafBecame(heap, heap2, l, K, V) ==
    heap2[l].keys = K /\ heap2[l].values = V /\ heap2[l].children = heap[l].children
\* The internal node that has taken in its right sibling.
NodeBecame(heap, heap2, l, K, C) ==
    heap2[l].keys = K /\ heap2[l].children = C /\ heap2[l].values = heap[l].values

\* How many keys l and r have together when they are to be merged.
Together(heap, l, r, least) == Len(heap[l].keys) + Len(heap[r].keys) = least - 1 + least

\* Merging two leaves keeps the tree and every posting list.
LEMMA LeavesMerge ==
  ASSUME NEW heap, NEW heap2, NEW top, NEW h, NEW lo, NEW hi, NEW short,
         Resting(heap, top, h, lo, hi, Null, short),
         NEW p, NEW i, NEW l, NEW r, Pair(heap, p, i, l, r), short \in {l, r}, heap[l].leaf,
         Together(heap, l, r, MinLeafKeys),
         NEW K, NEW V, Joins(K, heap[l].keys, heap[r].keys), Joins(V, heap[l].values, heap[r].values),
         Folded(heap, heap2, p, i, l, r),
         LeafBecame(heap, heap2, l, K, V)
  PROVE  /\ \E h2, lo2, hi2 : Resting(heap2, top, h2, lo2, hi2, Null, p)
         /\ SamePostings(heap, heap2)
<1>1. /\ l \in DOMAIN heap /\ r \in DOMAIN heap /\ l # r /\ p # l /\ p # r /\ l # top /\ r # top
      /\ h[l] = h[r] /\ heap[r].leaf
  BY Neighbours DEF Pair
<1>14. LeafRun(K, V, lo[l], hi[r]) /\ Len(K) = Len(heap[l].keys) + Len(heap[r].keys) /\ RunHeld(heap, l, r, K, V)
  BY LeavesJoin
<1>2. /\ LeafRun(K, V, lo[l], hi[r])
      /\ RunHeld(heap, l, r, K, V)
      /\ Len(K) = MinLeafKeys - 1 + MinLeafKeys
  BY <1>14 DEF Together
<1>15. heap2[l].keys = K /\ heap2[l].values = V /\ heap2[l].children = heap[l].children
  BY DEF LeafBecame
<1>3. /\ Kinds(heap, h) /\ Ordered(heap, lo, hi)
      /\ lo[l] \in Int /\ hi[l] \in Int /\ lo[r] \in Int /\ hi[r] \in Int /\ l # Null /\ r # Null
      /\ lo[l] < hi[l] /\ lo[r] < hi[r] /\ hi[l] = lo[r]
  BY <1>1, Parts, Neighbours, SMTT(20) DEF Pair
<1>4. h[l] = 0 /\ heap[l].children = << >>
  <2>1. KindOf(heap, h, l)
    BY <1>1, <1>3 DEF Kinds
  <2> QED BY <2>1 DEF KindOf
<1>5. Len(K) \in Nat /\ Len(V) = Len(K) /\ Len(K) >= MinLeafKeys /\ Len(K) <= MaxKeys
  BY <1>2, MergeFits, Bounds0 DEF LeafRun, LeafFits
<1>6. PICK h2, lo2, hi2 : Afterwards3(DOMAIN heap, h, lo, hi, l, r, h2, lo2, hi2)
  <2>1. h \in [DOMAIN heap -> Nat] /\ lo \in [DOMAIN heap -> Int] /\ hi \in [DOMAIN heap -> Int]
    BY <1>3 DEF Kinds, Ordered
  <2> QED BY <1>1, <2>1, IntervalsAfter
<1>7. PICK hi1 : Replaced(hi, hi1, l, hi[r]) /\ Without(hi1, hi2, r)
  BY <1>6 DEF Afterwards3
<1>8. Without(h, h2, r) /\ Without(lo, lo2, r) /\ h2[l] = 0 /\ lo2[l] = lo[l] /\ hi2[l] = hi[r]
  BY <1>4, <1>6 DEF Afterwards3
<1>9. Merged(heap, heap2, p, i, l, r)
  <2>1. \A b \in DOMAIN heap : heap[b].parent # l /\ heap[b].parent # r
    BY <1>1, NextIsOther
  <2>2. DOMAIN heap2 \subseteq DOMAIN heap
    BY DEF Folded
  <2> QED BY <2>1, <2>2, FoldedIsMerged
<1>10. heap2[l].leaf /\ heap2[l].children = << >> /\ l \in DOMAIN heap2
  BY <1>1, <1>4, <1>15 DEF Folded
<1>11. Settled(heap2, top, h2, lo2, hi2, l)
  <2> DEFINE n == Len(K)
  <2>1. PartOf(heap2, l, K, V, 0, n)
    <3>1. \A j \in 1..n : 0 + j = j
      BY <1>5
    <3> QED BY <1>5, <1>10, <1>15, <3>1 DEF PartOf
  <2>2. 1 \in 1..n
    BY <1>5, Bounds0
  <2>3. lo[l] <= K[0 + 1] /\ 0 + n = n
    BY <1>2, <1>5, <2>2 DEF LeafRun
  <2>4. lo[l] < hi[r] /\ hi[r] <= hi[r]
    BY <1>3
  <2>5. Around(K, 0, n, hi[r], lo2[l], hi2[l])
    BY <1>3, <1>5, <1>8, <2>3, <2>4 DEF Around
  <2>6. 0 \in Nat /\ n \in Nat /\ 0 + n <= Len(K) /\ n >= MinLeafKeys /\ n <= MaxKeys
    BY <1>5
  <2> HIDE DEF n
  <2> QED BY <1>1, <1>2, <1>3, <1>8, <2>1, <2>5, <2>6, LeafOfRun
<1>12. Resting(heap2, top, h2, lo2, hi2, Null, p)
  BY <1>7, <1>8, <1>9, <1>11, MergeKeeps, ZenonT(40) DEF Pair
<1>13. SamePostings(heap, heap2)
  <2>1. OthersSame(heap, heap2, l, r)
    <3> SUFFICES ASSUME NEW b, b \notin {l, r}
                 PROVE  /\ b \in DOMAIN heap2 <=> b \in DOMAIN heap
                        /\ b \in DOMAIN heap => /\ heap2[b].leaf = heap[b].leaf
                                                /\ heap[b].leaf => /\ heap2[b].keys = heap[b].keys
                                                                   /\ heap2[b].values = heap[b].values
      BY DEF OthersSame
    <3>1. heap[b].leaf => b # p
      BY DEF Pair
    <3>2. b \in DOMAIN heap2 <=> b \in DOMAIN heap
      BY DEF Folded
    <3> QED BY <3>1, <3>2 DEF Folded
  <2>2. BothLeaves(heap, l, r) /\ BothLeaves(heap2, l, r)
    <3>1. r \notin DOMAIN heap2
      BY DEF Folded
    <3> QED BY <1>1, <1>10, <3>1 DEF BothLeaves
  <2>3. SameTogether(heap, heap2, l, r)
    <3> SUFFICES ASSUME NEW k, NEW x
                 PROVE  HoldTogether(heap2, l, r, k, x) <=> HoldTogether(heap, l, r, k, x)
      BY DEF SameTogether
    <3>1. r \notin DOMAIN heap2
      BY DEF Folded
    <3>2. HoldTogether(heap2, l, r, k, x) <=> HoldsAt(heap2, l, k, x)
      BY <1>10, <3>1 DEF HoldTogether
    <3>3. HoldsAt(heap2, l, k, x) <=> \E j \in 1..Len(K) : K[j] = k /\ V[j] = x
      BY <1>15 DEF HoldsAt
    <3> QED BY <1>2, <3>2, <3>3 DEF RunHeld
  <2> QED BY <2>1, <2>2, <2>3, SamePair
<1> QED BY <1>12, <1>13

\* Merging two internal nodes keeps the tree and every posting list.
LEMMA NodesMerge ==
  ASSUME NEW heap, NEW heap2, NEW top, NEW h, NEW lo, NEW hi, NEW short,
         Resting(heap, top, h, lo, hi, Null, short),
         NEW p, NEW i, NEW l, NEW r, Pair(heap, p, i, l, r), short \in {l, r}, ~heap[l].leaf,
         Together(heap, l, r, MinInternalKeys),
         NEW K, NEW C, Encloses(K, heap[l].keys, heap[p].keys[i], heap[r].keys),
         Joins(C, heap[l].children, heap[r].children),
         Folded(heap, heap2, p, i, l, r),
         NodeBecame(heap, heap2, l, K, C)
  PROVE  /\ \E h2, lo2, hi2 : Resting(heap2, top, h2, lo2, hi2, Null, p)
         /\ SamePostings(heap, heap2)
<1>1. /\ l \in DOMAIN heap /\ r \in DOMAIN heap /\ l # r /\ p # l /\ p # r /\ l # top /\ r # top
      /\ h[l] = h[r] /\ ~heap[r].leaf
  BY Neighbours DEF Pair
<1>20. /\ NodeRun(DOMAIN heap, h, lo, hi, h[l], K, C, lo[l], hi[r])
       /\ Len(K) = Len(heap[l].keys) + 1 + Len(heap[r].keys)
       /\ Brood(heap, C, l, r, Len(heap[l].keys) + 1)
  BY NodesJoin
<1>21. heap2[l].keys = K /\ heap2[l].children = C /\ heap2[l].values = heap[l].values
  BY DEF NodeBecame
<1>3. /\ Heap(heap) /\ Kinds(heap, h) /\ Ordered(heap, lo, hi)
      /\ lo[l] \in Int /\ hi[l] \in Int /\ lo[r] \in Int /\ hi[r] \in Int /\ l # Null /\ r # Null
      /\ lo[l] < hi[l] /\ lo[r] < hi[r] /\ hi[l] = lo[r] /\ h[l] \in Nat
  <2>1. hi[l] = lo[r]
    BY Neighbours DEF Pair
  <2> QED BY <1>1, <2>1, Parts
<1>2. Len(K) = MinInternalKeys - 1 + 1 + MinInternalKeys
  <2> DEFINE x == Len(heap[l].keys)
             y == Len(heap[r].keys)
             least == MinInternalKeys
  <2>1. x \in Nat /\ y \in Nat /\ least \in Nat
    BY <1>1, <1>3, Fields, Bounds0
  <2>2. x + y = least - 1 + least /\ Len(K) = x + 1 + y
    BY <1>20 DEF Together
  <2> HIDE DEF x, y, least
  <2>3. Len(K) = least - 1 + 1 + least
    BY <2>1, <2>2
  <2> QED BY <2>3 DEF least
<1>4. /\ heap[l].values = << >> /\ heap[l].next = Null /\ heap[l].previous = Null
      /\ heap[r].next = Null
  <2>1. KindOf(heap, h, l)
    BY <1>1, <1>3 DEF Kinds
  <2>2. KindOf(heap, h, r)
    BY <1>1, <1>3 DEF Kinds
  <2> QED BY <1>1, <2>1, <2>2 DEF KindOf
<1>5. Len(K) \in Nat /\ Len(C) = Len(K) + 1 /\ Len(K) >= MinInternalKeys /\ Len(K) <= MaxKeys
  <2>1. Len(K) \in Nat /\ Len(C) = Len(K) + 1
    BY <1>20 DEF NodeRun
  <2> QED BY <1>2, <2>1, MergeFits, Bounds0 DEF InternalFits
<1>6. PICK h2, lo2, hi2 : Afterwards3(DOMAIN heap, h, lo, hi, l, r, h2, lo2, hi2)
  <2>1. h \in [DOMAIN heap -> Nat] /\ lo \in [DOMAIN heap -> Int] /\ hi \in [DOMAIN heap -> Int]
    BY <1>3 DEF Kinds, Ordered
  <2> QED BY <1>1, <2>1, IntervalsAfter
<1>7. PICK hi1 : Replaced(hi, hi1, l, hi[r]) /\ Without(hi1, hi2, r)
  BY <1>6 DEF Afterwards3
<1>8. /\ Without(h, h2, r) /\ Without(lo, lo2, r) /\ h2[l] = h[l] /\ lo2[l] = lo[l] /\ hi2[l] = hi[r]
      /\ \A b \in DOMAIN heap : b \notin {l, r} => h2[b] = h[b] /\ lo2[b] = lo[b] /\ hi2[b] = hi[b]
  BY <1>6 DEF Afterwards3
<1>9. \A j \in 1..Len(K) + 1 : C[j] \in DOMAIN heap /\ C[j] \notin {l, r}
  <2> TAKE j \in 1..Len(K) + 1
  <2>1. C[j] \in DOMAIN heap /\ h[C[j]] \in Nat /\ h[C[j]] + 1 = h[l]
    BY <1>20 DEF NodeRun
  <2>2. h[C[j]] # h[l] /\ h[C[j]] # h[r]
    BY <1>1, <1>3, <2>1
  <2> QED BY <2>1, <2>2
<1>10. NodeRun(DOMAIN heap2, h2, lo2, hi2, h[l], K, C, lo[l], hi[r])
  <2>1. \A j \in 1..Len(K) + 1 : h2[C[j]] = h[C[j]] /\ lo2[C[j]] = lo[C[j]] /\ hi2[C[j]] = hi[C[j]]
    BY <1>8, <1>9
  <2>2. \A j \in 1..Len(K) + 1 : C[j] \in DOMAIN heap2
    BY <1>9 DEF Folded
  <2> DEFINE S == DOMAIN heap
             S2 == DOMAIN heap2
             H == h[l]
             low == lo[l]
             high == hi[r]
  <2>3. NodeRun(S, h, lo, hi, H, K, C, low, high) /\ \A j \in 1..Len(K) + 1 : C[j] \in S2
    BY <1>20, <2>2
  <2> HIDE DEF S, S2, H, low, high
  <2>4. NodeRun(S2, h2, lo2, hi2, H, K, C, low, high)
    BY <2>1, <2>3 DEF NodeRun
  <2> QED BY <2>4 DEF S2, H, low, high
<1>11. /\ ~heap2[l].leaf /\ heap2[l].values = << >> /\ heap2[l].next = Null /\ heap2[l].previous = Null
       /\ l \in DOMAIN heap2 /\ Len(heap2[l].children) = Len(K) + 1 /\ Len(heap2[l].keys) = Len(K)
  BY <1>1, <1>3, <1>4, <1>5, <1>21 DEF Folded
<1>12. \A j \in 1..Len(C) : heap2[C[j]].parent = l
  <2> TAKE j \in 1..Len(C)
  <2>1. heap[C[j]].parent \in {l, r}
    BY <1>20 DEF Brood
  <2>2. C[j] \in DOMAIN heap2
    BY <1>5, <1>9 DEF Folded
  <2> QED BY <2>1, <2>2 DEF Folded
<1>13. Merged(heap, heap2, p, i, l, r)
  <2>1. ASSUME NEW b \in DOMAIN heap2, heap[b].parent \in {l, r} PROVE IsChild(heap2, l, b)
    <3>1. b \in DOMAIN heap
      BY DEF Folded
    <3>2. \E j \in 1..Len(C) : C[j] = b
      BY <1>20, <2>1, <3>1 DEF Brood
    <3> QED BY <1>5, <1>11, <1>21, <3>2 DEF IsChild
  <2> QED BY <2>1, FoldedIsMerged
<1>14. Settled(heap2, top, h2, lo2, hi2, l)
  <2> DEFINE n == Len(K)
  <2>0. 0 \in Nat /\ n \in Nat /\ 0 + n <= Len(K) /\ 0 + n = Len(K) /\ n >= MinInternalKeys /\ n <= MaxKeys
    BY <1>5
  <2>1. SectionOf(heap2, l, K, C, 0, n)
    <3>1. \A j : j \in 1..n + 1 => 0 + j = j
      BY <1>5
    <3>2. \A j \in 1..n : heap2[l].keys[j] = K[0 + j]
      BY <1>5, <1>21, <3>1
    <3>3. \A j \in 1..n + 1 : heap2[l].children[j] = C[0 + j] /\ heap2[C[0 + j]].parent = l
      BY <1>5, <1>12, <1>21, <3>1
    <3> QED BY <1>11, <3>2, <3>3 DEF SectionOf
  <2>4. lo[l] < hi[r]
    BY <1>3
  <2>5. Between(K, 0, n, lo[l], hi[r], lo2[l], hi2[l])
    BY <1>3, <1>8, <2>0, <2>4 DEF Between
  <2> HIDE DEF n
  <2> QED BY <1>1, <1>3, <1>8, <1>10, <2>0, <2>1, <2>5, NodeOfRun
<1>15. Resting(heap2, top, h2, lo2, hi2, Null, p)
  BY <1>7, <1>8, <1>13, <1>14, MergeKeeps DEF Pair
<1>16. SamePostings(heap, heap2)
  <2>1. p \in DOMAIN heap /\ ~heap[p].leaf
    BY DEF Pair
  <2>2. /\ DOMAIN heap2 = DOMAIN heap \ {r}
        /\ \A b \in DOMAIN heap2 : heap2[b].leaf = heap[b].leaf
        /\ \A b \in DOMAIN heap2 : b \notin {p, l} => heap2[b].keys = heap[b].keys /\ heap2[b].values = heap[b].values
    BY DEF Folded
  <2>3. \A b \in DOMAIN heap : heap[b].leaf => b \notin {p, l, r}
    BY <1>1, <2>1
  <2>4. /\ \A b \in DOMAIN heap : heap[b].leaf => /\ b \in DOMAIN heap2 /\ heap2[b].leaf
                                                  /\ heap2[b].keys = heap[b].keys
                                                  /\ heap2[b].values = heap[b].values
        /\ \A b \in DOMAIN heap2 : heap2[b].leaf => b \in DOMAIN heap /\ heap[b].leaf
    BY <2>2, <2>3
  <2> QED BY <2>4, SameLeaves
<1> QED BY <1>15, <1>16

\* Merging two leaves.
LEMMA MergeOfLeaves ==
  ASSUME NEW h, NEW lo, NEW hi, NEW p, NEW i, NEW l, NEW r, NEW short,
         Mergeable(h, lo, hi, p, i, l, r, short), MergeNodes(l, r), node[l].leaf
  PROVE  /\ \E h2, lo2, hi2 : Resting(node', root, h2, lo2, hi2, Null, p)
         /\ SamePostings(node, node')
<1>1. /\ Resting(node, root, h, lo, hi, Null, short) /\ short \in {l, r} /\ Pair(node, p, i, l, r)
      /\ Len(node[l].keys) + Len(node[r].keys) = MinimumOf(node[l].leaf) - 1 + MinimumOf(node[l].leaf)
  BY DEF Mergeable
<1> DEFINE n == MergedNode(node, p, i, l, r)
           K == node[l].keys \o node[r].keys
           V == node[l].values \o node[r].values
           m == node[l]
           next == node[r].next
<1>2. l \in DOMAIN node /\ r \in DOMAIN node /\ Heap(node)
  BY <1>1, Neighbours, Parts DEF Pair
<1>3. /\ m \in NodeFields /\ next \in Nat
      /\ m.keys \in Seq(Keys) /\ node[r].keys \in Seq(Keys)
      /\ m.values \in Seq(Seq(Records)) /\ node[r].values \in Seq(Seq(Records))
  BY <1>2, Fields DEF NodeFields
<1>4. K \in Seq(Keys) /\ V \in Seq(Seq(Records))
  BY <1>3
<1>5. n = [m EXCEPT !.keys = K, !.values = V, !.next = next]
  BY DEF MergedNode
<1>6. Survived(node, node', p, i, l, r, n)
  BY <1>1, MergeNodesSurvive
<1>7. Joins(K, node[l].keys, node[r].keys) /\ Joins(V, node[l].values, node[r].values)
  BY DEF Joins
<1> HIDE DEF n, K, V, m, next
<1>8. /\ n \in NodeFields /\ n.keys = K /\ n.values = V /\ n.next = next
      /\ n.leaf = m.leaf /\ n.children = m.children /\ n.parent = m.parent
      /\ n.previous = m.previous
  BY <1>3, <1>4, <1>5 DEF NodeFields
<1>9. Takes(node, n, l, r)
  BY <1>8 DEF Takes, m, next
<1>10. Folded(node, node', p, i, l, r) /\ node'[l] = n
  BY <1>1, <1>6, <1>9, SurvivedFields
<1>11. LeafBecame(node, node', l, K, V)
  BY <1>8, <1>10 DEF LeafBecame, m
<1>12. Together(node, l, r, MinLeafKeys)
  BY <1>1 DEF Together, MinimumOf
<1> QED BY <1>1, <1>7, <1>10, <1>11, <1>12, LeavesMerge

\* Merging two internal nodes.
LEMMA MergeOfNodes ==
  ASSUME NEW h, NEW lo, NEW hi, NEW p, NEW i, NEW l, NEW r, NEW short,
         Mergeable(h, lo, hi, p, i, l, r, short), MergeNodes(l, r), ~node[l].leaf
  PROVE  /\ \E h2, lo2, hi2 : Resting(node', root, h2, lo2, hi2, Null, p)
         /\ SamePostings(node, node')
<1>1. /\ Resting(node, root, h, lo, hi, Null, short) /\ short \in {l, r} /\ Pair(node, p, i, l, r)
      /\ Len(node[l].keys) + Len(node[r].keys) = MinimumOf(node[l].leaf) - 1 + MinimumOf(node[l].leaf)
  BY DEF Mergeable
<1> DEFINE n == MergedNode(node, p, i, l, r)
           sep == node[p].keys[i]
           K == node[l].keys \o <<sep>> \o node[r].keys
           C == node[l].children \o node[r].children
           m == node[l]
<1>2. /\ l \in DOMAIN node /\ r \in DOMAIN node /\ p \in DOMAIN node /\ ~node[r].leaf
      /\ i \in 1..Len(node[p].keys) /\ Heap(node) /\ Kinds(node, h)
  BY <1>1, Neighbours, Parts DEF Pair
<1>3. /\ m \in NodeFields /\ node[r].next = Null /\ m.next = Null
      /\ m.keys \in Seq(Keys) /\ node[r].keys \in Seq(Keys) /\ sep \in Keys
      /\ m.children \in Seq(Nat) /\ node[r].children \in Seq(Nat)
  <2>1. KindOf(node, h, l) /\ KindOf(node, h, r)
    BY <1>2 DEF Kinds
  <2>2. m \in NodeFields /\ node[r] \in NodeFields
    BY <1>2, Fields
  <2>3. sep \in Keys
    BY <1>2, Fields
  <2> QED BY <1>2, <2>1, <2>2, <2>3 DEF KindOf, NodeFields
<1>4. K \in Seq(Keys) /\ C \in Seq(Nat)
  BY <1>3
<1>5. n = [m EXCEPT !.keys = K, !.children = C]
  BY DEF MergedNode
<1>6. Survived(node, node', p, i, l, r, n)
  BY <1>1, MergeNodesSurvive
<1>7. Encloses(K, node[l].keys, node[p].keys[i], node[r].keys) /\ Joins(C, node[l].children, node[r].children)
  BY DEF Encloses, Joins
<1> HIDE DEF n, K, C, m, sep
<1>8. /\ n \in NodeFields /\ n.keys = K /\ n.children = C
      /\ n.leaf = m.leaf /\ n.values = m.values /\ n.parent = m.parent
      /\ n.next = m.next /\ n.previous = m.previous
  BY <1>3, <1>4, <1>5 DEF NodeFields
<1>9. Takes(node, n, l, r)
  BY <1>3, <1>8 DEF Takes, m
<1>10. Folded(node, node', p, i, l, r) /\ node'[l] = n
  BY <1>1, <1>6, <1>9, SurvivedFields
<1>11. NodeBecame(node, node', l, K, C)
  BY <1>8, <1>10 DEF NodeBecame, m
<1>12. Together(node, l, r, MinInternalKeys)
  BY <1>1 DEF Together, MinimumOf
<1> QED BY <1>1, <1>7, <1>10, <1>11, <1>12, NodesMerge

\* Merge keeps the invariant and every posting list.
LEMMA MergeStep ==
  ASSUME IInv, Merge
  PROVE  IInv' /\ SamePostings(node, node')
<1>1. Rest \in After
  BY WhenMerge
<1>2. PICK h, lo, hi, p, i, l, r, short : /\ Mergeable(h, lo, hi, p, i, l, r, short)
                                          /\ MergeNodes(l, r)
                                          /\ p = Parent
  BY WhenMerge
<1>3. todo' = <<FixUnderflowOf(p)>> \o Rest /\ root' = root /\ size' = size
  BY <1>2 DEF Merge
<1>4. /\ \E h2, lo2, hi2 : Resting(node', root, h2, lo2, hi2, Null, p)
      /\ SamePostings(node, node')
  BY <1>2, MergeOfLeaves, MergeOfNodes
<1>5. p # Null
  BY <1>2, Parts DEF Mergeable, Pair
<1>6. size' = Cardinality(KeysOf(node')) /\ IsFiniteSet(KeysOf(node'))
  BY <1>3, <1>4, SizeAgain
<1>7. PICK h2, lo2, hi2 : Resting(node', root', h2, lo2, hi2, Null, p)
  BY <1>3, <1>4
<1>8. IInv'
  BY <1>1, <1>3, <1>5, <1>6, <1>7, ShortAgain
<1> QED BY <1>4, <1>8

\* Both kinds of nodes borrow.
LEMMA BorrowFromLeftStep ==
  ASSUME IInv, BorrowFromLeft
  PROVE  IInv' /\ SamePostings(node, node')
BY BorrowLeafFromLeft, BorrowNodeFromLeft

\* BorrowFromRight keeps the invariant and every posting list.
LEMMA BorrowFromRightStep ==
  ASSUME IInv, BorrowFromRight
  PROVE  IInv' /\ SamePostings(node, node')
BY BorrowLeafFromRight, BorrowNodeFromRight

-----------------------------------------------------------------------------
(* Memory runs out. *)

\* A tree that an exception has torn: a key without its list, or a separator without its child.
InPieces == todo = <<Threw>> /\ Torn /\ TypeOK /\ DeletedOnce

\* Unless it is a leaf without a key that is short, no leaf is empty.
LEMMA LeavesAreFull ==
  ASSUME NEW h, NEW lo, NEW hi, NEW left, NEW right, NEW over, NEW short,
         Tree(node, root, h, lo, hi, left, right, over, short),
         \A a \in DOMAIN node : a = short /\ node[a].leaf => Len(node[a].keys) >= 1
  PROVE  LeavesHold(node)
<1> SUFFICES ASSUME NEW a \in DOMAIN node, node[a].leaf, a # short PROVE Len(node[a].keys) >= 1
  BY DEF LeavesHold
<1> DEFINE free == IF left = root THEN Null ELSE root
           least == IF a = free THEN 1 ELSE MinimumOf(node[a].leaf)
<1>1. Heap(node) /\ Filled(node, free, over, short)
  BY DEF Tree
<1>2. Len(node[a].keys) \in Nat
  BY <1>1, Fields
<1> HIDE DEF free
<1>3. Len(node[a].keys) >= least
  BY <1>1 DEF Filled, FilledAt
<1>4. MinimumOf(node[a].leaf) = MinLeafKeys
  BY DEF MinimumOf
<1>5. least \in Nat /\ least >= 1
  <2>1. least \in {1, MinLeafKeys}
    BY <1>4
  <2>2. MinLeafKeys \in Nat /\ MinLeafKeys >= 1
    BY Bounds0
  <2> HIDE DEF least
  <2> QED BY <2>1, <2>2
<1> HIDE DEF least
<1> QED BY <1>2, <1>3, <1>5

\* An exception before anything is changed leaves the tree as it was in the middle of the call.
LEMMA CleanThrow ==
  ASSUME IInv, Throws(node), LeavesHold(node)
  PROVE  IInv' /\ node' = node
<1>1. node' = node /\ root' = root /\ size' = size /\ todo' = <<Threw>>
  BY DEF Throws
<1>2. PICK h, lo, hi, left, right, over, short : Tree(node, root, h, lo, hi, left, right, over, short)
  BY DEF IInv
<1>3. size = Cardinality(KeysOf(node)) /\ IsFiniteSet(KeysOf(node))
  BY DEF IInv
<1>4. /\ Tree(node', root', h, lo, hi, left, right, over, short) /\ LeavesHold(node')
      /\ size' = Cardinality(KeysOf(node')) /\ IsFiniteSet(KeysOf(node'))
  BY <1>1, <1>2, <1>3
<1> QED BY <1>1, <1>4 DEF IInv

\* What goes with the keys of a node is there.
LEMMA Paired ==
  ASSUME IInv, NEW a \in DOMAIN node
  PROVE  /\ IF node[a].leaf THEN Len(node[a].values) = Len(node[a].keys)
            ELSE Len(node[a].children) = Len(node[a].keys) + 1
         /\ Len(node[a].keys) \in Nat /\ node[a].keys \in Seq(Keys) /\ node[a] \in NodeFields
<1>1. PICK h, lo, hi, left, right, over, short : Tree(node, root, h, lo, hi, left, right, over, short)
  BY DEF IInv
<1>2. Heap(node) /\ Kinds(node, h)
  BY <1>1 DEF Tree
<1>3. KindOf(node, h, a)
  BY <1>2 DEF Kinds
<1> QED BY <1>2, <1>3, Fields DEF KindOf

\* The invariant is that of a whole tree.
LEMMA NotTorn == IInv => ~Torn
<1> SUFFICES ASSUME IInv, NEW a \in DOMAIN node,
                    IF node[a].leaf THEN Len(node[a].values) < Len(node[a].keys)
                    ELSE Len(node[a].children) < Len(node[a].keys) + 1
             PROVE  FALSE
  BY DEF Torn
<1>1. /\ IF node[a].leaf THEN Len(node[a].values) = Len(node[a].keys)
         ELSE Len(node[a].children) = Len(node[a].keys) + 1
      /\ Len(node[a].keys) \in Nat
  BY Paired
<1> QED BY <1>1

\* In a whole tree a node hangs from one place.
LEMMA OneParent == IInv => DeletedOnce
<1> SUFFICES ASSUME IInv, NEW a \in DOMAIN node, NEW b \in DOMAIN node,
                    NEW i \in DOMAIN node[a].children, NEW j \in DOMAIN node[b].children
             PROVE  /\ node[a].children[i] = node[b].children[j] => a = b /\ i = j
                    /\ node[a].children[i] # root
  BY DEF DeletedOnce
<1>1. PICK h, lo, hi, left, right, over, short : Tree(node, root, h, lo, hi, left, right, over, short)
  BY DEF IInv
<1>2. /\ Heap(node) /\ Kinds(node, h) /\ Ordered(node, lo, hi) /\ Down(node, h, lo, hi, left, right)
      /\ Up(node, root, right)
  BY <1>1 DEF Tree
<1>3. ASSUME NEW x \in DOMAIN node, NEW k \in DOMAIN node[x].children
      PROVE  /\ ~node[x].leaf /\ k \in 1..Len(node[x].keys) + 1 /\ x # Null
             /\ node[x].children[k] \in DOMAIN node /\ node[node[x].children[k]].parent = x
  <2>1. node[x].children \in Seq(Nat) /\ x # Null
    BY <1>2, Fields
  <2>2. ~node[x].leaf
    <3> SUFFICES ASSUME node[x].leaf PROVE FALSE
      OBVIOUS
    <3>1. node[x].children = << >>
      BY <1>2 DEF Kinds, KindOf
    <3> QED BY <1>3, <3>1
  <2>3. Len(node[x].children) = Len(node[x].keys) + 1
    BY <1>2, <2>2, ChildrenApart
  <2>4. k \in 1..Len(node[x].keys) + 1
    BY <1>3, <2>1, <2>3
  <2> QED BY <1>2, <2>1, <2>2, <2>4, ChildrenApart
<1>4. node[a].children[i] = node[b].children[j] => a = b
  BY <1>3
<1>5. a = b /\ node[a].children[i] = node[b].children[j] => i = j
  <2>1. ~node[a].leaf /\ i \in 1..Len(node[a].keys) + 1
    BY <1>3
  <2>2. j \in 1..Len(node[b].keys) + 1
    BY <1>3
  <2> QED BY <1>2, <2>1, <2>2, ChildrenApart
<1>6. node[a].children[i] # root
  <2>1. node[node[a].children[i]].parent = a /\ a # Null /\ node[a].children[i] \in DOMAIN node
    BY <1>3
  <2>2. root \in DOMAIN node => node[root].parent = Null
    BY <1>2 DEF Up
  <2> QED BY <2>1, <2>2
<1> QED BY <1>4, <1>5, <1>6

\* An exception between the keys of a node and what goes with them.
LEMMA Tears ==
  ASSUME IInv, NEW a \in DOMAIN node, NEW ks \in Seq(Keys), Len(ks) > Len(node[a].keys),
         Throws([node EXCEPT ![a].keys = ks])
  PROVE  InPieces'
<1>1. /\ node' = [node EXCEPT ![a].keys = ks] /\ root' = root /\ size' = size /\ todo' = <<Threw>>
  BY DEF Throws
<1>2. TypeOK /\ DeletedOnce
  BY TypesHold, OneParent
<1>3. PICK h, lo, hi, left, right, over, short : Tree(node, root, h, lo, hi, left, right, over, short)
  BY DEF IInv
<1>4. Heap(node)
  BY <1>3 DEF Tree
<1>5. ASSUME NEW x \in DOMAIN node
      PROVE  /\ node'[x].keys = IF x = a THEN ks ELSE node[x].keys
             /\ node'[x].leaf = node[x].leaf /\ node'[x].values = node[x].values
             /\ node'[x].children = node[x].children /\ node'[x].parent = node[x].parent
             /\ node'[x].next = node[x].next /\ node'[x].previous = node[x].previous
  <2>1. node \in [DOMAIN node -> NodeFields]
    BY <1>4 DEF Heap
  <2>2. node'[x] = IF x = a THEN [node[a] EXCEPT !.keys = ks] ELSE node[x]
    BY <1>1, <2>1
  <2>3. node[a] \in NodeFields
    BY <2>1
  <2> QED BY <2>2, <2>3 DEF NodeFields
<1>6. DOMAIN node' = DOMAIN node
  BY <1>1
<1>7. Torn'
  <2>1. /\ IF node[a].leaf THEN Len(node[a].values) = Len(node[a].keys)
           ELSE Len(node[a].children) = Len(node[a].keys) + 1
        /\ Len(node[a].keys) \in Nat /\ Len(ks) \in Nat
    BY Paired
  <2>2. node'[a].keys = ks /\ node'[a].leaf = node[a].leaf /\ node'[a].values = node[a].values
        /\ node'[a].children = node[a].children
    BY <1>5
  <2>3. IF node'[a].leaf THEN Len(node'[a].values) < Len(node'[a].keys)
        ELSE Len(node'[a].children) < Len(node'[a].keys) + 1
    BY <2>1, <2>2
  <2> QED BY <1>6, <2>3 DEF Torn
<1>8. DeletedOnce'
  <2>1. \A x \in DOMAIN node : node'[x].children = node[x].children
    BY <1>5
  <2> QED BY <1>1, <1>2, <1>6, <2>1 DEF DeletedOnce
<1>9. TypeOK'
  <2>1. root' \in {Null} \cup DOMAIN node' /\ size' \in Nat
    BY <1>1, <1>2, <1>6 DEF TypeOK
  <2>2. ASSUME NEW x \in DOMAIN node'
        PROVE  /\ x \in Nat \ {Null} /\ node'[x].leaf \in BOOLEAN /\ ToSet(node'[x].keys) \subseteq Keys
               /\ node'[x].values \in Seq(Seq(Records)) /\ ToSet(node'[x].children) \subseteq DOMAIN node'
               /\ {node'[x].parent, node'[x].next, node'[x].previous} \subseteq {Null} \cup DOMAIN node'
    <3>1. ToSet(ks) \subseteq Keys
      BY DEF ToSet
    <3>2. ToSet(node[x].keys) \subseteq Keys
      BY <1>2, <1>6 DEF TypeOK
    <3>3. ToSet(node'[x].keys) \subseteq Keys
      BY <1>5, <1>6, <3>1, <3>2
    <3> QED BY <1>2, <1>5, <1>6, <3>3 DEF TypeOK
  <2>3. Len(todo') <= 2 /\ ToSet(todo') \subseteq Calls'
    <3>1. ToSet(todo') = {Threw} /\ Len(todo') = 1
      BY <1>1 DEF ToSet
    <3>2. Threw \in Calls'
      BY DEF Calls
    <3> QED BY <3>1, <3>2
  <2> QED BY <2>1, <2>2, <2>3 DEF TypeOK
<1> QED BY <1>1, <1>7, <1>8, <1>9 DEF InPieces

\* An insertion throws before it has changed anything, or between a key and its list.
LEMMA InsertThrowsStep ==
  ASSUME IInv, todo \in After, NEW key \in Keys, InsertThrows(key)
  PROVE  (IInv' /\ node' = node) \/ InPieces'
<1>1. CASE Throws(node)
  <2>1. PICK h, lo, hi : Resting(node, root, h, lo, hi, Null, Null)
    BY WhenResting
  <2>2. \A a \in DOMAIN node : a # Null
    BY <2>1, Parts
  <2>3. LeavesHold(node)
    BY <2>1, <2>2, LeavesAreFull DEF Resting
  <2> QED BY <1>1, <2>3, CleanThrow
<1>2. CASE /\ root # Null
           /\ ~ContainsKey(key)
           /\ Throws([node EXCEPT ![FindLeaf(key)].keys = InsertAt(@, Slot(key), key)])
  <2> DEFINE a == FindLeaf(key)
             s == Slot(key)
             ks == InsertAt(node[a].keys, s, key)
  <2>1. PICK h, lo, hi : Resting(node, root, h, lo, hi, Null, Null) /\ lo[root] <= key /\ key < hi[root]
    BY <1>2, LeafReached
  <2>2. Reached(a, s, lo, hi, key)
    BY <1>2, <2>1, Found
  <2>3. Throws([node EXCEPT ![a].keys = ks])
    BY <1>2
  <2> HIDE DEF a, s
  <2>4. a \in DOMAIN node /\ node[a].keys \in Seq(Keys) /\ s \in 1..Len(node[a].keys) + 1
        /\ Len(node[a].keys) \in Nat
    BY <2>2 DEF Reached
  <2>5. ks \in Seq(Keys) /\ Len(ks) = Len(node[a].keys) + 1
    BY <2>4, InsertAtElements
  <2> HIDE DEF ks
  <2>6. Len(ks) > Len(node[a].keys)
    BY <2>4, <2>5
  <2> QED BY <2>3, <2>4, <2>5, <2>6, Tears
<1> QED BY <1>1, <1>2 DEF InsertThrows

\* A split, and the growth of a new root, throw before they have changed anything.
LEMMA SplitThrowsStep ==
  ASSUME IInv, SplitThrows
  PROVE  IInv' /\ node' = node
<1>1. PICK h, lo, hi, left, right, over : Tree(node, root, h, lo, hi, left, right, over, Null)
  <2>1. Called("SplitLeaf") \/ Called("SplitInternal") \/ Called("InsertIntoParent")
    BY DEF SplitThrows
  <2>2. CASE Called("SplitLeaf") \/ Called("SplitInternal")
    BY <2>2, WhenSplitLeaf, WhenSplitInternal DEF Resting
  <2>3. CASE Called("InsertIntoParent")
    BY <2>3, WhenInsertIntoParent
  <2> QED BY <2>1, <2>2, <2>3
<1>2. \A a \in DOMAIN node : a # Null
  BY <1>1, Fields DEF Tree
<1>3. LeavesHold(node)
  BY <1>1, <1>2, LeavesAreFull
<1> QED BY <1>3, CleanThrow DEF SplitThrows

\* The parent has no room for the separator, or has it and none for the child.
LEMMA InsertIntoParentThrowsStep ==
  ASSUME IInv, InsertIntoParentThrows
  PROVE  (IInv' /\ node' = node) \/ InPieces'
<1> DEFINE l == Callee
           r == Head(todo).right
           k == Head(todo).key
           p == node[l].parent
           at == ChildIndex(p, l) + 1
           ks == InsertAt(node[p].keys, at, k)
<1>1. /\ Called("InsertIntoParent") /\ l # root
      /\ Throws(node) \/ Throws([node EXCEPT ![p].keys = ks])
  BY DEF InsertIntoParentThrows
<1>2. r # Null /\ k \in Keys
  BY <1>1, WhenInsertIntoParent
<1>3. PICK h, lo, hi : Tree(node, root, h, lo, hi, l, r, Null, Null)
  BY <1>1, WhenInsertIntoParent
<1> HIDE DEF r, k, l
<1>4. /\ Heap(node) /\ Kinds(node, h) /\ Ordered(node, lo, hi) /\ Down(node, h, lo, hi, l, r)
      /\ Up(node, root, r) /\ l \in DOMAIN node /\ l # r
  BY <1>2, <1>3, PendingParts
<1>5. IsChild(node, p, l)
  BY <1>1, <1>4 DEF Up
<1>6. p \in DOMAIN node /\ ~node[p].leaf
  BY <1>5 DEF IsChild
<1>7. PICK i \in 1..Len(node[p].children) : node[p].children[i] = l
  BY <1>5 DEF IsChild
<1>8. Len(node[p].children) = Len(node[p].keys) + 1 /\ Len(node[p].keys) \in Nat
  BY <1>4, <1>6, ChildrenApart
<1>9. i \in 1..Len(node[p].keys) + 1 /\ i \in Nat
  BY <1>8
<1>10. ChildIndex(p, l) = i - 1
  BY <1>4, <1>6, <1>7, <1>9, ChildIndexFinds
<1>11. at = i
  BY <1>9, <1>10
<1> HIDE DEF at, p
<1>12. CASE Throws(node)
  <2>1. \A a \in DOMAIN node : a # Null
    BY <1>4, Fields
  <2>2. LeavesHold(node)
    BY <1>3, <2>1, LeavesAreFull
  <2> QED BY <1>12, <2>2, CleanThrow
<1>13. CASE Throws([node EXCEPT ![p].keys = ks])
  <2>1. node[p].keys \in Seq(Keys)
    BY <1>4, <1>6, Fields
  <2>2. ks \in Seq(Keys) /\ Len(ks) = Len(node[p].keys) + 1
    BY <1>2, <1>9, <1>11, <2>1, InsertAtElements
  <2> HIDE DEF ks
  <2>3. Len(ks) > Len(node[p].keys)
    BY <1>8, <2>2
  <2> QED BY <1>6, <1>13, <2>2, <2>3, Tears
<1> QED BY <1>1, <1>12, <1>13

\* A leaf has borrowed the key and not the list.
LEMMA BorrowThrowsStep ==
  ASSUME IInv, BorrowThrows
  PROVE  InPieces'
<1>1. PICK h, lo, hi, p, i, c : Short(h, lo, hi, p, i, c)
  BY WhenUnderflow DEF BorrowThrows
<1>2. c = Callee /\ c \in DOMAIN node /\ Heap(node) /\ node[c].leaf
      /\ Kinds(node, h) /\ Ordered(node, lo, hi) /\ Down(node, h, lo, hi, Null, Null)
      /\ p \in DOMAIN node /\ ~node[p].leaf
      /\ i \in 1..Len(node[p].keys) + 1 /\ Len(node[p].keys) \in Nat
  BY <1>1 DEF Short, BorrowThrows
<1>3. node[c].keys \in Seq(Keys) /\ Len(node[c].keys) \in Nat
  BY <1>2, Fields
<1>4. ASSUME NEW s, CanSpare(s), s = LeftSibling \/ s = RightSibling
      PROVE  s \in DOMAIN node /\ node[s].keys \in Seq(Keys) /\ Len(node[s].keys) > 0
             /\ Len(node[s].keys) \in Nat
  <2>1. s # Null /\ Len(node[s].keys) > MinimumOf(node[c].leaf)
    BY <1>1, <1>4 DEF Short
  <2>2. \E k \in 1..Len(node[p].keys) + 1 : s = node[p].children[k]
    <3>1. CASE s = LeftSibling
      <4>1. i > 1 /\ s = node[p].children[i - 1]
        BY <1>1, <2>1, <3>1 DEF Short
      <4>2. i - 1 \in 1..Len(node[p].keys) + 1
        BY <1>2, <4>1
      <4> QED BY <4>1, <4>2
    <3>2. CASE s = RightSibling
      <4>1. i < Len(node[p].keys) + 1 /\ s = node[p].children[i + 1]
        BY <1>1, <2>1, <3>2 DEF Short
      <4>2. i + 1 \in 1..Len(node[p].keys) + 1
        BY <1>2, <4>1
      <4> QED BY <4>1, <4>2
    <3> QED BY <1>4, <3>1, <3>2
  <2>3. s \in DOMAIN node
    BY <1>2, <2>2, ChildrenApart
  <2>4. node[s].keys \in Seq(Keys) /\ Len(node[s].keys) \in Nat
    BY <1>2, <2>3, Fields
  <2>5. MinimumOf(node[c].leaf) \in Nat
    BY <1>2, Bounds0 DEF MinimumOf
  <2> QED BY <2>1, <2>3, <2>4, <2>5
<1>5. CASE /\ CanSpare(LeftSibling)
           /\ Throws([node EXCEPT ![Callee].keys = <<Last(node[LeftSibling].keys)>> \o @])
  <2> DEFINE s == node[LeftSibling].keys
             t == node[c].keys
             ks == <<Last(s)>> \o t
  <2>1. s \in Seq(Keys) /\ Len(s) > 0 /\ Len(s) \in Nat
    BY <1>4, <1>5
  <2>2. Throws([node EXCEPT ![c].keys = ks])
    BY <1>2, <1>5
  <2>3. t \in Seq(Keys) /\ Len(t) \in Nat
    BY <1>3
  <2> HIDE DEF s, t
  <2>4. Last(s) \in Keys
    BY <2>1 DEF Last
  <2>5. ks \in Seq(Keys) /\ Len(ks) = Len(t) + 1
    BY <2>3, <2>4, ConsElements
  <2> HIDE DEF ks
  <2>6. Len(ks) > Len(t)
    BY <2>3, <2>5
  <2>7. Len(ks) > Len(node[c].keys)
    BY <2>6 DEF t
  <2> QED BY <1>2, <2>2, <2>5, <2>7, Tears
<1>6. CASE /\ CanSpare(RightSibling)
           /\ Throws([node EXCEPT ![Callee].keys = Append(@, Head(node[RightSibling].keys))])
  <2> DEFINE s == node[RightSibling].keys
             t == node[c].keys
             ks == Append(t, Head(s))
  <2>1. s \in Seq(Keys) /\ Len(s) > 0 /\ Len(s) \in Nat
    BY <1>4, <1>6
  <2>2. Throws([node EXCEPT ![c].keys = ks])
    BY <1>2, <1>6
  <2>3. t \in Seq(Keys) /\ Len(t) \in Nat
    BY <1>3
  <2> HIDE DEF s, t
  <2>4. Head(s) \in Keys
    BY <2>1
  <2>5. ks \in Seq(Keys) /\ Len(ks) = Len(t) + 1
    BY <2>3, <2>4, AppendProperties
  <2> HIDE DEF ks
  <2>6. Len(ks) > Len(t)
    BY <2>3, <2>5
  <2>7. Len(ks) > Len(node[c].keys)
    BY <2>6 DEF t
  <2> QED BY <1>2, <2>2, <2>5, <2>7, Tears
<1> QED BY <1>5, <1>6 DEF BorrowThrows

\* A merge throws before it has changed anything, or when keys have moved and what goes with
\* them has not.
LEMMA MergeThrowsStep ==
  ASSUME IInv, MergeThrows
  PROVE  (IInv' /\ node' = node) \/ InPieces'
<1>1. Underflow /\ ~CanSpare(LeftSibling) /\ ~CanSpare(RightSibling)
  BY DEF MergeThrows
<1>2. PICK h, lo, hi, p, i, l, r : /\ Mergeable(h, lo, hi, p, i, l, r, Callee)
                                   /\ Folding(l, r)
                                   /\ Len(node[Callee].keys) = MinimumOf(node[Callee].leaf) - 1
  BY <1>1, WhenFolding
<1>3. IF node[Callee].leaf THEN LeavesThrow(l, r) ELSE InternalsThrow(l, r)
  BY <1>2 DEF MergeThrows, Folding
<1> DEFINE c == Callee
           a == node[l].keys
           b == node[r].keys
           least == MinimumOf(node[l].leaf)
<1>4. /\ Resting(node, root, h, lo, hi, Null, c) /\ c \in {l, r} /\ Pair(node, p, i, l, r)
      /\ Len(a) + Len(b) = least - 1 + least
  BY <1>2 DEF Mergeable
<1>5. /\ Heap(node) /\ p \in DOMAIN node /\ l \in DOMAIN node /\ r \in DOMAIN node /\ l # r
      /\ (node[l].leaf <=> node[r].leaf) /\ node[l].parent = p
      /\ i \in 1..Len(node[p].keys) /\ ~node[p].leaf
      /\ Kinds(node, h) /\ Ordered(node, lo, hi) /\ Down(node, h, lo, hi, Null, Null)
      /\ r = node[p].children[i + 1]
  BY <1>4, Parts, Neighbours DEF Pair
<1>6. /\ a \in Seq(Keys) /\ b \in Seq(Keys) /\ Len(a) \in Nat /\ Len(b) \in Nat
      /\ least \in Nat /\ least >= 1 /\ node[l].leaf = node[c].leaf
  <2>1. node[l].leaf \in BOOLEAN /\ node[r].leaf \in BOOLEAN
    BY <1>5, Fields
  <2>2. node[l].leaf = node[c].leaf
    BY <1>4, <1>5, <2>1
  <2>3. least \in Nat /\ least >= 1
    BY <2>1, Bounds0 DEF MinimumOf
  <2> QED BY <1>5, <2>2, <2>3, Fields
<1>7. Len(node[c].keys) = least - 1
  BY <1>2, <1>6
<1>8. ASSUME Throws(node), node[c].leaf => Len(node[c].keys) >= 1 PROVE IInv' /\ node' = node
  <2>1. LeavesHold(node)
    BY <1>4, <1>8, LeavesAreFull DEF Resting
  <2> QED BY <1>8, <2>1, CleanThrow
<1>9. ASSUME NEW ks \in Seq(Keys), Len(ks) > Len(a), Throws([node EXCEPT ![l].keys = ks]) PROVE InPieces'
  BY <1>5, <1>9, Tears
<1>10. CASE node[c].leaf
  <2>1. /\ b # << >>
        /\ \/ (l = c => Len(b) > 1) /\ Throws(node)
           \/ Throws([node EXCEPT ![l].keys = a \o b])
    BY <1>3, <1>10 DEF LeavesThrow
  <2>2. Len(b) >= 1
    BY <1>6, <2>1
  <2>3. CASE (l = c => Len(b) > 1) /\ Throws(node)
    <3>1. Len(node[c].keys) >= 1
      <4>1. CASE c = r
        BY <2>2, <4>1
      <4>2. CASE c = l
        <5>1. Len(a) = least - 1 /\ Len(b) > 1
          BY <1>7, <2>3, <4>2
        <5> HIDE DEF least, a, b
        <5>2. Len(a) >= 1
          BY <1>4, <1>6, <5>1
        <5> QED BY <4>2, <5>2 DEF a
      <4> QED BY <1>4, <4>1, <4>2
    <3> QED BY <1>8, <2>3, <3>1
  <2>4. CASE Throws([node EXCEPT ![l].keys = a \o b])
    <3>1. a \o b \in Seq(Keys) /\ Len(a \o b) = Len(a) + Len(b)
      BY <1>6, ConcatProperties
    <3>2. Len(a \o b) > Len(a)
      <4> HIDE DEF a, b, least
      <4> QED BY <1>6, <2>2, <3>1
    <3> QED BY <1>9, <2>4, <3>1, <3>2
  <2> QED BY <2>1, <2>3, <2>4
<1>11. CASE ~node[c].leaf
  <2> DEFINE sep == node[p].keys[ChildIndex(p, r)]
             ks == Append(a, sep)
  <2>1. \/ Throws(node)
        \/ Throws([node EXCEPT ![l].keys = ks])
        \/ Throws([node EXCEPT ![l].keys = ks \o b])
    BY <1>3, <1>5, <1>11 DEF InternalsThrow
  <2>2. sep \in Keys
    <3>1. i + 1 \in 1..Len(node[p].keys) + 1 /\ i + 1 - 1 = i
      BY <1>5, Fields
    <3>2. ChildIndex(p, node[p].children[i + 1]) = i + 1 - 1
      BY <1>5, <3>1, ChildIndexFinds
    <3>3. ChildIndex(p, r) = i
      BY <1>5, <3>1, <3>2
    <3> QED BY <1>5, <3>3, Fields
  <2> HIDE DEF sep
  <2>3. ks \in Seq(Keys) /\ Len(ks) = Len(a) + 1
    BY <1>6, <2>2, AppendProperties
  <2> HIDE DEF ks
  <2>4. ks \o b \in Seq(Keys) /\ Len(ks \o b) = Len(a) + 1 + Len(b)
    <3> HIDE DEF a, b, least
    <3> QED BY <1>6, <2>3, ConcatProperties
  <2>5. Len(ks) > Len(a) /\ Len(ks \o b) > Len(a)
    <3> HIDE DEF a, b, least
    <3>1. Len(ks) = Len(a) + 1 /\ Len(ks \o b) = Len(a) + 1 + Len(b)
      BY <2>3, <2>4
    <3>2. Len(a) \in Nat /\ Len(b) \in Nat
      BY <1>6
    <3> QED BY <3>1, <3>2
  <2>6. CASE Throws(node)
    BY <1>8, <1>11, <2>6
  <2>7. CASE Throws([node EXCEPT ![l].keys = ks])
    BY <1>9, <2>3, <2>5, <2>7
  <2>8. CASE Throws([node EXCEPT ![l].keys = ks \o b])
    BY <1>9, <2>4, <2>5, <2>8
  <2> QED BY <2>1, <2>6, <2>7, <2>8
<1> QED BY <1>10, <1>11

\* The steps that run out of memory.
Throwing == InsertionThrows \/ SplitThrows \/ InsertIntoParentThrows \/ BorrowThrows \/ MergeThrows

\* An exception leaves a tree that is whole, in the middle of a call, or in pieces.
LEMMA ThrowingStep ==
  ASSUME IInv, Throwing
  PROVE  (IInv' /\ node' = node) \/ InPieces'
<1>1. CASE InsertionThrows
  <2>1. ASSUME NEW k \in Keys, Idle, InsertThrows(k) PROVE (IInv' /\ node' = node) \/ InPieces'
    <3>1. todo \in After
      BY <2>1 DEF Idle, After
    <3> QED BY <2>1, <3>1, InsertThrowsStep
  <2>2. ASSUME Called("Insert"), InsertThrows(Head(todo).key)
        PROVE  (IInv' /\ node' = node) \/ InPieces'
    BY <2>2, WhenInsert, InsertThrowsStep
  <2> QED BY <1>1, <2>1, <2>2 DEF InsertionThrows
<1> QED BY <1>1, SplitThrowsStep, InsertIntoParentThrowsStep, BorrowThrowsStep, MergeThrowsStep
        DEF Throwing

\* After an exception no call is made.
LEMMA NothingFollows ==
  ASSUME todo = <<Threw>>, [Next]_vars
  PROVE  UNCHANGED vars
<1>1. ~Idle /\ Head(todo).call = "Threw"
  BY DEF Idle, Threw
<1>2. \A name : Called(name) => name = "Threw"
  BY <1>1 DEF Called
<1> QED BY <1>1, <1>2 DEF Next, Insert, RemoveRecord, Update, Clear, SplitLeaf, GrowRoot,
           InsertIntoParent, SplitInternal, ShrinkRoot, EnoughKeys, BorrowFromLeft, BorrowFromRight,
           Merge, UpdateInserts, Underflow, InsertionThrows, SplitThrows, InsertIntoParentThrows,
           BorrowThrows, MergeThrows

\* A torn tree stays as it is.
LEMMA PiecesStay ==
  ASSUME InPieces, [Next]_vars
  PROVE  InPieces' /\ UNCHANGED vars
<1>1. root' = root /\ size' = size /\ node' = node /\ todo' = todo
  BY NothingFollows DEF InPieces, vars
<1>2. Torn' /\ TypeOK' /\ DeletedOnce'
  BY <1>1 DEF InPieces, Torn, TypeOK, DeletedOnce, Calls
<1> QED BY <1>1, <1>2 DEF InPieces, vars

-----------------------------------------------------------------------------
(* The invariant holds. *)

\* The tree without nodes.
LEMMA NoTree ==
  ASSUME NEW heap, DOMAIN heap = {}, heap \in [DOMAIN heap -> NodeFields]
  PROVE  KeysOf(heap) = {} /\ Cardinality(KeysOf(heap)) = 0 /\ IsFiniteSet(KeysOf(heap))
<1>1. KeysOf(heap) = {}
  BY DEF KeysOf, Posted
<1> QED BY <1>1, FS_EmptySet

\* The invariant holds of the empty tree.
LEMMA InitMakes == Init => IInv
<1> SUFFICES ASSUME Init PROVE IInv
  OBVIOUS
<1>1. root = Null /\ size = 0 /\ DOMAIN node = {} /\ todo = << >>
  BY DEF Init
<1>2. node \in [DOMAIN node -> NodeFields]
  BY <1>1 DEF Init
<1>3. PICK h, lo, hi : Resting(node, root, h, lo, hi, Null, Null)
  BY <1>1, <1>2, NoNodes
<1>4. size = Cardinality(KeysOf(node)) /\ IsFiniteSet(KeysOf(node))
  BY <1>1, <1>2, NoTree
<1>5. Stack(node, todo, lo, Null, Null, Null, Null)
  BY <1>1 DEF Stack, After
<1> QED BY <1>3, <1>4, <1>5 DEF IInv, Resting

\* Clear deletes every node.
LEMMA ClearStep ==
  ASSUME IInv, Clear
  PROVE  IInv' /\ DOMAIN node' = {}
<1>1. /\ node' = [a \in DOMAIN node \ Below(root) |-> node[a]]
      /\ root' = Null /\ size' = 0 /\ todo' = todo /\ todo = << >>
  BY DEF Clear, Idle
<1>2. todo \in After
  BY <1>1 DEF After
<1>3. PICK h, lo, hi : Resting(node, root, h, lo, hi, Null, Null)
  BY <1>2, WhenResting
<1>4. Below(root) = DOMAIN node
  BY <1>3, BelowRoot DEF Resting
<1>5. DOMAIN node' = {}
  BY <1>1, <1>4
<1>6. node' \in [DOMAIN node' -> NodeFields]
  BY <1>1, <1>5
<1>7. PICK h2, lo2, hi2 : Resting(node', Null, h2, lo2, hi2, Null, Null)
  BY <1>5, <1>6, NoNodes
<1>8. size' = Cardinality(KeysOf(node')) /\ IsFiniteSet(KeysOf(node'))
  BY <1>1, <1>5, <1>6, NoTree
<1>9. IInv'
  BY <1>1, <1>2, <1>7, <1>8, RestAgain
<1> QED BY <1>5, <1>9

\* What Remove does, or the first half of Update.
LEMMA RemoveThenStep ==
  ASSUME IInv, todo \in After, NEW key \in Keys, NEW record \in Records, NEW after \in After,
         RemoveThen(key, record, after)
  PROVE  IInv'
BY RemovePostingStep, RemoveKeyStep DEF RemoveThen

\* Every step that does not run out of memory keeps the invariant.
LEMMA StepKeeps ==
  ASSUME IInv, [Next]_vars, ~Throwing
  PROVE  IInv'
<1>0. << >> \in After /\ \A k \in Keys, r \in Records : <<InsertLater(k, r)>> \in After
  BY DEF After
<1>1. ASSUME NEW k \in Keys, NEW r \in Records, Insert(k, r) PROVE IInv'
  <2>1. todo \in After /\ InsertThen(k, r, << >>)
    BY <1>0, <1>1 DEF Insert, Idle
  <2> QED BY <1>0, <2>1, InsertThenStep
<1>2. ASSUME NEW k \in Keys, NEW r \in Records, RemoveRecord(k, r) PROVE IInv'
  <2>1. todo \in After /\ (RemoveNothing(k) \/ RemoveThen(k, r, << >>))
    BY <1>0, <1>2 DEF RemoveRecord, Idle
  <2>2. CASE RemoveNothing(k)
    BY <2>2, StutterKeeps DEF RemoveNothing
  <2>3. CASE RemoveThen(k, r, << >>)
    BY <1>0, <2>1, <2>3, RemoveThenStep
  <2> QED BY <2>1, <2>2, <2>3
<1>3. ASSUME NEW k \in Keys, NEW l \in Keys, NEW r \in Records, Update(k, l, r) PROVE IInv'
  <2>1. todo \in After /\ RemoveThen(k, r, <<InsertLater(l, r)>>)
    BY <1>0, <1>3 DEF Update, Idle
  <2> QED BY <1>0, <2>1, RemoveThenStep
<1>4. CASE UpdateInserts
  <2>1. Called("Insert") /\ InsertThen(Head(todo).key, Head(todo).record, Rest)
    BY <1>4 DEF UpdateInserts
  <2> QED BY <2>1, WhenInsert, InsertThenStep
<1>5. CASE Clear
  BY <1>5, ClearStep
<1>6. CASE SplitLeaf
  BY <1>6, SplitLeafStep
<1>7. CASE GrowRoot
  BY <1>7, GrowRootStep
<1>8. CASE InsertIntoParent
  BY <1>8, InsertIntoParentStep
<1>9. CASE SplitInternal
  BY <1>9, SplitInternalStep
<1>10. CASE ShrinkRoot
  BY <1>10, ShrinkRootStep
<1>11. CASE EnoughKeys
  BY <1>11, EnoughKeysStep
<1>12. CASE BorrowFromLeft
  BY <1>12, BorrowFromLeftStep
<1>13. CASE BorrowFromRight
  BY <1>13, BorrowFromRightStep
<1>14. CASE Merge
  BY <1>14, MergeStep
<1>15. CASE UNCHANGED vars
  BY <1>15, StutterKeeps
<1> QED BY <1>1, <1>2, <1>3, <1>4, <1>5, <1>6, <1>7, <1>8, <1>9, <1>10, <1>11, <1>12, <1>13,
           <1>14, <1>15 DEF Next, Throwing

\* The tree is whole, or an exception has torn it.
TreeInv == IInv \/ InPieces

\* A whole tree stays whole, or is torn; a torn one stays as it is.
LEMMA NextKeeps ==
  ASSUME TreeInv, [Next]_vars
  PROVE  TreeInv'
<1>1. CASE IInv /\ ~Throwing
  BY <1>1, StepKeeps DEF TreeInv
<1>2. CASE IInv /\ Throwing
  BY <1>2, ThrowingStep DEF TreeInv
<1>3. CASE InPieces
  BY <1>3, PiecesStay DEF TreeInv
<1> QED BY <1>1, <1>2, <1>3 DEF TreeInv

\* A torn tree is one that no call is going to use.
LEMMA PiecesAreThrown == InPieces => todo = <<Threw>> /\ ~Idle
BY DEF InPieces, Idle, Threw

\* Whatever is inserted, removed, updated and cleared, and wherever memory runs out: the nodes are
\* a B+ tree of m_Order, but for the one node that a pending helper has still to split, to attach
\* or to fill, and size is the number of its keys; or the exception has left a key without its
\* list or a separator without its child (BPlusTree.hpp:390, 448, 538, 606).
THEOREM TreeAlways == Spec => []TreeInv
<1>1. Init => TreeInv
  BY InitMakes DEF TreeInv
<1> QED BY <1>1, NextKeeps, PTL DEF Spec

\* Every field of every node, and every pending call, is of its type.
THEOREM TypesAlways == Spec => []TypeOK
<1>1. TreeInv => TypeOK
  BY TypesHold DEF TreeInv, InPieces
<1> QED BY <1>1, TreeAlways, PTL

\* No node is under two parents or twice under one, also in a tree that an exception has torn, so
\* that DestroyTree deletes none twice (BPlusTree.hpp:668).
THEOREM DeletedOnceAlways == Spec => []DeletedOnce
<1>1. TreeInv => DeletedOnce
  BY OneParent DEF TreeInv, InPieces
<1> QED BY <1>1, TreeAlways, PTL

\* One node at most is a key over or under its bound, and the helper for that node is the next
\* to be called (SplitLeaf, SplitInternal, FixUnderflow).
THEOREM OneNodeInDebtAlways == Spec => []OneNodeInDebt
<1>1. TreeInv => OneNodeInDebt
  BY DebtIsDue, PiecesAreThrown DEF TreeInv, OneNodeInDebt
<1> QED BY <1>1, TreeAlways, PTL

\* Between two operations every node that is allocated is reached from the root: no split,
\* merge, borrowing or shrinking loses one, and none is deleted that is still reached.
THEOREM NothingLeaksAlways == Spec => []NothingLeaks
<1>1. TreeInv => NothingLeaks
  BY NothingLeaksAtRest, PiecesAreThrown DEF TreeInv, NothingLeaks
<1> QED BY <1>1, TreeAlways, PTL

-----------------------------------------------------------------------------
(* The map that the leaves hold, and the chain that the leaves form. *)

\* The map that the leaves of a heap hold.
MapOf(heap) == [k \in KeysOf(heap) |-> CHOOSE l : Holds(heap, k, l)]

\* No key is held twice.
HeldOnce(heap) == \A k, l, x : Holds(heap, k, l) /\ Holds(heap, k, x) => l = x

\* A key is in one leaf, at one place.
OnePlace(heap) == \A a, b \in DOMAIN heap : heap[a].leaf /\ heap[b].leaf =>
                     \A i \in 1..Len(heap[a].keys), j \in 1..Len(heap[b].keys) :
                        heap[a].keys[i] = heap[b].keys[j] => a = b /\ i = j

\* In a tree, also with a half pending, a key is in one leaf, at one place.
LEMMA PlaceIsOne ==
  ASSUME NEW heap, NEW top, NEW h, NEW lo, NEW hi, NEW left, NEW right, NEW over, NEW short,
         Tree(heap, top, h, lo, hi, left, right, over, short)
  PROVE  OnePlace(heap)
<1>1. Heap(heap) /\ Kinds(heap, h) /\ Ordered(heap, lo, hi) /\ Apart(heap, h, lo, hi)
  BY DEF Tree
<1> SUFFICES ASSUME NEW a \in DOMAIN heap, NEW b \in DOMAIN heap, heap[a].leaf, heap[b].leaf,
                    NEW i \in 1..Len(heap[a].keys), NEW j \in 1..Len(heap[b].keys),
                    heap[a].keys[i] = heap[b].keys[j]
             PROVE  a = b /\ i = j
  BY DEF OnePlace
<1>2. h[a] = 0 /\ h[b] = 0
  BY <1>1 DEF Kinds, KindOf
<1>3. InOrder(heap, lo, hi, a) /\ InOrder(heap, lo, hi, b)
  BY <1>1 DEF Ordered
<1> DEFINE k == heap[a].keys[i]
<1>4. k \in Int /\ lo[a] <= k /\ k < hi[a] /\ lo[b] <= k /\ k < hi[b]
  BY <1>1, <1>3, Fields DEF InOrder
<1> HIDE DEF k
<1>5. a = b
  BY <1>1, <1>2, <1>4, SameNode
<1>6. Len(heap[a].keys) \in Nat /\ i \in Int /\ j \in Int
  BY <1>1, Fields
<1>7. ~(i < j) /\ ~(j < i)
  <2>1. /\ \A x, y \in 1..Len(heap[a].keys) : x < y => heap[a].keys[x] < heap[a].keys[y]
        /\ ~(k < k)
    BY <1>3, <1>4 DEF InOrder
  <2> QED BY <1>5, <2>1 DEF k
<1> QED BY <1>5, <1>6, <1>7

\* A key has one posting list.
LEMMA OnceHeld ==
  ASSUME NEW heap, OnePlace(heap)
  PROVE  HeldOnce(heap)
BY DEF OnePlace, HeldOnce, Holds

\* What the map holds is what the leaves hold.
LEMMA MapHolds ==
  ASSUME NEW heap, HeldOnce(heap), Heap(heap)
  PROVE  /\ DOMAIN MapOf(heap) = KeysOf(heap)
         /\ \A k \in KeysOf(heap) : Holds(heap, k, MapOf(heap)[k])
         /\ \A k, l : Holds(heap, k, l) => k \in KeysOf(heap) /\ MapOf(heap)[k] = l
<1>1. DOMAIN MapOf(heap) = KeysOf(heap)
  BY DEF MapOf
<1>2. ASSUME NEW k \in KeysOf(heap) PROVE Holds(heap, k, MapOf(heap)[k])
  <2>1. \E l : Holds(heap, k, l)
    BY DEF KeysOf, Posted, Holds
  <2>2. MapOf(heap)[k] = CHOOSE l : Holds(heap, k, l)
    BY DEF MapOf
  <2> QED BY <2>1, <2>2
<1>3. ASSUME NEW k, NEW l, Holds(heap, k, l) PROVE k \in KeysOf(heap) /\ MapOf(heap)[k] = l
  <2>1. k \in KeysOf(heap)
    BY <1>3, Fields DEF KeysOf, Posted, Holds
  <2> QED BY <1>2, <1>3, <2>1 DEF HeldOnce
<1> QED BY <1>1, <1>2, <1>3

\* The map is the only one of which that can be said.
LEMMA MapIs ==
  ASSUME NEW heap, HeldOnce(heap), Heap(heap), NEW f, f = [k \in KeysOf(heap) |-> f[k]],
         \A k \in KeysOf(heap) : Holds(heap, k, f[k])
  PROVE  MapOf(heap) = f
<1>1. \A k \in KeysOf(heap) : Holds(heap, k, MapOf(heap)[k]) /\ Holds(heap, k, f[k])
  BY MapHolds
<1>2. \A k \in KeysOf(heap) : MapOf(heap)[k] = f[k]
  BY <1>1 DEF HeldOnce
<1>3. MapOf(heap) = [k \in KeysOf(heap) |-> MapOf(heap)[k]]
  BY DEF MapOf
<1> QED BY <1>2, <1>3

\* A heap whose map can be spoken of.
Map1(heap) == HeldOnce(heap) /\ Heap(heap)

\* The same postings make the same map.
LEMMA SameMap ==
  ASSUME NEW heap, NEW heap2, Map1(heap), Map1(heap2), SamePostings(heap, heap2)
  PROVE  MapOf(heap2) = MapOf(heap)
<1> DEFINE f == MapOf(heap)
<1>1. KeysOf(heap2) = KeysOf(heap)
  BY SameKeys
<1>2. f = [k \in KeysOf(heap2) |-> f[k]]
  BY <1>1 DEF MapOf
<1>3. \A k \in KeysOf(heap2) : Holds(heap2, k, f[k])
  BY <1>1, MapHolds DEF SamePostings, Map1
<1> HIDE DEF f
<1>4. HeldOnce(heap2) /\ Heap(heap2)
  BY DEF Map1
<1> QED BY <1>2, <1>3, <1>4, MapIs DEF f

\* A posting list that is set is set in the map.
LEMMA MapSets ==
  ASSUME NEW heap, NEW heap2, Map1(heap), Map1(heap2), NEW key \in Keys, NEW list,
         Sets(heap, heap2, key, list)
  PROVE  MapOf(heap2) = Map!Assigned(MapOf(heap), key, list)
<1> DEFINE m == MapOf(heap)
           f == [k \in KeysOf(heap2) |-> IF k = key THEN list ELSE m[k]]
<1>1. DOMAIN m = KeysOf(heap) /\ \A k \in KeysOf(heap) : Holds(heap, k, m[k])
  BY MapHolds DEF Map1
<1>2. KeysOf(heap2) = KeysOf(heap) \cup {key}
  BY KeysAfter
<1> HIDE DEF m
<1>4. \A k \in KeysOf(heap2) : f[k] = IF k = key THEN list ELSE m[k]
  OBVIOUS
<1>7. f = [k \in KeysOf(heap2) |-> f[k]]
  OBVIOUS
<1>3. f = Map!Assigned(m, key, list)
  BY <1>1, <1>2 DEF Map!Assigned
<1> HIDE DEF f
<1>5. \A k \in KeysOf(heap2) : Holds(heap2, k, f[k])
  BY <1>1, <1>2, <1>4 DEF Sets
<1>6. HeldOnce(heap2) /\ Heap(heap2)
  BY DEF Map1
<1>8. MapOf(heap2) = f
  BY <1>5, <1>6, <1>7, MapIs
<1> QED BY <1>3, <1>8 DEF m

\* A key that is dropped leaves the map.
LEMMA MapDrops ==
  ASSUME NEW heap, NEW heap2, Map1(heap), Map1(heap2), NEW key \in Keys, Drops(heap, heap2, key)
  PROVE  MapOf(heap2) = Restrict(MapOf(heap), KeysOf(heap) \ {key})
<1> DEFINE m == MapOf(heap)
           f == [k \in KeysOf(heap) \ {key} |-> m[k]]
<1>1. DOMAIN m = KeysOf(heap) /\ \A k \in KeysOf(heap) : Holds(heap, k, m[k])
  BY MapHolds DEF Map1
<1>2. KeysOf(heap2) = KeysOf(heap) \ {key}
  BY KeysAfter
<1> HIDE DEF m
<1>3. f = [k \in KeysOf(heap2) |-> f[k]]
  BY <1>2
<1>5. \A k \in KeysOf(heap2) : Holds(heap2, k, f[k])
  BY <1>1, <1>2 DEF Drops
<1> HIDE DEF f
<1>6. HeldOnce(heap2) /\ Heap(heap2)
  BY DEF Map1
<1>8. MapOf(heap2) = f
  BY <1>3, <1>5, <1>6, MapIs
<1> QED BY <1>8 DEF f, m, Restrict

\* Along the first children a descent comes to the leaf where the root's interval begins.
LEMMA LeftmostFinds ==
  ASSUME NEW h, NEW lo, NEW hi, NEW left, NEW right, NEW over, NEW short,
         Tree(node, root, h, lo, hi, left, right, over, short), root # Null
  PROVE  Leftmost(root) \in DOMAIN node /\ node[Leftmost(root)].leaf /\ lo[Leftmost(root)] = lo[root]
<1> DEFINE S == DOMAIN node
           E == {a \in S : node[a].leaf}
           next == [a \in S \ E |-> node[a].children[1]]
           out == [a \in S |-> a]
           Turn(f, a) == IF node[a].leaf THEN a ELSE f[node[a].children[1]]
           f == CHOOSE f : f = [a \in S |-> Turn(f, a)]
           P == {a \in S : lo[a] = lo[root]}
<1>0. /\ Heap(node) /\ Kinds(node, h) /\ Down(node, h, lo, hi, left, right)
      /\ root \in S
  BY DEF Tree, Whole
<1>1. Leftmost(root) = f[root]
  BY DEF Leftmost
<1>3. \A a \in S \ E : LET c == node[a].children[1] IN
        c \in S /\ h[c] + 1 = h[a] /\ h[c] \in Nat /\ lo[c] = lo[a]
  <2> TAKE a \in S \ E
  <2>1. Len(node[a].children) = Len(node[a].keys) + 1 /\ Len(node[a].keys) \in Nat
    BY <1>0, Fields DEF Kinds, KindOf
  <2>2. 1 \in 1..Len(node[a].children)
    BY <2>1
  <2>3. Hangs(node, h, lo, hi, left, right, a, 1)
    BY <1>0, <2>2 DEF Down
  <2> QED BY <1>0, <2>3 DEF Hangs, ChildLow, Kinds
<1>4. E \in SUBSET S /\ next \in [S \ E -> S]
  BY <1>3
<1>5. \A a \in S : f[a] = IF a \in E THEN out[a] ELSE f[next[a]]
  <2>1. PICK g : Gives(S, E, next, out, g)
    <3> HIDE DEF S, E, next, out
    <3> QED BY <1>4, DescentGives
  <2>2. g = [a \in S |-> IF a \in E THEN out[a] ELSE g[next[a]]]
    BY <2>1 DEF Gives
  <2>3. \A d, a : a \in S => Turn(d, a) = IF a \in E THEN out[a] ELSE d[next[a]]
    OBVIOUS
  <2> HIDE DEF next, out, E, Turn
  <2>4. g = [a \in S |-> Turn(g, a)]
    BY <2>2, <2>3
  <2>5. f = [a \in S |-> Turn(f, a)]
    BY <2>4
  <2> HIDE DEF f
  <2> QED BY <2>3, <2>5
<1>6. Descends(S, E, next, out, f, h)
  <2>1. h \in [S -> Nat]
    BY <1>0 DEF Kinds
  <2>2. \A a \in S \ E : h[next[a]] < h[a]
    <3> TAKE a \in S \ E
    <3>1. next[a] \in S /\ h[next[a]] + 1 = h[a] /\ h[next[a]] \in Nat
      BY <1>3
    <3> QED BY <3>1
  <2> HIDE DEF S, E, next, out, f
  <2> QED BY <1>4, <1>5, <2>1, <2>2 DEF Descends
<1>7. \A a \in P \ E : next[a] \in P
  BY <1>3
<1>8. root \in P /\ P \in SUBSET S
  BY <1>0
<1>9. \E e \in P \cap E : f[root] = out[e]
  <2> HIDE DEF S, E, P, f, next, out
  <2> QED BY <1>6, <1>7, <1>8, DescentStays
<1> HIDE DEF f
<1> QED BY <1>1, <1>9

\* A set of leaves that has the first one and, with each, the next one, has all of them.
LEMMA AllChained ==
  ASSUME NEW heap, NEW top, NEW h, NEW lo, NEW hi, NEW left, NEW right, NEW over, NEW short,
         Tree(heap, top, h, lo, hi, left, right, over, short),
         NEW W, NEW first \in W, first \in DOMAIN heap, heap[first].leaf, lo[first] = lo[top],
         \A a \in W : a \in DOMAIN heap => heap[a].next = Null \/ heap[a].next \in W,
         NEW b \in DOMAIN heap, heap[b].leaf
  PROVE  b \in W
<1> DEFINE L == {a \in DOMAIN heap : heap[a].leaf}
           T == {a \in L : a \notin W}
           rank == [a \in L |-> lo[a] - lo[top]]
<1>1. /\ Heap(heap) /\ Kinds(heap, h) /\ Ordered(heap, lo, hi) /\ Apart(heap, h, lo, hi)
      /\ Whole(heap, top, h, lo, hi, left, right) /\ Chain(heap, top, lo, hi, left, right)
  BY DEF Tree
<1>2. \A a \in DOMAIN heap : lo[a] \in Int /\ hi[a] \in Int /\ lo[a] < hi[a] /\ a # Null
  BY <1>1 DEF Heap, Ordered, InOrder
<1>3. top \in DOMAIN heap /\ \A a \in DOMAIN heap : lo[top] <= lo[a]
  BY <1>1 DEF Whole
<1>4. \A a \in L : rank[a] \in Nat
  BY <1>2, <1>3
<1> SUFFICES ASSUME T # {} PROVE FALSE
  OBVIOUS
<1>5. PICK x \in T : \A y \in T : ~(rank[y] < rank[x])
  <2>1. \A y \in T : rank[y] \in Nat
    BY <1>4
  <2> HIDE DEF T, rank
  <2> QED BY <2>1, LeastRank
<1>6. Linked(heap, top, lo, hi, left, right, x)
  BY <1>1 DEF Chain
<1> DEFINE p == heap[x].previous
<1>7. CASE p = Null
  <2>1. lo[x] = lo[top]
    BY <1>6, <1>7 DEF Linked
  <2>2. h[x] = h[first]
    BY <1>1 DEF Kinds, KindOf
  <2>3. x = first
    BY <1>1, <2>1, <2>2, SameNode
  <2> QED BY <2>3
<1>8. CASE p # Null
  <2>1. p \in L /\ hi[p] = lo[x] /\ heap[p].next = x
    BY <1>6, <1>8 DEF Linked
  <2>2. lo[p] < lo[x] /\ lo[p] \in Int /\ lo[x] \in Int /\ lo[top] \in Int
    BY <1>2, <1>3, <2>1
  <2> HIDE DEF p
  <2>3. rank[p] < rank[x]
    BY <2>1, <2>2
  <2>4. p \in W
    BY <1>5, <2>1, <2>3
  <2>5. x \in W
    BY <1>2, <2>1, <2>4
  <2> QED BY <2>5
<1> QED BY <1>7, <1>8

\* The leaves found along the next pointers are all the leaves.
LEMMA ChainedLeavesAre ==
  ASSUME NEW h, NEW lo, NEW hi, NEW left, NEW right, NEW over, NEW short,
         Tree(node, root, h, lo, hi, left, right, over, short)
  PROVE  ChainedLeaves = {a \in DOMAIN node : node[a].leaf}
<1> DEFINE S == DOMAIN node
           L == {a \in S : node[a].leaf}
           kids == [x \in S |-> IF node[x].next = Null THEN {} ELSE {node[x].next}]
           Turn(f, x) == IF x = Null THEN {} ELSE {x} \cup f[node[x].next]
           f == CHOOSE f : f = [x \in {Null} \cup S |-> Turn(f, x)]
           end == End(hi, left, right, root)
<1>1. /\ Heap(node) /\ Kinds(node, h) /\ Ordered(node, lo, hi)
      /\ Whole(node, root, h, lo, hi, left, right) /\ Chain(node, root, lo, hi, left, right)
      /\ Pending(node, root, h, lo, hi, left, right)
  BY DEF Tree
<1>2. Null \notin S /\ \A x \in S : lo[x] \in Int /\ hi[x] \in Int /\ lo[x] < hi[x]
  BY <1>1 DEF Heap, Ordered, InOrder
<1>3. CASE root = Null
  <2>1. S = {}
    BY <1>1, <1>3 DEF Whole
  <2>2. ChainedLeaves = {}
    BY <1>3 DEF ChainedLeaves
  <2> QED BY <2>1, <2>2
<1>4. CASE root # Null
  <2>1. root \in S /\ \A x \in S : hi[x] <= end
    BY <1>1, <1>4 DEF Whole
  <2>2. end \in Int
    <3>1. left = root => right \in S
      BY <1>1, <1>4 DEF Pending
    <3> QED BY <1>2, <2>1, <3>1 DEF End
  <2> DEFINE first == Leftmost(root)
  <2>3. first \in S /\ node[first].leaf /\ lo[first] = lo[root]
    BY <1>4, LeftmostFinds
  <2>4. ASSUME NEW x \in L, node[x].next # Null
        PROVE  node[x].next \in L /\ lo[node[x].next] = hi[x]
    <3>1. Linked(node, root, lo, hi, left, right, x)
      BY <1>1 DEF Chain
    <3> QED BY <2>4, <3>1 DEF Linked
  <2>5. ASSUME NEW x \in S, x \notin L PROVE node[x].next = Null
    BY <1>1, <2>5 DEF Kinds, KindOf
  <2>6. kids \in [S -> SUBSET S]
    <3>1. \A x \in S : node[x].next # Null => node[x].next \in S
      BY <2>4, <2>5
    <3>2. \A x \in S : kids[x] \in SUBSET S
      BY <3>1
    <3> QED BY <3>2
  <2>7. \A x \in S : kids[x] = IF node[x].next = Null THEN {} ELSE {node[x].next}
    OBVIOUS
  <2> HIDE DEF kids
  <2>8. ASSUME NEW g, g[Null] = {}, NEW x \in S
        PROVE  Turn(g, x) = {x} \cup UNION {g[c] : c \in kids[x]}
    <3>1. CASE node[x].next = Null
      BY <1>2, <2>7, <2>8, <3>1
    <3>2. CASE node[x].next # Null
      BY <1>2, <2>7, <3>2
    <3> QED BY <3>1, <3>2
  <2>9. \A g : Turn(g, Null) = {}
    OBVIOUS
  <2> HIDE DEF Turn
  <2>10. Gathers(S, kids, f)
    <3>1. PICK g : Gathers(S, kids, g)
      <4> HIDE DEF S
      <4> QED BY <1>2, <2>6, GatherExists
    <3>2. /\ g = [x \in {Null} \cup S |-> g[x]] /\ g[Null] = {}
          /\ \A x \in S : g[x] = {x} \cup UNION {g[c] : c \in kids[x]}
      BY <1>2, <3>1 DEF Gathers
    <3>3. \A x \in {Null} \cup S : g[x] = Turn(g, x)
      BY <2>8, <2>9, <3>2
    <3>4. g = [x \in {Null} \cup S |-> Turn(g, x)]
      BY <3>2, <3>3
    <3>5. f = [x \in {Null} \cup S |-> Turn(f, x)]
      BY <3>4
    <3> HIDE DEF f
    <3>6. f[Null] = {} /\ f = [x \in {Null} \cup S |-> f[x]]
      BY <2>9, <3>5
    <3>7. \A x \in S : f[x] = {x} \cup UNION {f[c] : c \in kids[x]}
      BY <2>8, <3>5, <3>6
    <3>8. f = [x \in {Null} \cup S |-> IF x = Null THEN {} ELSE {x} \cup UNION {f[c] : c \in kids[x]}]
      BY <3>6, <3>7
    <3> QED BY <3>8 DEF Gathers
  <2>11. ChainedLeaves = f[first]
    BY <1>4 DEF ChainedLeaves, Turn
  <2> HIDE DEF f, first, end
  <2> DEFINE kids2 == [x \in L |-> kids[x]]
             g == [x \in {Null} \cup L |-> f[x]]
             rank == [x \in L |-> end - lo[x]]
  <2>20. ASSUME NEW x \in L, NEW c \in kids[x] PROVE c \in L /\ lo[c] = hi[x]
    <3>1. kids[x] = IF node[x].next = Null THEN {} ELSE {node[x].next}
      <4>1. x \in S
        OBVIOUS
      <4> HIDE DEF S, L
      <4> QED BY <2>7, <4>1
    <3>2. c = node[x].next /\ node[x].next # Null
      <4> HIDE DEF S, L
      <4> QED BY <2>20, <3>1
    <3>3. node[x].next \in L /\ lo[node[x].next] = hi[x]
      <4> HIDE DEF S, L
      <4> QED BY <2>4, <3>2
    <3> HIDE DEF L
    <3> QED BY <3>2, <3>3
  <2>12. kids2 \in [L -> SUBSET L]
    <3> HIDE DEF L
    <3>1. \A x \in L : kids[x] \in SUBSET L
      BY <2>20
    <3> QED BY <3>1
  <2>13. Gathers(L, kids2, g)
    <3>1. f = [x \in {Null} \cup S |-> IF x = Null THEN {} ELSE {x} \cup UNION {f[c] : c \in kids[x]}]
      BY <2>10 DEF Gathers
    <3>2. \A x \in L : kids[x] \subseteq L
      <4> HIDE DEF L
      <4> QED BY <2>20
    <3>3. \A x \in L : {f[c] : c \in kids[x]} = {g[c] : c \in kids2[x]}
      BY <3>2
    <3>4. \A x \in {Null} \cup L : g[x] = IF x = Null THEN {} ELSE {x} \cup UNION {g[c] : c \in kids2[x]}
      BY <1>2, <3>1, <3>3
    <3>5. g = [x \in {Null} \cup L |-> g[x]]
      OBVIOUS
    <3> HIDE DEF g, kids2
    <3> QED BY <3>4, <3>5 DEF Gathers
  <2>14. \A x \in L : rank[x] \in Nat /\ \A c \in kids2[x] : rank[c] < rank[x]
    <3> TAKE x \in L
    <3>1. lo[x] \in Int /\ hi[x] \in Int /\ lo[x] < hi[x] /\ hi[x] <= end
      BY <1>2, <2>1
    <3>2. rank[x] \in Nat
      BY <2>2, <3>1
    <3>3. ASSUME NEW c \in kids2[x] PROVE rank[c] < rank[x]
      <4>1. c \in L /\ lo[c] = hi[x]
        <5> HIDE DEF L
        <5> QED BY <2>20
      <4> QED BY <2>2, <3>1, <4>1
    <3> QED BY <3>2, <3>3
  <2>15. first \in L
    BY <2>3
  <2>16. first \in g[first] /\ g[first] \subseteq L /\ \A y \in g[first] : kids2[y] \subseteq g[first]
    <3>1. Null \notin L
      BY <1>2
    <3> HIDE DEF L, kids2, g, rank
    <3> QED BY <2>12, <2>13, <2>14, <2>15, <3>1, GatherGives
  <2>17. g[first] = f[first]
    BY <2>15
  <2> HIDE DEF g
  <2>18. \A a \in f[first] : a \in S => node[a].next = Null \/ node[a].next \in f[first]
    BY <2>7, <2>16, <2>17
  <2>19. \A b \in L : b \in f[first]
    <3> DEFINE W == f[first]
    <3>1. /\ first \in W /\ first \in DOMAIN node /\ node[first].leaf /\ lo[first] = lo[root]
          /\ \A a \in W : a \in DOMAIN node => node[a].next = Null \/ node[a].next \in W
      BY <2>3, <2>16, <2>17, <2>18
    <3> HIDE DEF W
    <3>2. \A b \in DOMAIN node : node[b].leaf => b \in W
      BY <3>1, AllChained
    <3> QED BY <3>2 DEF W
  <2> QED BY <2>11, <2>16, <2>17, <2>19
<1> QED BY <1>3, <1>4

\* The map that the leaf chain holds is the one that the leaves hold.
LEMMA PostingsAre ==
  ASSUME NEW h, NEW lo, NEW hi, NEW left, NEW right, NEW over, NEW short,
         Tree(node, root, h, lo, hi, left, right, over, short)
  PROVE  Postings = MapOf(node) /\ Map1(node)
<1> DEFINE L == {a \in DOMAIN node : node[a].leaf}
           leafOf(k) == CHOOSE a \in L : k \in ToSet(node[a].keys)
           at(k) == CHOOSE i \in DOMAIN node[leafOf(k)].keys : node[leafOf(k)].keys[i] = k
           f == [k \in UNION {ToSet(node[a].keys) : a \in L} |-> node[leafOf(k)].values[at(k)]]
<1>1. Heap(node)
  BY DEF Tree
<1>2. HeldOnce(node) /\ Map1(node)
  BY <1>1, PlaceIsOne, OnceHeld DEF Map1
<1>3. Postings = f
  <2>1. ChainedLeaves = L
    BY ChainedLeavesAre
  <2> QED BY <2>1 DEF Postings
<1>4. \A a \in L : /\ DOMAIN node[a].keys = 1..Len(node[a].keys)
                   /\ \A k : k \in ToSet(node[a].keys) <=> \E i \in 1..Len(node[a].keys) : node[a].keys[i] = k
                   /\ \A i \in 1..Len(node[a].keys) : node[a].keys[i] \in Keys
  <2> TAKE a \in L
  <2> DEFINE s == node[a].keys
  <2>1. s \in Seq(Keys) /\ \A i \in 1..Len(s) : s[i] \in Keys
    BY <1>1, Fields
  <2> HIDE DEF s
  <2>2. DOMAIN s = 1..Len(s)
    BY <2>1
  <2>3. \A k : k \in ToSet(s) <=> \E i \in 1..Len(s) : s[i] = k
    BY <2>2 DEF ToSet
  <2> QED BY <2>1, <2>2, <2>3 DEF s
<1>5. UNION {ToSet(node[a].keys) : a \in L} = KeysOf(node)
  <2>1. ASSUME NEW k \in KeysOf(node) PROVE \E a \in L : k \in ToSet(node[a].keys)
    <3>1. PICK a \in DOMAIN node : node[a].leaf /\ \E i \in 1..Len(node[a].keys) : node[a].keys[i] = k
      BY DEF KeysOf, Posted
    <3>2. a \in L
      BY <3>1
    <3>3. k \in ToSet(node[a].keys)
      <4> HIDE DEF L
      <4> QED BY <1>4, <3>1, <3>2
    <3> QED BY <3>2, <3>3
  <2>2. ASSUME NEW a \in L, NEW k \in ToSet(node[a].keys) PROVE k \in KeysOf(node)
    <3>1. a \in DOMAIN node /\ node[a].leaf
      OBVIOUS
    <3>2. PICK i \in 1..Len(node[a].keys) : node[a].keys[i] = k
      <4> HIDE DEF L
      <4> QED BY <1>4, <2>2
    <3>3. k \in Keys
      <4> HIDE DEF L
      <4> QED BY <1>4, <2>2, <3>2
    <3> QED BY <3>1, <3>2, <3>3 DEF KeysOf, Posted
  <2> QED BY <2>1, <2>2
<1>6. ASSUME NEW k \in KeysOf(node) PROVE Holds(node, k, f[k])
  <2> DEFINE a == leafOf(k)
             i == at(k)
  <2>1. \E b \in L : k \in ToSet(node[b].keys)
    BY <1>5
  <2>2. a \in L /\ k \in ToSet(node[a].keys)
    BY <2>1
  <2>3. f[k] = node[a].values[i]
    BY <1>5
  <2> HIDE DEF a
  <2>4. \E j \in DOMAIN node[a].keys : node[a].keys[j] = k
    BY <1>4, <2>2
  <2>5. i = CHOOSE j \in DOMAIN node[a].keys : node[a].keys[j] = k
    BY DEF a
  <2>6. i \in DOMAIN node[a].keys /\ node[a].keys[i] = k
    <3> HIDE DEF i
    <3> QED BY <2>4, <2>5
  <2> HIDE DEF i, f
  <2> QED BY <1>4, <2>2, <2>3, <2>6 DEF Holds
<1>7. f = [k \in KeysOf(node) |-> f[k]]
  BY <1>5, SMTT(20)
<1> HIDE DEF f
<1>8. MapOf(node) = f
  BY <1>1, <1>2, <1>6, <1>7, MapIs
<1> QED BY <1>2, <1>3, <1>8

-----------------------------------------------------------------------------
(* What is seen of a helper. *)

\* The insertion that a stack of calls ends with.
PendingOf(calls) ==
    IF calls # << >> /\ Last(calls).call = "Insert" THEN <<Last(calls).key, Last(calls).record>> ELSE << >>

\* The leaf chain holds the map that the leaves hold, and what is pending is the last call's.
Matches == /\ Map1(node)
           /\ Postings = MapOf(node)
           /\ MapPostings = MapOf(node)
           /\ todo # <<Threw>> => MapPending = PendingOf(todo)

\* So it is while the tree is whole.
Shown == IInv => Matches

\* Whoever walks the leaf chain of a whole tree sees the postings that the leaves hold, also
\* between two steps of a split or a merge.
LEMMA ChainMatches == Shown
<1> SUFFICES ASSUME IInv PROVE Matches
  BY DEF Shown
<1>1. PICK h, lo, hi, left, right, over, short : Tree(node, root, h, lo, hi, left, right, over, short)
  BY DEF IInv
<1>2. Postings = MapOf(node) /\ Map1(node)
  BY <1>1, PostingsAre
<1>3. ~Torn
  BY NotTorn
<1>4. MapPostings = MapOf(node)
  BY <1>2, <1>3 DEF MapPostings
<1>5. todo # <<Threw>> => MapPending = PendingOf(todo)
  BY <1>3 DEF MapPending, PendingOf
<1> QED BY <1>2, <1>4, <1>5 DEF Matches

\* Who walks the leaf chain does not see a step that keeps the posting lists of the leaves.
LEMMA SameView ==
  ASSUME Matches, Matches', SamePostings(node, node')
  PROVE  UNCHANGED Postings /\ UNCHANGED MapPostings
<1>1. /\ Map1(node) /\ Map1(node') /\ Postings = MapOf(node) /\ Postings' = MapOf(node')
      /\ MapPostings = MapOf(node) /\ MapPostings' = MapOf(node')
  BY DEF Matches
<1>2. MapOf(node') = MapOf(node)
  BY <1>1, SameMap
<1> QED BY <1>1, <1>2

\* The steps that are neither an operation of the caller nor an insertion, and that return.
Restructures == \/ SplitLeaf \/ GrowRoot \/ InsertIntoParent \/ SplitInternal
                \/ ShrinkRoot \/ EnoughKeys \/ BorrowFromLeft \/ BorrowFromRight \/ Merge

\* A helper keeps every posting list.
LEMMA RestructuresSame ==
  ASSUME IInv, Restructures
  PROVE  SamePostings(node, node')
BY SplitLeafStep, GrowRootStep, InsertIntoParentStep, SplitInternalStep, ShrinkRootStep,
   EnoughKeysStep, BorrowFromLeftStep, BorrowFromRightStep, MergeStep DEF Restructures

\* A helper that returns finds and leaves a whole tree.
LEMMA HelperKeeps ==
  ASSUME IInv, Restructures
  PROVE  IInv'
BY SplitLeafStep, GrowRootStep, InsertIntoParentStep, SplitInternalStep, ShrinkRootStep,
   EnoughKeysStep, BorrowFromLeftStep, BorrowFromRightStep, MergeStep DEF Restructures

\* Only the calls of a user change what the leaf chain holds, or an exception that tears the tree.
LEMMA StepInvisible ==
  ASSUME TreeInv, Shown, Shown', [Next]_vars
  PROVE  [Idle \/ Called("Insert") \/ Torn' \/ UNCHANGED Postings]_vars
<1>1. CASE InPieces
  BY <1>1, PiecesStay
<1>2. CASE IInv
  <2>1. ASSUME NEW k \in Keys, NEW r \in Records, Insert(k, r) \/ RemoveRecord(k, r) PROVE Idle
    BY <2>1 DEF Insert, RemoveRecord
  <2>2. ASSUME NEW k \in Keys, NEW l \in Keys, NEW r \in Records, Update(k, l, r) PROVE Idle
    BY <2>2 DEF Update
  <2>3. ASSUME Clear PROVE Idle
    BY <2>3 DEF Clear
  <2>4. ASSUME UpdateInserts PROVE Called("Insert")
    BY <2>4 DEF UpdateInserts
  <2>5. ASSUME Restructures PROVE UNCHANGED Postings
    <3>1. Matches /\ Matches'
      BY <1>2, <2>5, HelperKeeps DEF Shown
    <3> QED BY <1>2, <2>5, <3>1, RestructuresSame, SameView
  <2>6. ASSUME Throwing PROVE Torn' \/ UNCHANGED Postings
    <3>1. CASE InPieces'
      BY <3>1 DEF InPieces
    <3>2. CASE IInv' /\ node' = node
      <4>1. Matches /\ Matches'
        BY <1>2, <3>2 DEF Shown
      <4>2. Postings = MapOf(node) /\ Postings' = MapOf(node')
        BY <4>1 DEF Matches
      <4> QED BY <3>2, <4>2
    <3> QED BY <1>2, <2>6, <3>1, <3>2, ThrowingStep
  <2> QED BY <2>1, <2>2, <2>3, <2>4, <2>5, <2>6 DEF Next, Restructures, Throwing
<1> QED BY <1>1, <1>2 DEF TreeInv

\* No split, merge, borrowing, growing or shrinking changes, loses, copies or moves out of reach
\* a posting: what the leaf chain holds changes only when a caller inserts, removes or clears, or
\* when an exception tears the tree.
THEOREM RestructuringAlwaysInvisible == Spec => RestructuringIsInvisible
<1> QED BY TreeAlways, ChainMatches, StepInvisible, PTL DEF Spec, RestructuringIsInvisible

-----------------------------------------------------------------------------
(* The map that the tree implements. *)

\* The names of the helpers that can be on top of the stack.
Helpers == {"SplitLeaf", "SplitInternal", "InsertIntoParent", "FixUnderflow"}

\* A helper leaves what is below it on the stack.
LEMMA StackTop ==
  ASSUME IInv, todo # << >>, Head(todo).call \in Helpers
  PROVE  Rest \in After /\ todo = <<Head(todo)>> \o Rest
<1>1. PICK h, lo, hi, left, right, over, short :
         /\ Tree(node, root, h, lo, hi, left, right, over, short)
         /\ todo = <<Threw>> \/ Stack(node, todo, lo, left, right, over, short)
  BY DEF IInv
<1>2. todo # <<Threw>>
  BY DEF Threw, Helpers
<1>3. todo \notin After
  <2> SUFFICES ASSUME todo \in After PROVE FALSE
    OBVIOUS
  <2>1. Head(todo).call = "Insert"
    BY Afterwards
  <2> QED BY <2>1 DEF Helpers
<1>4. \E c : \E rest \in After : todo = <<c>> \o rest
  <2>1. ASSUME \E rest \in After :
                  todo = <<IF node[over].leaf THEN SplitLeafOf(over) ELSE SplitInternalOf(over)>> \o rest
        PROVE  \E c : \E rest \in After : todo = <<c>> \o rest
    BY <2>1
  <2>2. ASSUME \E rest \in After : todo = <<FixUnderflowOf(short)>> \o rest
        PROVE  \E c : \E rest \in After : todo = <<c>> \o rest
    BY <2>2
  <2>3. ASSUME \E rest \in After : todo = <<ParentGains(left, lo[right], right)>> \o rest
        PROVE  \E c : \E rest \in After : todo = <<c>> \o rest
    BY <2>3
  <2> QED BY <1>1, <1>2, <1>3, <2>1, <2>2, <2>3 DEF Stack
<1>7. PICK c : \E rest \in After : todo = <<c>> \o rest
  BY <1>4
<1>5. PICK rest \in After : todo = <<c>> \o rest
  BY <1>7
<1>6. Head(<<c>> \o rest) = c /\ Tail(<<c>> \o rest) = rest
  BY OnTop
<1> QED BY <1>5, <1>6 DEF Rest

\* An insertion that is pending, and none.
LEMMA PendingAfter ==
  /\ PendingOf(<< >>) = << >>
  /\ \A k, r : PendingOf(<<InsertLater(k, r)>>) = <<k, r>>
<1>1. PendingOf(<< >>) = << >>
  BY DEF PendingOf
<1>2. ASSUME NEW k, NEW r PROVE PendingOf(<<InsertLater(k, r)>>) = <<k, r>>
  <2> DEFINE c == InsertLater(k, r)
  <2>1. c.call = "Insert" /\ c.key = k /\ c.record = r
    BY DEF InsertLater
  <2> HIDE DEF c
  <2>2. Last(<<c>>) = c /\ <<c>> # << >>
    BY DEF Last
  <2>3. PendingOf(<<c>>) = <<k, r>>
    BY <2>1, <2>2 DEF PendingOf
  <2> QED BY <2>3 DEF c
<1> QED BY <1>1, <1>2

\* A helper on top of the stack does not change what is pending.
LEMMA PendingBelow ==
  ASSUME NEW c, c.call # "Insert", NEW rest \in After
  PROVE  PendingOf(<<c>> \o rest) = PendingOf(rest)
<1>1. CASE rest = << >>
  <2>1. <<c>> \o rest = <<c>>
    BY <1>1
  <2>2. Last(<<c>>) = c /\ <<c>> # << >>
    BY DEF Last
  <2>3. PendingOf(<<c>>) = << >>
    BY <2>2 DEF PendingOf
  <2> QED BY <1>1, <2>1, <2>3, PendingAfter
<1>2. CASE rest # << >>
  <2>1. PICK k \in Keys, r \in Records : rest = <<InsertLater(k, r)>>
    BY <1>2 DEF After
  <2> DEFINE d == InsertLater(k, r)
  <2> HIDE DEF d
  <2>2. rest = <<d>>
    BY <2>1 DEF d
  <2> DEFINE T == {c, d}
             s == <<c>> \o rest
  <2>5. rest \in Seq(T) /\ c \in T /\ Len(rest) = 1 /\ rest[1] = d
    BY <2>2
  <2> HIDE DEF T
  <2>6. Len(s) = 2 /\ s[2] = d /\ s # << >>
    <3>1. /\ s \in Seq(T) /\ Len(s) = Len(rest) + 1
          /\ \A i \in 1..Len(rest) + 1 : s[i] = IF i = 1 THEN c ELSE rest[i - 1]
      <4>1. rest \in Seq(T) /\ c \in T
        BY <2>5
      <4> QED BY <4>1, ConsElements
    <3> HIDE DEF s
    <3> QED BY <2>5, <3>1
  <2> HIDE DEF s
  <2>7. Last(s) = d
    BY <2>6 DEF Last
  <2>8. Last(rest) = d /\ rest # << >>
    BY <2>5, SMTT(20) DEF Last
  <2>9. PendingOf(s) = PendingOf(rest)
    BY <2>6, <2>7, <2>8 DEF PendingOf
  <2> QED BY <2>9 DEF s
<1> QED BY <1>1, <1>2

\* An insertion leaves on the stack what it was given, under at most a split.
LEMMA InsertionStack ==
  ASSUME NEW key, NEW record, NEW after \in After, InsertThen(key, record, after)
  PROVE  todo' = after \/ todo' = <<SplitLeafOf(FindLeaf(key))>> \o after
<1>1. << >> \o after = after
  BY Afterwards
<1> QED BY <1>1 DEF InsertThen, InsertFirst, AppendPosting, InsertKey

\* So does a removal, under at most a repair.
LEMMA RemovalStack ==
  ASSUME NEW key, NEW record, NEW after \in After, RemoveThen(key, record, after)
  PROVE  todo' = after \/ todo' = <<FixUnderflowOf(FindLeaf(key))>> \o after
BY DEF RemoveThen, RemovePosting, RemoveKey

\* A map with no key is the empty function.
LEMMA EmptyMap ==
  ASSUME NEW heap, KeysOf(heap) = {}
  PROVE  MapOf(heap) = << >>
<1> DEFINE f == MapOf(heap)
<1>1. f = [k \in {} |-> f[k]]
  BY DEF MapOf
<1>2. {} = 1..0
  OBVIOUS
<1>3. f \in [1..0 -> {}]
  <2> HIDE DEF f
  <2> QED BY <1>1, <1>2
<1> HIDE DEF f
<1>4. f \in Seq({}) /\ Len(f) = 0
  BY <1>3
<1>5. f = << >>
  BY <1>4, SeqEqual
<1> QED BY <1>5 DEF f

\* What a search returns is what the map holds, when no helper is pending.
LEMMA SearchIsMap ==
  ASSUME IInv, todo \in After, Matches, NEW key \in Keys
  PROVE  /\ Search(key) = Map!ListOf(key)
         /\ ContainsKey(key) <=> key \in DOMAIN MapPostings
<1>1. Map1(node) /\ MapPostings = MapOf(node)
  BY DEF Matches
<1> DEFINE m == MapOf(node)
<1>2. /\ DOMAIN m = KeysOf(node)
      /\ \A k, l : Holds(node, k, l) => k \in KeysOf(node) /\ m[k] = l
  BY <1>1, MapHolds DEF Map1
<1> HIDE DEF m
<1>3. /\ ContainsKey(key) <=> key \in KeysOf(node)
      /\ Search(key) = IF key \in KeysOf(node) THEN m[key] ELSE << >>
  <2>1. CASE root = Null
    <3>1. ~ContainsKey(key) /\ Search(key) = << >>
      BY <2>1, NothingThere
    <3>2. PICK h, lo, hi : Resting(node, root, h, lo, hi, Null, Null)
      BY WhenResting
    <3>3. DOMAIN node = {}
      BY <2>1, <3>2, Parts DEF Whole
    <3>4. KeysOf(node) = {}
      BY <3>3 DEF KeysOf, Posted
    <3> QED BY <3>1, <3>4
  <2>2. CASE root # Null
    <3>1. PICK h, lo, hi : Resting(node, root, h, lo, hi, Null, Null) /\ lo[root] <= key /\ key < hi[root]
      BY <2>2, LeafReached
    <3> DEFINE a == FindLeaf(key)
               s == Slot(key)
    <3>2. Reached(a, s, lo, hi, key)
      BY <2>2, <3>1, Found
    <3> HIDE DEF a, s
    <3>3. /\ a \in DOMAIN node /\ node[a].leaf
          /\ ContainsKey(key) <=> s \in 1..Len(node[a].keys) /\ node[a].keys[s] = key
          /\ ContainsKey(key) <=> Posted(node, key)
          /\ Search(key) = IF ContainsKey(key) THEN node[a].values[s] ELSE << >>
      BY <3>2 DEF Reached
    <3>4. key \in KeysOf(node) <=> ContainsKey(key)
      BY <3>3 DEF KeysOf
    <3>5. ContainsKey(key) => Holds(node, key, node[a].values[s])
      BY <3>3 DEF Holds
    <3>6. ContainsKey(key) => m[key] = node[a].values[s]
      BY <1>2, <3>5
    <3> QED BY <3>3, <3>4, <3>6
  <2> QED BY <2>1, <2>2
<1>4. Map!ListOf(key) = IF key \in DOMAIN MapPostings THEN MapPostings[key] ELSE << >>
  BY DEF Map!ListOf
<1> QED BY <1>1, <1>2, <1>3, <1>4 DEF m

\* An insertion, seen as one of the map.
LEMMA PutSeen ==
  ASSUME IInv, todo \in After, Matches, Matches', NEW key \in Keys, NEW record,
         Sets(node, node', key, Append(Search(key), record))
  PROVE  Map!Put(key, record)
<1>1. Map1(node) /\ Map1(node') /\ MapPostings = MapOf(node) /\ MapPostings' = MapOf(node')
  BY DEF Matches
<1> DEFINE list == Append(Search(key), record)
<1>2. list = Append(Map!ListOf(key), record)
  BY SearchIsMap
<1>5. Sets(node, node', key, list)
  OBVIOUS
<1> HIDE DEF list
<1>3. MapOf(node') = Map!Assigned(MapOf(node), key, list)
  BY <1>1, <1>5, MapSets
<1>4. MapPostings' = Map!Assigned(MapPostings, key, list)
  BY <1>1, <1>3
<1> QED BY <1>2, <1>4 DEF Map!Put

\* The map's copies of the library's operators are the library's.
LEMMA SameOperators ==
  ASSUME NEW s, NEW e, NEW f, NEW S
  PROVE  Map!RemoveFirst(s, e) = RemoveFirst(s, e) /\ Map!Restrict(f, S) = Restrict(f, S)
<1>1. \A i : Map!RemoveAt(s, i) = RemoveAt(s, i)
  BY DEF Map!RemoveAt, RemoveAt
<1>2. Map!SelectInSeq(s, LAMBDA v : v = e) = SelectInSeq(s, LAMBDA v : v = e)
  BY DEF Map!SelectInSeq, SelectInSeq, Map!Min, Min
<1>3. Map!RemoveFirst(s, e) = RemoveFirst(s, e)
  BY <1>1, <1>2 DEF Map!RemoveFirst, RemoveFirst
<1>4. Map!Restrict(f, S) = Restrict(f, S)
  BY DEF Map!Restrict, Restrict
<1> QED BY <1>3, <1>4

\* A removal, seen as one of the map.
LEMMA DropSeen ==
  ASSUME IInv, todo \in After, Matches, Matches', NEW key \in Keys, NEW record,
         \/ /\ Sets(node, node', key, RemoveFirst(Search(key), record))
            /\ RemoveFirst(Search(key), record) # << >>
         \/ Drops(node, node', key) /\ RemoveFirst(Search(key), record) = << >>
  PROVE  Map!Drop(key, record)
<1>1. Map1(node) /\ Map1(node') /\ MapPostings = MapOf(node) /\ MapPostings' = MapOf(node')
  BY DEF Matches
<1> DEFINE list == RemoveFirst(Search(key), record)
<1>7. RemoveFirst(Map!ListOf(key), record) = Map!RemoveFirst(Map!ListOf(key), record)
  BY SameOperators
<1>2. list = Map!RemoveFirst(Map!ListOf(key), record)
  BY <1>7, SearchIsMap
<1>5. (Sets(node, node', key, list) /\ list # << >>) \/ (Drops(node, node', key) /\ list = << >>)
  OBVIOUS
<1> HIDE DEF list
<1>6. DOMAIN MapPostings = KeysOf(node)
  BY <1>1 DEF MapOf
<1>3. CASE Sets(node, node', key, list) /\ list # << >>
  <2>1. MapOf(node') = Map!Assigned(MapOf(node), key, list)
    BY <1>1, <1>3, MapSets
  <2>2. MapPostings' = Map!Assigned(MapPostings, key, list)
    BY <1>1, <2>1
  <2> QED BY <1>2, <1>3, <2>2 DEF Map!Drop
<1>4. CASE Drops(node, node', key) /\ list = << >>
  <2>1. MapOf(node') = Restrict(MapOf(node), KeysOf(node) \ {key})
    BY <1>1, <1>4, MapDrops
  <2>2. MapPostings' = Map!Restrict(MapPostings, DOMAIN MapPostings \ {key})
    BY <1>1, <1>6, <2>1, SameOperators
  <2> QED BY <1>2, <1>4, <2>2 DEF Map!Drop
<1> QED BY <1>3, <1>4, <1>5

\* A call that is pending is not an exception.
LEMMA NotThrown ==
  ASSUME NEW calls, NEW after \in After, NEW c, c.call # "Threw", calls = after \/ calls = <<c>> \o after
  PROVE  calls # <<Threw>>
<1>1. <<Threw>> # << >> /\ Head(<<Threw>>).call = "Threw"
  BY DEF Threw
<1>2. after # << >> => Head(after).call = "Insert"
  BY Afterwards
<1>3. Head(<<c>> \o after) = c
  BY OnTop
<1>4. CASE calls = after
  BY <1>1, <1>2, <1>4
<1>5. CASE calls = <<c>> \o after
  BY <1>1, <1>3, <1>5
<1> QED BY <1>4, <1>5

\* What is pending when the stack is one of those that an operation can end with.
LEMMA PendingThen ==
  ASSUME Matches', NEW after \in After, NEW c, c.call \notin {"Insert", "Threw"},
         todo' = after \/ todo' = <<c>> \o after
  PROVE  MapPending' = PendingOf(after)
<1>1. todo' # <<Threw>>
  BY NotThrown
<1>2. MapPending' = PendingOf(todo')
  BY <1>1 DEF Matches
<1>3. PendingOf(<<c>> \o after) = PendingOf(after)
  BY PendingBelow
<1> QED BY <1>2, <1>3

\* A helper that returns leaves what is pending.
LEMMA HelperStack ==
  ASSUME IInv, Matches, Matches', Restructures
  PROVE  MapPending' = MapPending
<1>1. /\ todo # << >> /\ Head(todo).call \in Helpers
      /\ todo' = Rest \/ \E c : todo' = <<c>> \o Rest /\ c.call \in Helpers
  <2>1. ASSUME SplitLeaf
        PROVE  /\ todo # << >> /\ Head(todo).call \in Helpers
               /\ \E c : todo' = <<c>> \o Rest /\ c.call \in Helpers
    <3>1. Called("SplitLeaf") /\ \E k : todo' = <<ParentGains(Callee, k, Fresh)>> \o Rest
      BY <2>1 DEF SplitLeaf
    <3>2. \A k : ParentGains(Callee, k, Fresh).call \in Helpers
      BY CallNames DEF Helpers
    <3>3. \E c : todo' = <<c>> \o Rest /\ c.call \in Helpers
      BY <3>1, <3>2
    <3> QED BY <3>1, <3>3 DEF Called, Helpers
  <2>2. ASSUME SplitInternal
        PROVE  /\ todo # << >> /\ Head(todo).call \in Helpers
               /\ \E c : todo' = <<c>> \o Rest /\ c.call \in Helpers
    <3>1. Called("SplitInternal") /\ \E k : todo' = <<ParentGains(Callee, k, Fresh)>> \o Rest
      BY <2>2 DEF SplitInternal
    <3>2. \A k : ParentGains(Callee, k, Fresh).call \in Helpers
      BY CallNames DEF Helpers
    <3>3. \E c : todo' = <<c>> \o Rest /\ c.call \in Helpers
      BY <3>1, <3>2
    <3> QED BY <3>1, <3>3 DEF Called, Helpers
  <2>3. ASSUME GrowRoot
        PROVE  todo # << >> /\ Head(todo).call \in Helpers /\ todo' = Rest
    BY <2>3 DEF GrowRoot, Called, Helpers
  <2>4. ASSUME InsertIntoParent
        PROVE  /\ todo # << >> /\ Head(todo).call \in Helpers
               /\ todo' = Rest \/ \E c : todo' = <<c>> \o Rest /\ c.call \in Helpers
    <3>1. Called("InsertIntoParent") /\ \E p : \/ todo' = <<SplitInternalOf(p)>> \o Rest
                                               \/ todo' = << >> \o Rest
      BY <2>4 DEF InsertIntoParent
    <3>2. todo # << >> /\ Head(todo).call \in Helpers
      BY <3>1 DEF Called, Helpers
    <3>3. Rest \in After
      BY <3>1, WhenInsertIntoParent
    <3>4. << >> \o Rest = Rest
      BY <3>3, Afterwards
    <3>5. \A p : SplitInternalOf(p).call \in Helpers
      BY CallNames DEF Helpers
    <3> QED BY <3>1, <3>2, <3>4, <3>5
  <2>5. ASSUME ShrinkRoot \/ EnoughKeys \/ BorrowFromLeft \/ BorrowFromRight \/ Merge
        PROVE  /\ todo # << >> /\ Head(todo).call = "FixUnderflow"
               /\ todo' = Rest \/ todo' = <<FixUnderflowOf(Parent)>> \o Rest
    BY <2>5 DEF ShrinkRoot, EnoughKeys, BorrowFromLeft, BorrowFromRight, Merge, Underflow, Called
  <2>6. "FixUnderflow" \in Helpers /\ FixUnderflowOf(Parent).call \in Helpers
    BY CallNames DEF Helpers
  <2> QED BY <2>1, <2>2, <2>3, <2>4, <2>5, <2>6 DEF Restructures
<1>2. Rest \in After /\ todo = <<Head(todo)>> \o Rest
  BY <1>1, StackTop
<1>3. Helpers \cap {"Insert", "Threw"} = {}
  BY DEF Helpers
<1>4. MapPending = PendingOf(Rest)
  <2>1. Head(todo).call \notin {"Insert", "Threw"}
    BY <1>1, <1>3
  <2>2. todo # <<Threw>>
    BY <1>2, <2>1, NotThrown
  <2> QED BY <1>2, <2>1, <2>2, PendingBelow DEF Matches
<1>5. CASE todo' = Rest
  <2>1. "FixUnderflow" \notin {"Insert", "Threw"}
    OBVIOUS
  <2>2. MapPending' = PendingOf(Rest)
    BY <1>2, <1>5, <2>1, PendingThen, CallNames
  <2> QED BY <1>4, <2>2
<1>6. CASE \E c : todo' = <<c>> \o Rest /\ c.call \in Helpers
  <2>1. PICK c : todo' = <<c>> \o Rest /\ c.call \in Helpers
    BY <1>6
  <2>2. c.call \notin {"Insert", "Threw"}
    BY <1>3, <2>1
  <2>3. MapPending' = PendingOf(Rest)
    BY <1>2, <2>1, <2>2, PendingThen
  <2> QED BY <1>4, <2>3
<1> QED BY <1>1, <1>5, <1>6

\* Insert is an insertion into the map.
LEMMA InsertSeen ==
  ASSUME IInv, Matches, Matches', NEW key \in Keys, NEW record \in Records, Insert(key, record)
  PROVE  Map!Insert(key, record)
<1>1. todo = << >> /\ InsertThen(key, record, << >>)
  BY DEF Insert, Idle
<1>2. << >> \in After /\ todo \in After
  BY <1>1 DEF After
<1>3. Sets(node, node', key, Append(Search(key), record))
  BY <1>1, <1>2, InsertThenStep
<1>4. Map!Put(key, record)
  BY <1>2, <1>3, PutSeen
<1>5. todo' = << >> \/ todo' = <<SplitLeafOf(FindLeaf(key))>> \o << >>
  BY <1>1, <1>2, InsertionStack
<1>6. SplitLeafOf(FindLeaf(key)).call \notin {"Insert", "Threw"}
  BY CallNames
<1>7. MapPending' = << >>
  BY <1>2, <1>5, <1>6, PendingThen, PendingAfter
<1>8. MapPending = << >>
  BY <1>1, PendingAfter DEF Matches
<1> QED BY <1>4, <1>7, <1>8 DEF Map!Insert

\* What a removal does to the map and to the stack.
LEMMA RemovalSeen ==
  ASSUME IInv, todo \in After, Matches, Matches', NEW key \in Keys, NEW record \in Records,
         NEW after \in After, RemoveThen(key, record, after)
  PROVE  /\ MapPending' = PendingOf(after)
         /\ Map!Drop(key, record) /\ key \in DOMAIN MapPostings
<1>1. todo' = after \/ todo' = <<FixUnderflowOf(FindLeaf(key))>> \o after
  BY RemovalStack
<1>2. FixUnderflowOf(FindLeaf(key)).call \notin {"Insert", "Threw"}
  BY CallNames
<1>3. MapPending' = PendingOf(after)
  BY <1>1, <1>2, PendingThen
<1>4. /\ \/ /\ Sets(node, node', key, RemoveFirst(Search(key), record))
            /\ RemoveFirst(Search(key), record) # << >>
         \/ Drops(node, node', key) /\ RemoveFirst(Search(key), record) = << >>
      /\ ContainsKey(key)
  BY RemovePostingStep, RemoveKeyStep DEF RemoveThen
<1>5. Map!Drop(key, record)
  BY <1>4, DropSeen
<1>6. key \in DOMAIN MapPostings
  BY <1>4, SearchIsMap
<1> QED BY <1>3, <1>5, <1>6

\* A step that changes nothing leaves the map as it is.
LEMMA NothingSeen ==
  ASSUME Matches, Matches', UNCHANGED vars
  PROVE  UNCHANGED Map!vars
<1>1. node' = node /\ todo' = todo
  BY DEF vars
<1>2. MapPostings' = MapPostings
  BY <1>1 DEF Matches
<1>3. MapPending' = MapPending
  <2>1. Torn' = Torn
    BY <1>1 DEF Torn
  <2> QED BY <1>1, <2>1 DEF MapPending
<1> QED BY <1>2, <1>3 DEF Map!vars

\* A torn tree is no map, and stays none.
LEMMA PiecesSeen ==
  ASSUME InPieces, [Next]_vars
  PROVE  UNCHANGED Map!vars
<1>1. Torn /\ Torn'
  BY PiecesStay DEF InPieces
<1> QED BY <1>1 DEF MapPostings, MapPending, Map!vars

\* Update is an update of the map, or its first half.
LEMMA UpdateSeen ==
  ASSUME IInv, Matches, Matches', NEW old \in Keys, NEW new \in Keys, NEW record \in Records,
         Update(old, new, record)
  PROVE  Map!Update(old, new, record)
<1> DEFINE after == <<InsertLater(new, record)>>
<1>1. todo = << >> /\ RemoveThen(old, record, after)
  BY DEF Update, Idle
<1>2. after \in After /\ todo \in After
  BY <1>1 DEF After
<1>3. PendingOf(after) = <<new, record>>
  BY PendingAfter
<1> HIDE DEF after
<1>4. /\ MapPending' = PendingOf(after)
      /\ Map!Drop(old, record) /\ old \in DOMAIN MapPostings
  BY <1>1, <1>2, RemovalSeen
<1>5. MapPending = << >>
  BY <1>1, PendingAfter DEF Matches
<1> QED BY <1>3, <1>4, <1>5 DEF Map!Update

\* The insertion at the end of Update is the map's.
LEMMA UpdateInsertsSeen ==
  ASSUME IInv, Matches, Matches', UpdateInserts
  PROVE  Map!FinishUpdate
<1>1. Called("Insert") /\ InsertThen(Head(todo).key, Head(todo).record, Rest)
  BY DEF UpdateInserts
<1>2. todo \in After /\ todo # << >>
  BY <1>1, WhenInsert DEF Called
<1>3. PICK k \in Keys, r \in Records : todo = <<InsertLater(k, r)>>
  BY <1>2 DEF After
<1>4. Head(todo).key = k /\ Head(todo).record = r /\ Rest = << >>
  <2> DEFINE c == InsertLater(k, r)
  <2>1. c.key = k /\ c.record = r
    BY DEF InsertLater
  <2> HIDE DEF c
  <2>2. todo = <<c>>
    BY <1>3 DEF c
  <2> QED BY <2>1, <2>2 DEF Rest
<1>5. << >> \in After /\ InsertThen(k, r, << >>)
  BY <1>1, <1>4 DEF After
<1>6. Sets(node, node', k, Append(Search(k), r))
  BY <1>2, <1>5, InsertThenStep
<1>7. Map!Put(k, r)
  BY <1>2, <1>6, PutSeen
<1>8. todo' = << >> \/ todo' = <<SplitLeafOf(FindLeaf(k))>> \o << >>
  BY <1>5, InsertionStack
<1>9. SplitLeafOf(FindLeaf(k)).call \notin {"Insert", "Threw"}
  BY CallNames
<1>10. MapPending' = << >>
  BY <1>5, <1>8, <1>9, PendingThen, PendingAfter
<1>11. MapPending = <<k, r>>
  <2>1. Head(todo).call = "Insert"
    BY <1>1 DEF Called
  <2>2. todo # <<Threw>>
    BY <2>1 DEF Threw
  <2> QED BY <1>3, <2>2, PendingAfter DEF Matches
<1>12. MapPending \in Keys \X Records /\ MapPending[1] = k /\ MapPending[2] = r
  BY <1>11
<1> QED BY <1>7, <1>10, <1>12 DEF Map!FinishUpdate

\* Clear empties the map.
LEMMA ClearSeen ==
  ASSUME IInv, Matches, Matches', Clear
  PROVE  Map!Clear
<1>1. todo = << >> /\ todo' = << >>
  BY DEF Clear, Idle
<1>2. DOMAIN node' = {}
  BY ClearStep
<1>3. KeysOf(node') = {}
  BY <1>2 DEF KeysOf, Posted
<1>4. MapPostings' = << >>
  BY <1>3, EmptyMap DEF Matches
<1>5. MapPending = << >> /\ MapPending' = << >>
  BY <1>1, PendingAfter DEF Matches
<1> QED BY <1>4, <1>5 DEF Map!Clear

\* The map does not see the helpers.
LEMMA HelperSeen ==
  ASSUME IInv, Matches, Matches', Restructures
  PROVE  UNCHANGED Map!vars
<1>1. MapPending' = MapPending
  BY HelperStack
<1>2. MapPostings' = MapPostings
  BY RestructuresSame, SameView
<1> QED BY <1>1, <1>2 DEF Map!vars

\* An exception is thrown in a call, and no call comes after it.
LEMMA ThrownFrom ==
  ASSUME IInv, Throwing
  PROVE  /\ todo \in After \/ (todo # << >> /\ Head(todo).call \in Helpers)
         /\ todo' = <<Threw>>
<1>1. CASE InsertionThrows
  <2>1. Idle => todo \in After
    BY DEF Idle, After
  <2>2. Called("Insert") => todo \in After
    BY WhenInsert
  <2> QED BY <1>1, <2>1, <2>2 DEF InsertionThrows, InsertThrows, Throws
<1>2. CASE SplitThrows
  BY <1>2 DEF SplitThrows, Called, Helpers, Throws
<1>3. CASE InsertIntoParentThrows
  BY <1>3 DEF InsertIntoParentThrows, Called, Helpers, Throws
<1>4. CASE BorrowThrows
  BY <1>4 DEF BorrowThrows, Underflow, Called, Helpers, Throws
<1>5. CASE MergeThrows
  BY <1>5 DEF MergeThrows, Underflow, LeavesThrow, InternalsThrow, Called, Helpers, Throws
<1> QED BY <1>1, <1>2, <1>3, <1>4, <1>5 DEF Throwing

\* An exception leaves the map as it is, or torn.
LEMMA ThrowSeen ==
  ASSUME IInv, Matches, Shown', Throwing
  PROVE  Map!Throw \/ Map!Tear
<1>1. /\ todo \in After \/ (todo # << >> /\ Head(todo).call \in Helpers)
      /\ todo' = <<Threw>>
  BY ThrownFrom
<1>2. ASSUME NEW after \in After PROVE PendingOf(after) \in {<< >>} \cup (Keys \X Records)
  <2>1. CASE after = << >>
    BY <2>1, PendingAfter
  <2>2. CASE after # << >>
    <3>1. PICK k \in Keys, r \in Records : after = <<InsertLater(k, r)>>
      BY <2>2 DEF After
    <3> QED BY <3>1, PendingAfter
  <2> QED BY <2>1, <2>2
<1>3. MapPending \in {<< >>} \cup (Keys \X Records)
  <2>1. CASE todo \in After
    <3>1. todo # <<Threw>>
      <4>1. Head(<<Threw>>).call = "Threw" /\ <<Threw>> # << >>
        BY DEF Threw
      <4> QED BY <2>1, <4>1, Afterwards
    <3> QED BY <1>2, <2>1, <3>1 DEF Matches
  <2>2. CASE todo # << >> /\ Head(todo).call \in Helpers
    <3>1. Rest \in After /\ todo = <<Head(todo)>> \o Rest
      BY <2>2, StackTop
    <3>2. Head(todo).call \notin {"Insert", "Threw"}
      BY <2>2 DEF Helpers
    <3>3. todo # <<Threw>>
      BY <3>1, <3>2, NotThrown
    <3> QED BY <1>2, <3>1, <3>2, <3>3, PendingBelow DEF Matches
  <2> QED BY <1>1, <2>1, <2>2
<1>4. CASE IInv' /\ node' = node
  <2>1. Matches'
    BY <1>4 DEF Shown
  <2>2. MapPostings' = MapPostings
    BY <1>4, <2>1 DEF Matches
  <2>3. ~Torn'
    <3>1. Torn' = Torn
      BY <1>4 DEF Torn
    <3> QED BY <3>1, NotTorn
  <2>4. MapPending' = <<"threw">>
    BY <1>1, <2>3 DEF MapPending
  <2> QED BY <1>3, <2>2, <2>4 DEF Map!Throw
<1>5. CASE InPieces'
  <2>1. Torn'
    BY <1>5 DEF InPieces
  <2> QED BY <1>3, <2>1 DEF MapPending, MapPostings, Map!Tear
<1> QED BY <1>4, <1>5, ThrowingStep

\* Every step of the tree is a step of the map, or none.
LEMMA StepSeen ==
  ASSUME TreeInv, Shown, Shown', [Next]_vars
  PROVE  [Map!Next]_(Map!vars)
<1>1. CASE InPieces
  BY <1>1, PiecesSeen
<1>2. CASE IInv /\ Throwing
  <2>1. Matches
    BY <1>2 DEF Shown
  <2> QED BY <1>2, <2>1, ThrowSeen DEF Map!Next
<1>3. CASE IInv /\ ~Throwing
  <2>0. Matches /\ Matches'
    BY <1>3, StepKeeps DEF Shown
  <2>1. ASSUME NEW k \in Keys, NEW r \in Records, Insert(k, r) PROVE Map!Next
    BY <1>3, <2>0, <2>1, InsertSeen DEF Map!Next
  <2>2. ASSUME NEW k \in Keys, NEW r \in Records, RemoveRecord(k, r)
        PROVE  [Map!Next]_(Map!vars)
    <3>1. todo = << >> /\ (RemoveNothing(k) \/ RemoveThen(k, r, << >>))
      BY <2>2 DEF RemoveRecord, Idle
    <3>2. << >> \in After /\ todo \in After
      BY <3>1 DEF After
    <3>3. CASE RemoveNothing(k)
      BY <2>0, <3>3, NothingSeen DEF RemoveNothing
    <3>4. CASE RemoveThen(k, r, << >>)
      <4>1. MapPending' = PendingOf(<< >>) /\ Map!Drop(k, r)
        BY <1>3, <2>0, <3>2, <3>4, RemovalSeen
      <4>2. MapPending = << >> /\ MapPending' = << >>
        BY <2>0, <3>1, <4>1, PendingAfter DEF Matches
      <4>3. Map!RemoveRecord(k, r)
        BY <4>1, <4>2 DEF Map!RemoveRecord
      <4> QED BY <4>3 DEF Map!Next
    <3> QED BY <3>1, <3>3, <3>4
  <2>3. ASSUME NEW k \in Keys, NEW l \in Keys, NEW r \in Records, Update(k, l, r)
        PROVE  Map!Next
    BY <1>3, <2>0, <2>3, UpdateSeen DEF Map!Next
  <2>4. ASSUME UpdateInserts PROVE Map!Next
    BY <1>3, <2>0, <2>4, UpdateInsertsSeen DEF Map!Next
  <2>5. ASSUME Clear PROVE Map!Next
    BY <1>3, <2>0, <2>5, ClearSeen DEF Map!Next
  <2>6. ASSUME Restructures PROVE UNCHANGED Map!vars
    BY <1>3, <2>0, <2>6, HelperSeen
  <2>7. ASSUME UNCHANGED vars PROVE UNCHANGED Map!vars
    BY <2>0, <2>7, NothingSeen
  <2> QED BY <1>3, <2>1, <2>2, <2>3, <2>4, <2>5, <2>6, <2>7 DEF Next, Restructures, Throwing
<1> QED BY <1>1, <1>2, <1>3 DEF TreeInv

\* The empty tree is the empty map.
LEMMA InitSeen == Init => Map!Init
<1> SUFFICES ASSUME Init PROVE Map!Init
  OBVIOUS
<1>1. todo = << >> /\ node = << >>
  BY DEF Init
<1>2. Matches
  BY InitMakes, ChainMatches DEF Shown
<1>3. KeysOf(node) = {}
  BY <1>1 DEF KeysOf, Posted
<1>4. MapPostings = << >>
  BY <1>2, <1>3, EmptyMap DEF Matches
<1>5. MapPending = << >>
  BY <1>1, <1>2, PendingAfter DEF Matches
<1> QED BY <1>4, <1>5 DEF Map!Init

\* The tree implements the map from keys to posting lists: each call is one step of the map, the
\* helpers are none, Update is its two steps, and an exception ends the map where it is or tears it.
THEOREM AlwaysImplementsPostingMap == Spec => ImplementsPostingMap
<1> QED BY TreeAlways, ChainMatches, InitSeen, StepSeen, PTL DEF Spec, ImplementsPostingMap, Map!Spec

-----------------------------------------------------------------------------
(* Validate: the keys, the chain. *)

\* The leaves that the root reaches hold the keys that the heap holds.
LEMMA KeysBelowRoot ==
  ASSUME NEW h, NEW lo, NEW hi, Resting(node, root, h, lo, hi, Null, Null)
  PROVE  KeysBelow(root) = KeysOf(node)
<1> DEFINE L == {a \in DOMAIN node : node[a].leaf}
<1>1. Heap(node)
  BY Parts
<1>2. Below(root) = DOMAIN node
  BY BelowRoot DEF Resting
<1>3. KeysBelow(root) = UNION {ToSet(node[a].keys) : a \in L}
  BY <1>2 DEF KeysBelow
<1>4. \A a \in L : ToSet(node[a].keys) = {node[a].keys[i] : i \in 1..Len(node[a].keys)}
  <2> TAKE a \in L
  <2> DEFINE s == node[a].keys
  <2>1. s \in Seq(Keys)
    BY <1>1, Fields
  <2> HIDE DEF s
  <2>2. DOMAIN s = 1..Len(s)
    BY <2>1
  <2>3. ToSet(s) = {s[i] : i \in 1..Len(s)}
    BY <2>2 DEF ToSet
  <2> QED BY <2>3 DEF s
<1>5. \A a \in L : \A i \in 1..Len(node[a].keys) : node[a].keys[i] \in Keys
  BY <1>1, Fields
<1>6. \A a : a \in L <=> a \in DOMAIN node /\ node[a].leaf
  OBVIOUS
<1> HIDE DEF L
<1>7. ASSUME NEW k \in KeysOf(node) PROVE \E a \in L : k \in ToSet(node[a].keys)
  <2>1. PICK a \in DOMAIN node : node[a].leaf /\ \E i \in 1..Len(node[a].keys) : node[a].keys[i] = k
    BY DEF KeysOf, Posted
  <2>2. a \in L
    BY <1>6, <2>1
  <2> QED BY <1>4, <2>1, <2>2
<1>8. ASSUME NEW a \in L, NEW k \in ToSet(node[a].keys) PROVE k \in KeysOf(node)
  <2>1. PICK i \in 1..Len(node[a].keys) : node[a].keys[i] = k
    BY <1>4, <1>8
  <2>2. k \in Keys /\ a \in DOMAIN node /\ node[a].leaf
    BY <1>5, <1>6, <2>1
  <2> QED BY <2>1, <2>2 DEF KeysOf, Posted
<1> QED BY <1>3, <1>7, <1>8

\* What ValidateLeafChain tests of one leaf and the next.
Agrees(a) == /\ node[node[a].next].previous = a
             /\ node[a].keys # << >> /\ node[node[a].next].keys # << >>
             /\ Last(node[a].keys) < Head(node[node[a].next].keys)

\* A tree at rest passes these tests at every leaf.
LEMMA LeavesAgree ==
  ASSUME NEW h, NEW lo, NEW hi, Resting(node, root, h, lo, hi, Null, Null),
         NEW a \in DOMAIN node, node[a].next # Null
  PROVE  /\ node[a].next \in DOMAIN node /\ lo[node[a].next] = hi[a]
         /\ Agrees(a)
<1> DEFINE n == node[a].next
<1>1. /\ Heap(node) /\ Kinds(node, h) /\ Ordered(node, lo, hi) /\ Filled(node, root, Null, Null)
      /\ Chain(node, root, lo, hi, Null, Null)
  BY Parts
<1>2. node[a].leaf
  BY <1>1 DEF Kinds, KindOf
<1>3. n \in DOMAIN node /\ node[n].leaf /\ lo[n] = hi[a] /\ node[n].previous = a
  <2>1. Linked(node, root, lo, hi, Null, Null, a)
    BY <1>1, <1>2 DEF Chain
  <2> QED BY <2>1 DEF Linked
<1> HIDE DEF n
<1> DEFINE ks == node[a].keys
           ns == node[n].keys
<1>4. ASSUME NEW b \in DOMAIN node, node[b].leaf
      PROVE  /\ node[b].keys \in Seq(Int) /\ Len(node[b].keys) \in Nat /\ Len(node[b].keys) >= 1
             /\ \A i \in 1..Len(node[b].keys) : /\ node[b].keys[i] \in Int
                                                /\ lo[b] <= node[b].keys[i] /\ node[b].keys[i] < hi[b]
             /\ lo[b] \in Int /\ hi[b] \in Int
  <2>1. /\ node[b].keys \in Seq(Int) /\ Len(node[b].keys) \in Nat
        /\ \A i \in 1..Len(node[b].keys) : node[b].keys[i] \in Int
    BY <1>1, Fields
  <2>2. FilledAt(node, root, Null, Null, b) /\ b # Null
    BY <1>1, Parts DEF Filled
  <2> DEFINE least == IF b = root THEN 1 ELSE MinimumOf(node[b].leaf)
  <2>3. Len(node[b].keys) >= least
    BY <2>2 DEF FilledAt
  <2>6. MinimumOf(node[b].leaf) = MinLeafKeys
    BY <1>4 DEF MinimumOf
  <2>7. least \in Nat /\ least >= 1
    BY <2>6, Bounds0
  <2> HIDE DEF least
  <2>4. Len(node[b].keys) >= 1
    BY <2>1, <2>3, <2>7
  <2>5. InOrder(node, lo, hi, b) /\ lo[b] \in Int /\ hi[b] \in Int
    BY <1>1 DEF Ordered
  <2> QED BY <2>1, <2>4, <2>5 DEF InOrder
<1>5. /\ ks \in Seq(Int) /\ Len(ks) \in Nat /\ Len(ks) >= 1 /\ hi[a] \in Int
      /\ \A i \in 1..Len(ks) : ks[i] \in Int /\ ks[i] < hi[a]
  BY <1>2, <1>4
<1>6. /\ ns \in Seq(Int) /\ Len(ns) \in Nat /\ Len(ns) >= 1
      /\ \A i \in 1..Len(ns) : ns[i] \in Int /\ lo[n] <= ns[i]
  BY <1>3, <1>4
<1> HIDE DEF ks, ns
<1>7. ks # << >> /\ ns # << >> /\ Last(ks) = ks[Len(ks)] /\ Head(ns) = ns[1]
  BY <1>5, <1>6 DEF Last
<1>8. ks[Len(ks)] < ns[1]
  <2>1. ks[Len(ks)] \in Int /\ ks[Len(ks)] < hi[a] /\ ns[1] \in Int /\ lo[n] <= ns[1]
    BY <1>5, <1>6
  <2> QED BY <1>3, <1>5, <2>1
<1> QED BY <1>3, <1>7, <1>8 DEF Agrees, ks, ns, n

\* ValidateLeafChain finds nothing wrong with a tree at rest.
LEMMA ChainIsValid ==
  ASSUME NEW h, NEW lo, NEW hi, Resting(node, root, h, lo, hi, Null, Null), root # Null
  PROVE  ValidateLeafChain
<1> DEFINE S == DOMAIN node
           Turn(f, a) == LET next == node[a].next IN
                         \/ next = Null
                         \/ /\ node[next].previous = a
                            /\ node[a].keys # << >> /\ node[next].keys # << >>
                            /\ Last(node[a].keys) < Head(node[next].keys)
                            /\ f[next]
           f == CHOOSE f : f = [a \in S |-> Turn(f, a)]
           g == [a \in S |-> TRUE]
           first == Leftmost(root)
<1>1. first \in S /\ node[first].leaf /\ lo[first] = lo[root]
  BY LeftmostFinds DEF Resting
<1>2. ValidateLeafChain <=> node[first].previous = Null /\ f[first]
  BY DEF ValidateLeafChain
<1>3. \A a \in S : node[a].next # Null => node[a].next \in S /\ lo[node[a].next] = hi[a] /\ Agrees(a)
  BY LeavesAgree
<1>4. \A d, a : a \in S => (Turn(d, a) <=> node[a].next = Null \/ (Agrees(a) /\ d[node[a].next]))
  BY DEF Agrees
<1>5. \A d, a : Turn(d, a) \in BOOLEAN
  OBVIOUS
<1> HIDE DEF Turn, first
<1>6. \A a \in S : Turn(g, a) = TRUE
  BY <1>3, <1>4, <1>5
<1>7. g = [a \in S |-> Turn(g, a)]
  BY <1>6
<1>8. f = [a \in S |-> Turn(f, a)]
  BY <1>7
<1> HIDE DEF f, g
<1>9. \A a \in S : f[a] = Turn(f, a)
  BY <1>8
<1> DEFINE Bad == {a \in S : ~f[a]}
           rank == [a \in S |-> hi[root] - lo[a]]
<1>10. \A a \in S : lo[a] \in Int /\ hi[a] \in Int /\ lo[a] < hi[a] /\ hi[a] <= hi[root] /\ hi[root] \in Int
  BY Parts
<1>11. Bad = {}
  <2> SUFFICES ASSUME Bad # {} PROVE FALSE
    OBVIOUS
  <2>1. \A a \in Bad : rank[a] \in Nat
    BY <1>10
  <2>2. PICK a \in Bad : \A b \in Bad : ~(rank[b] < rank[a])
    <3> HIDE DEF Bad, rank
    <3> QED BY <2>1, LeastRank
  <2>3. a \in S /\ ~f[a]
    OBVIOUS
  <2>4. node[a].next # Null /\ ~f[node[a].next]
    BY <1>3, <1>4, <1>9, <2>3
  <2>5. node[a].next \in S /\ lo[node[a].next] = hi[a]
    BY <1>3, <2>3, <2>4
  <2>6. node[a].next \in Bad
    BY <2>4, <2>5
  <2>7. ~(hi[root] - hi[a] < hi[root] - lo[a])
    BY <2>2, <2>3, <2>5, <2>6
  <2> QED BY <1>10, <2>3, <2>7
<1>12. f[first]
  BY <1>1, <1>11
<1>13. node[first].previous = Null
  <2> SUFFICES ASSUME node[first].previous # Null PROVE FALSE
    OBVIOUS
  <2>1. Chain(node, root, lo, hi, Null, Null)
    BY Parts
  <2>2. Linked(node, root, lo, hi, Null, Null, first)
    BY <1>1, <2>1 DEF Chain
  <2> DEFINE p == node[first].previous
  <2>3. p \in S /\ hi[p] = lo[root]
    BY <1>1, <2>2 DEF Linked
  <2> HIDE DEF p
  <2>4. lo[root] <= lo[p] /\ lo[p] \in Int /\ hi[p] \in Int /\ lo[p] < hi[p] /\ lo[root] \in Int
    <3>1. root \in S
      BY Parts, <2>3
    <3> QED BY <2>3, <3>1, Parts
  <2> QED BY <2>3, <2>4
<1> QED BY <1>2, <1>12, <1>13

-----------------------------------------------------------------------------
(* Validate: the nodes. *)

\* The keys of the interval of x.
Between2(lo, hi, x) == {k \in Keys : lo[x] <= k /\ k < hi[x]}

\* A node of a tree at rest passes the tests that ValidateNode makes of it.
LEMMA NodeIsWellFormed ==
  ASSUME NEW h, NEW lo, NEW hi, Resting(node, root, h, lo, hi, Null, Null),
         NEW x \in DOMAIN node, NEW allowed, Between2(lo, hi, x) \subseteq allowed
  PROVE  WellFormed(x, allowed)
<1> DEFINE ks == node[x].keys
           vs == node[x].values
           cs == node[x].children
<1>1. /\ Heap(node) /\ KindOf(node, h, x) /\ InOrder(node, lo, hi, x) /\ FilledAt(node, root, Null, Null, x)
      /\ Down(node, h, lo, hi, Null, Null) /\ x # Null
  BY Parts DEF Kinds, Ordered, Filled
<1>2. /\ ks \in Seq(Keys) /\ Len(ks) \in Nat /\ vs \in Seq(Seq(Records)) /\ cs \in Seq(Nat)
      /\ \A i \in 1..Len(ks) : ks[i] \in Keys /\ ks[i] \in Int
      /\ node[x].leaf \in BOOLEAN
  BY <1>1, Fields
<1>3. \A i \in 2..Len(ks) : ks[i - 1] < ks[i]
  <2>1. \A i, j \in 1..Len(ks) : i < j => ks[i] < ks[j]
    BY <1>1 DEF InOrder
  <2> HIDE DEF ks
  <2> SUFFICES ASSUME NEW i \in 2..Len(ks) PROVE ks[i - 1] < ks[i]
    OBVIOUS
  <2>2. i - 1 \in 1..Len(ks) /\ i \in 1..Len(ks) /\ i - 1 < i
    BY <1>2
  <2> QED BY <2>1, <2>2
<1>4. ToSet(ks) \subseteq allowed
  <2>1. \A i \in 1..Len(ks) : lo[x] <= ks[i] /\ ks[i] < hi[x]
    BY <1>1 DEF InOrder
  <2> HIDE DEF ks
  <2>2. DOMAIN ks = 1..Len(ks)
    BY <1>2
  <2>3. ToSet(ks) = {ks[i] : i \in 1..Len(ks)}
    BY <2>2 DEF ToSet
  <2>4. \A i \in 1..Len(ks) : ks[i] \in Between2(lo, hi, x)
    BY <1>2, <2>1 DEF Between2
  <2> QED BY <2>3, <2>4
<1>5. Len(ks) <= MaxKeys
  BY <1>1 DEF FilledAt
<1> DEFINE least == IF x = root THEN 1 ELSE MinimumOf(node[x].leaf)
<1>6. Len(ks) >= least
  BY <1>1 DEF FilledAt
<1>7. ASSUME node[x].leaf
      PROVE  /\ Len(ks) = Len(vs) /\ << >> \notin ToSet(vs)
             /\ x # root => Len(ks) >= MinLeafKeys
  <2>1. Len(vs) = Len(ks) /\ \A i \in 1..Len(ks) : vs[i] # << >>
    BY <1>1, <1>7 DEF KindOf
  <2>2. x # root => Len(ks) >= MinLeafKeys
    BY <1>6, <1>7 DEF MinimumOf
  <2>3. << >> \notin ToSet(vs)
    <3> HIDE DEF vs, ks
    <3>1. DOMAIN vs = 1..Len(vs)
      BY <1>2
    <3>2. ToSet(vs) = {vs[i] : i \in 1..Len(vs)}
      BY <3>1 DEF ToSet
    <3> QED BY <2>1, <3>2
  <2> QED BY <2>1, <2>2, <2>3
<1>8. ASSUME ~node[x].leaf
      PROVE  /\ Len(cs) = Len(ks) + 1
             /\ IF x = root THEN Len(cs) >= 2 ELSE Len(ks) >= MinInternalKeys
             /\ \A c \in ToSet(cs) : c # Null /\ node[c].parent = x
  <2>1. Len(cs) = Len(ks) + 1
    BY <1>1, <1>8 DEF KindOf
  <2>2. x # root => Len(ks) >= MinInternalKeys
    BY <1>6, <1>8 DEF MinimumOf
  <2>3. x = root => Len(ks) >= 1
    BY <1>6
  <2>4. \A i \in 1..Len(cs) : cs[i] \in DOMAIN node /\ node[cs[i]].parent = x
    BY <1>1, <1>8 DEF Down, Hangs
  <2>5. \A b \in DOMAIN node : b # Null
    BY Parts
  <2>6. ToSet(cs) = {cs[i] : i \in 1..Len(cs)}
    <3> HIDE DEF cs
    <3>1. DOMAIN cs = 1..Len(cs)
      BY <1>2
    <3> QED BY <3>1 DEF ToSet
  <2> HIDE DEF cs, ks
  <2> QED BY <1>2, <2>1, <2>2, <2>3, <2>4, <2>5, <2>6
<1> QED BY <1>3, <1>4, <1>5, <1>7, <1>8 DEF WellFormed

\* The window of a child holds the keys of its interval.
LEMMA WindowHolds ==
  ASSUME NEW h, NEW lo, NEW hi, Resting(node, root, h, lo, hi, Null, Null),
         NEW x \in DOMAIN node, ~node[x].leaf, NEW allowed, Between2(lo, hi, x) \subseteq allowed,
         NEW i \in 1..Len(node[x].children)
  PROVE  /\ node[x].children[i] \in DOMAIN node /\ h[node[x].children[i]] + 1 = h[x]
         /\ Between2(lo, hi, node[x].children[i]) \subseteq Window(x, i, allowed)
<1> DEFINE ks == node[x].keys
           c == node[x].children[i]
<1>1. /\ Heap(node) /\ KindOf(node, h, x) /\ InOrder(node, lo, hi, x)
      /\ Down(node, h, lo, hi, Null, Null) /\ lo[x] \in Int /\ hi[x] \in Int /\ x # Null
  BY Parts DEF Kinds, Ordered, Filled
<1>2. /\ Len(ks) \in Nat /\ \A j \in 1..Len(ks) : ks[j] \in Int
  BY <1>1, Fields
<1>3. /\ c \in DOMAIN node /\ h[c] + 1 = h[x] /\ lo[c] = ChildLow(node, lo, x, i)
      /\ End(hi, Null, Null, c) = ChildHigh(node, hi, x, i)
  BY <1>1 DEF Down, Hangs
<1>4. hi[c] = ChildHigh(node, hi, x, i) /\ lo[c] \in Int /\ hi[c] \in Int
  BY <1>3, Parts
<1>5. i \in 1..Len(ks) + 1
  BY <1>1 DEF KindOf
<1>6. \A j \in 1..Len(ks) : lo[x] <= ks[j] /\ ks[j] < hi[x]
  BY <1>1 DEF InOrder
<1>7. /\ lo[c] = IF i = 1 THEN lo[x] ELSE ks[i - 1]
      /\ hi[c] = IF i = Len(ks) + 1 THEN hi[x] ELSE ks[i]
  BY <1>3, <1>4 DEF ChildLow, ChildHigh
<1> HIDE DEF c, ks
<1>8. /\ lo[x] <= lo[c] /\ hi[c] <= hi[x]
  BY <1>1, <1>2, <1>5, <1>6, <1>7, SMTT(20)
<1>9. ASSUME NEW k \in Keys, lo[c] <= k, k < hi[c]
      PROVE  /\ lo[x] <= k /\ k < hi[x]
             /\ i > 1 => ks[i - 1] <= k
             /\ i <= Len(ks) => k < ks[i]
  <2>1. k \in Int
    BY KeysAssumption
  <2> QED BY <1>1, <1>2, <1>4, <1>5, <1>7, <1>8, <1>9, <2>1
<1>10. \A k \in Between2(lo, hi, c) : k \in Window(x, i, allowed)
  BY <1>9 DEF Between2, Window, ks
<1> QED BY <1>3, <1>10 DEF c

\* f gives, at every place of S, the places that can be reached from it.
Reaches(S, kids, f) == f \in [S -> SUBSET S] /\ \A x \in S : f[x] = {x} \cup UNION {f[c] : c \in kids[x]}

\* There is such a function, whatever kids is.
LEMMA ReachExists ==
  ASSUME NEW S, NEW kids \in [S -> SUBSET S]
  PROVE  \E f : Reaches(S, kids, f)
<1> DEFINE Closed(P) == \A y \in P : kids[y] \subseteq P
           f == [x \in S |-> {y \in S : \A P \in SUBSET S : Closed(P) /\ x \in P => y \in P}]
<1>1. \A x \in S : \A y : y \in f[x] <=>
                     y \in S /\ \A P \in SUBSET S : Closed(P) /\ x \in P => y \in P
  OBVIOUS
<1>2. f \in [S -> SUBSET S]
  OBVIOUS
<1> HIDE DEF f
<1>3. ASSUME NEW x \in S
      PROVE  f[x] = {x} \cup UNION {f[c] : c \in kids[x]}
  <2> DEFINE R == {x} \cup UNION {f[c] : c \in kids[x]}
  <2>1. kids[x] \subseteq S
    OBVIOUS
  <2>2. \A c \in S : c \in f[c] /\ f[c] \subseteq S /\ Closed(f[c])
    <3> TAKE c \in S
    <3>1. c \in f[c] /\ f[c] \subseteq S
      BY <1>1
    <3>2. ASSUME NEW y \in f[c], NEW z \in kids[y] PROVE z \in f[c]
      <4>1. y \in S /\ z \in S
        BY <3>1, <3>2
      <4>2. ASSUME NEW P \in SUBSET S, Closed(P), c \in P PROVE z \in P
        <5>1. y \in P
          BY <1>1, <3>2, <4>2
        <5> QED BY <3>2, <4>2, <5>1
      <4> QED BY <1>1, <4>1, <4>2
    <3> QED BY <3>1, <3>2
  <2>3. R \in SUBSET S /\ x \in R
    BY <2>1, <2>2
  <2>4. Closed(R)
    <3> SUFFICES ASSUME NEW y \in R, NEW z \in kids[y] PROVE z \in R
      OBVIOUS
    <3>1. CASE y = x
      <4>1. z \in kids[x] /\ z \in f[z]
        BY <2>1, <2>2, <3>1
      <4> QED BY <4>1
    <3>2. CASE y # x
      <4>1. PICK c \in kids[x] : y \in f[c]
        BY <3>2
      <4>2. z \in f[c]
        BY <2>1, <2>2, <4>1
      <4> QED BY <4>2
    <3> QED BY <3>1, <3>2
  <2>5. \A y \in f[x] : y \in R
    <3> HIDE DEF R
    <3> QED BY <1>1, <2>3, <2>4
  <2>6. \A y \in R : y \in f[x]
    <3> TAKE y \in R
    <3>1. CASE y = x
      BY <2>2, <3>1
    <3>2. CASE y # x
      <4>1. PICK c \in kids[x] : y \in f[c]
        BY <3>2
      <4>2. c \in S /\ y \in S
        BY <2>1, <2>2, <4>1
      <4>3. ASSUME NEW P \in SUBSET S, Closed(P), x \in P PROVE y \in P
        <5>1. c \in P
          BY <4>1, <4>3
        <5> QED BY <1>1, <4>1, <4>2, <4>3, <5>1
      <4> QED BY <1>1, <4>2, <4>3
    <3> QED BY <3>1, <3>2
  <2>7. f[x] = R
    <3> HIDE DEF R
    <3> QED BY <2>5, <2>6
  <2> QED BY <2>7
<1>4. \A x \in S : f[x] = {x} \cup UNION {f[c] : c \in kids[x]}
  BY <1>3
<1> QED BY <1>2, <1>4 DEF Reaches

\* f gives, at every place, what is found at the ends that can be reached from it.
Collects(S, E, kids, out, f) ==
    f = [x \in S |-> IF x \in E THEN {out[x]} ELSE UNION {f[c] : c \in kids[x]}]

\* There is such a function, whatever kids and out are.
LEMMA CollectExists ==
  ASSUME NEW S, NEW E \in SUBSET S, NEW kids \in [S -> SUBSET S], NEW out
  PROVE  \E f : Collects(S, E, kids, out, f)
<1> DEFINE under == [x \in S |-> IF x \in E THEN {} ELSE kids[x]]
<1>1. under \in [S -> SUBSET S]
  OBVIOUS
<1>2. \A x \in S : under[x] = IF x \in E THEN {} ELSE kids[x]
  OBVIOUS
<1> HIDE DEF under
<1>3. PICK r : Reaches(S, under, r)
  BY <1>1, ReachExists
<1>4. r \in [S -> SUBSET S] /\ \A x \in S : r[x] = {x} \cup UNION {r[c] : c \in under[x]}
  BY <1>3 DEF Reaches
<1> DEFINE f == [x \in S |-> {out[y] : y \in r[x] \cap E}]
<1>5. ASSUME NEW x \in E PROVE f[x] = {out[x]}
  <2>1. x \in S /\ under[x] = {}
    BY <1>2
  <2>2. r[x] = {x}
    BY <1>4, <2>1
  <2>3. r[x] \cap E = {x}
    BY <2>2
  <2>4. f[x] = {out[y] : y \in r[x] \cap E}
    BY <2>1
  <2> QED BY <2>3, <2>4
<1>6. ASSUME NEW x \in S, x \notin E PROVE f[x] = UNION {f[c] : c \in kids[x]}
  <2>1. r[x] = {x} \cup UNION {r[c] : c \in kids[x]} /\ kids[x] \subseteq S
    BY <1>2, <1>4, <1>6
  <2>2. f[x] = {out[y] : y \in r[x] \cap E} /\ \A c \in kids[x] : f[c] = {out[y] : y \in r[c] \cap E}
    BY <2>1
  <2> HIDE DEF f
  <2>3. ASSUME NEW z \in f[x] PROVE \E c \in kids[x] : z \in f[c]
    <3>1. PICK y \in r[x] \cap E : z = out[y]
      BY <2>2, <2>3
    <3>2. y # x
      BY <1>6, <3>1
    <3>3. PICK c \in kids[x] : y \in r[c]
      BY <2>1, <3>1, <3>2
    <3> QED BY <2>2, <3>1, <3>3
  <2>4. ASSUME NEW c \in kids[x], NEW z \in f[c] PROVE z \in f[x]
    <3>1. PICK y \in r[c] \cap E : z = out[y]
      BY <2>2, <2>4
    <3>2. y \in r[x] \cap E
      BY <2>1, <3>1
    <3> QED BY <2>2, <3>1, <3>2
  <2> QED BY <2>3, <2>4
<1>7. f = [x \in S |-> f[x]]
  OBVIOUS
<1> HIDE DEF f
<1>8. \A x \in S : f[x] = IF x \in E THEN {out[x]} ELSE UNION {f[c] : c \in kids[x]}
  BY <1>5, <1>6
<1>9. Collects(S, E, kids, out, f)
  BY <1>7, <1>8 DEF Collects
<1> QED BY <1>9

\* The nodes, with the keys allowed in them and their depths, that ValidateNode may come to.
Visits == (DOMAIN node) \X (SUBSET Keys) \X Nat

\* Where a descent of ValidateNode ends.
Ends(t) == ~WellFormed(t[1], t[2]) \/ node[t[1]].leaf

\* Where it goes on.
NextVisits(t) ==
    {<<node[t[1]].children[i], Window(t[1], i, t[2]), t[3] + 1>> : i \in DOMAIN node[t[1]].children}

\* The parts of a visit.
LEMMA VisitParts ==
  /\ \A t \in Visits : t[1] \in DOMAIN node /\ t[2] \in SUBSET Keys /\ t[3] \in Nat
  /\ \A x \in DOMAIN node, allowed \in SUBSET Keys, depth \in Nat : <<x, allowed, depth>> \in Visits
BY DEF Visits

\* Where ValidateNode goes on are nodes of the tree.
LEMMA VisitsStay ==
  ASSUME NEW h, NEW lo, NEW hi, Resting(node, root, h, lo, hi, Null, Null), NEW t \in Visits, ~Ends(t)
  PROVE  /\ NextVisits(t) \subseteq Visits
         /\ DOMAIN node[t[1]].children = 1..Len(node[t[1]].children) /\ Len(node[t[1]].children) \in Nat
         /\ Len(node[t[1]].children) >= 2
<1> DEFINE x == t[1]
           allowed == t[2]
           depth == t[3]
           cs == node[x].children
<1>1. x \in DOMAIN node /\ allowed \in SUBSET Keys /\ depth \in Nat
  BY VisitParts
<1>2. ~node[x].leaf
  BY DEF Ends
<1>3. Down(node, h, lo, hi, Null, Null) /\ Heap(node) /\ KindOf(node, h, x) /\ FilledAt(node, root, Null, Null, x) /\ x # Null
  BY <1>1, Parts DEF Kinds, Filled
<1>4. cs \in Seq(Nat) /\ Len(node[x].keys) \in Nat
  BY <1>1, <1>3, Fields
<1>5. \A i \in 1..Len(cs) : cs[i] \in DOMAIN node
  BY <1>1, <1>2, <1>3 DEF Down, Hangs
<1>6. Len(cs) = Len(node[x].keys) + 1
  BY <1>2, <1>3 DEF KindOf
<1> DEFINE least == IF x = root THEN 1 ELSE MinimumOf(node[x].leaf)
<1>7. Len(node[x].keys) >= least
  BY <1>3 DEF FilledAt
<1>8. least >= 1 /\ least \in Nat
  BY <1>2, Bounds0 DEF MinimumOf
<1> HIDE DEF least
<1>9. Len(cs) \in Nat /\ Len(cs) >= 2
  BY <1>4, <1>6, <1>7, <1>8
<1> HIDE DEF cs
<1>10. DOMAIN cs = 1..Len(cs)
  BY <1>4
<1>11. \A i : Window(x, i, allowed) \in SUBSET Keys
  BY <1>1 DEF Window
<1>12. NextVisits(t) = {<<cs[i], Window(x, i, allowed), depth + 1>> : i \in DOMAIN cs}
  BY DEF NextVisits, cs
<1> HIDE DEF x, allowed, depth
<1>13. \A i \in DOMAIN cs : <<cs[i], Window(x, i, allowed), depth + 1>> \in Visits
  BY <1>1, <1>5, <1>10, <1>11, VisitParts, SMTT(20)
<1>14. NextVisits(t) \subseteq Visits
  BY <1>12, <1>13
<1> QED BY <1>9, <1>10, <1>14 DEF cs, x

\* What ValidateNode computes of a tree at rest: there is such a function of the visits.
Counts(f) == f = [t \in Visits |-> IF ~WellFormed(t[1], t[2]) THEN {-1}
                                   ELSE IF node[t[1]].leaf THEN {t[3]}
                                   ELSE UNION {f[u] : u \in NextVisits(t)}]

\* ValidateNode has a result for every visit: it ends, since each visit goes one level down.
LEMMA CountExists ==
  ASSUME NEW h, NEW lo, NEW hi, Resting(node, root, h, lo, hi, Null, Null)
  PROVE  \E f : Counts(f)
<1> DEFINE E == {t \in Visits : Ends(t)}
           kids == [t \in Visits |-> IF Ends(t) THEN {} ELSE NextVisits(t)]
           out == [t \in Visits |-> IF ~WellFormed(t[1], t[2]) THEN -1 ELSE t[3]]
<1>1. kids \in [Visits -> SUBSET Visits]
  BY VisitsStay
<1>2. E \in SUBSET Visits
  OBVIOUS
<1>3. /\ \A t \in Visits : kids[t] = IF Ends(t) THEN {} ELSE NextVisits(t)
      /\ \A t \in Visits : t \in E <=> Ends(t)
      /\ \A t \in Visits : out[t] = IF ~WellFormed(t[1], t[2]) THEN -1 ELSE t[3]
  OBVIOUS
<1> HIDE DEF E, kids, out
<1>4. PICK f : Collects(Visits, E, kids, out, f)
  BY <1>1, <1>2, CollectExists
<1>5. f = [t \in Visits |-> IF t \in E THEN {out[t]} ELSE UNION {f[c] : c \in kids[t]}]
  BY <1>4 DEF Collects
<1> DEFINE Turn(t) == IF ~WellFormed(t[1], t[2]) THEN {-1}
                      ELSE IF node[t[1]].leaf THEN {t[3]}
                      ELSE UNION {f[u] : u \in NextVisits(t)}
<1>6. ASSUME NEW t \in Visits PROVE f[t] = Turn(t)
  <2>1. f[t] = IF t \in E THEN {out[t]} ELSE UNION {f[c] : c \in kids[t]}
    BY <1>5
  <2>2. CASE Ends(t)
    <3>1. f[t] = {out[t]}
      BY <1>3, <2>1, <2>2
    <3> QED BY <1>3, <2>2, <3>1 DEF Ends
  <2>3. CASE ~Ends(t)
    <3>1. f[t] = UNION {f[c] : c \in NextVisits(t)}
      BY <1>3, <2>1, <2>3
    <3> QED BY <2>3, <3>1 DEF Ends
  <2> QED BY <2>2, <2>3
<1>7. f = [t \in Visits |-> f[t]]
  BY <1>5
<1> HIDE DEF Turn
<1>8. f = [t \in Visits |-> Turn(t)]
  BY <1>6, <1>7
<1> QED BY <1>8 DEF Counts, Turn

\* Whatever the function is, of a visit that is allowed the keys of its node's interval it
\* gives the one depth at which the leaves below are.
LEMMA CountGives ==
  ASSUME NEW h, NEW lo, NEW hi, Resting(node, root, h, lo, hi, Null, Null), NEW f, Counts(f),
         NEW t \in Visits, Between2(lo, hi, t[1]) \subseteq t[2]
  PROVE  f[t] = {t[3] + h[t[1]]}
<1> DEFINE Fits(u) == Between2(lo, hi, u[1]) \subseteq u[2]
           Bad == {u \in Visits : Fits(u) /\ f[u] # {u[3] + h[u[1]]}}
           rank == [u \in Visits |-> h[u[1]]]
<1>1. \A u \in Visits : f[u] = IF ~WellFormed(u[1], u[2]) THEN {-1}
                               ELSE IF node[u[1]].leaf THEN {u[3]}
                               ELSE UNION {f[v] : v \in NextVisits(u)}
  BY DEF Counts
<1>2. \A u \in Visits : h[u[1]] \in Nat /\ u[1] \in DOMAIN node /\ u[3] \in Nat /\ u[2] \in SUBSET Keys
  BY VisitParts, Parts
<1>3. Bad = {}
  <2> SUFFICES ASSUME Bad # {} PROVE FALSE
    OBVIOUS
  <2>1. \A u \in Bad : rank[u] \in Nat
    BY <1>2
  <2>2. PICK u \in Bad : \A v \in Bad : ~(rank[v] < rank[u])
    <3> HIDE DEF Bad, rank
    <3> QED BY <2>1, LeastRank
  <2>3. u \in Visits /\ Fits(u) /\ f[u] # {u[3] + h[u[1]]}
    OBVIOUS
  <2>4. \A v \in Visits : Fits(v) /\ h[v[1]] < h[u[1]] => f[v] = {v[3] + h[v[1]]}
    BY <2>2, <2>3
  <2> HIDE DEF Bad, rank
  <2> DEFINE x == u[1]
             allowed == u[2]
             depth == u[3]
             cs == node[x].children
  <2>5. x \in DOMAIN node /\ h[x] \in Nat /\ depth \in Nat
    BY <1>2, <2>3
  <2>6. WellFormed(x, allowed)
    BY <2>3, <2>5, NodeIsWellFormed
  <2>7. CASE node[x].leaf
    <3>1. h[x] = 0
      BY <2>5, <2>7, Parts DEF Kinds, KindOf
    <3>2. f[u] = {depth}
      BY <1>1, <2>3, <2>6, <2>7
    <3>3. depth + h[x] = depth
      BY <2>5, <3>1
    <3> QED BY <2>3, <3>2, <3>3
  <2>8. CASE ~node[x].leaf
    <3>1. ~Ends(u)
      BY <2>6, <2>8 DEF Ends
    <3>2. NextVisits(u) \subseteq Visits /\ DOMAIN cs = 1..Len(cs) /\ Len(cs) \in Nat /\ Len(cs) >= 2
      BY <2>3, <3>1, VisitsStay
    <3>3. NextVisits(u) = {<<cs[i], Window(x, i, allowed), depth + 1>> : i \in DOMAIN cs}
      BY DEF NextVisits
    <3>4. f[u] = UNION {f[v] : v \in NextVisits(u)}
      BY <1>1, <2>3, <2>6, <2>8
    <3>5. \A i \in 1..Len(cs) : /\ cs[i] \in DOMAIN node /\ h[cs[i]] + 1 = h[x]
                                /\ Between2(lo, hi, cs[i]) \subseteq Window(x, i, allowed)
      BY <2>3, <2>5, <2>8, WindowHolds
    <3> HIDE DEF cs
    <3>6. ASSUME NEW v \in NextVisits(u) PROVE f[v] = {depth + h[x]}
      <4>1. PICK i \in DOMAIN cs : v = <<cs[i], Window(x, i, allowed), depth + 1>>
        BY <3>3
      <4>2. v[1] = cs[i] /\ v[2] = Window(x, i, allowed) /\ v[3] = depth + 1
        BY <4>1
      <4>3. v \in Visits /\ i \in 1..Len(cs)
        BY <3>2
      <4>4. Fits(v) /\ h[v[1]] + 1 = h[x] /\ h[v[1]] \in Nat
        BY <1>2, <3>5, <4>2, <4>3
      <4>5. f[v] = {v[3] + h[v[1]]}
        BY <2>4, <2>5, <4>3, <4>4
      <4>6. v[3] + h[v[1]] = depth + h[x]
        BY <2>5, <4>2, <4>4
      <4> QED BY <4>5, <4>6
    <3>7. \E v : v \in NextVisits(u)
      <4>1. 1 \in DOMAIN cs
        BY <3>2
      <4>2. <<cs[1], Window(x, 1, allowed), depth + 1>> \in NextVisits(u)
        BY <3>3, <4>1
      <4> QED BY <4>2
    <3>8. f[u] = {depth + h[x]}
      BY <3>4, <3>6, <3>7
    <3> QED BY <2>3, <3>8
  <2> QED BY <2>7, <2>8
<1>4. Fits(t)
  OBVIOUS
<1> HIDE DEF Fits
<1> QED BY <1>3, <1>4

\* ValidateNode finds the leaves of a tree at rest all at one depth, and nothing wrong.
LEMMA NodesAreValid ==
  ASSUME NEW h, NEW lo, NEW hi, Resting(node, root, h, lo, hi, Null, Null), root # Null
  PROVE  \E depth \in Nat : ValidateNode(root, Keys) = {depth}
<1> DEFINE Turn(f, t) == IF ~WellFormed(t[1], t[2]) THEN {-1}
                         ELSE IF node[t[1]].leaf THEN {t[3]}
                         ELSE UNION {f[<<node[t[1]].children[i], Window(t[1], i, t[2]), t[3] + 1>>] :
                                        i \in DOMAIN node[t[1]].children}
           f == CHOOSE f : f = [t \in (DOMAIN node) \X (SUBSET Keys) \X Nat |-> Turn(f, t)]
           first == <<root, Keys, 1>>
<1>1. ValidateNode(root, Keys) = f[first]
  BY DEF ValidateNode
<1>2. \A g, t : Turn(g, t) = IF ~WellFormed(t[1], t[2]) THEN {-1}
                             ELSE IF node[t[1]].leaf THEN {t[3]}
                             ELSE UNION {g[u] : u \in NextVisits(t)}
  <2> TAKE g, t
  <2>1. {g[<<node[t[1]].children[i], Window(t[1], i, t[2]), t[3] + 1>>] : i \in DOMAIN node[t[1]].children}
        = {g[u] : u \in NextVisits(t)}
    BY DEF NextVisits
  <2> QED BY <2>1
<1>3. Visits = (DOMAIN node) \X (SUBSET Keys) \X Nat
  BY DEF Visits
<1> HIDE DEF Turn
<1>4. \A g : Counts(g) <=> g = [t \in Visits |-> Turn(g, t)]
  BY <1>2 DEF Counts
<1>5. f = CHOOSE g : g = [t \in Visits |-> Turn(g, t)]
  BY <1>3
<1> HIDE DEF f
<1>6. \E g : Counts(g)
  BY CountExists
<1>7. Counts(f)
  BY <1>4, <1>5, <1>6
<1>8. root \in DOMAIN node /\ h[root] \in Nat
  BY Parts DEF Resting, Tree, Whole
<1>9. first \in Visits /\ first[1] = root /\ first[2] = Keys /\ first[3] = 1
  BY <1>8, VisitParts
<1>10. Between2(lo, hi, root) \subseteq Keys
  BY DEF Between2
<1> HIDE DEF first
<1>11. f[first] = {1 + h[root]}
  BY <1>7, <1>9, <1>10, CountGives
<1> QED BY <1>1, <1>8, <1>11

\* Validate returns true of a tree at rest.
LEMMA TreeIsValid == IInv => ValidAtRest
<1> SUFFICES ASSUME IInv, Idle PROVE Validate
  BY DEF ValidAtRest
<1>1. todo \in After
  BY DEF Idle, After
<1>2. PICK h, lo, hi : Resting(node, root, h, lo, hi, Null, Null)
  BY <1>1, WhenResting
<1>3. size = Cardinality(KeysOf(node))
  BY DEF IInv
<1>4. CASE root = Null
  <2>1. DOMAIN node = {}
    BY <1>2, <1>4, Parts DEF Whole
  <2>2. KeysOf(node) = {}
    BY <2>1 DEF KeysOf, Posted
  <2> QED BY <1>3, <1>4, <2>2, FS_EmptySet DEF Validate
<1>5. CASE root # Null
  <2>1. root \in DOMAIN node /\ Up(node, root, Null)
    BY <1>2, <1>5, Parts DEF Whole
  <2>2. node[root].parent = Null
    BY <2>1 DEF Up
  <2>3. PICK depth \in Nat : ValidateNode(root, Keys) = {depth}
    BY <1>2, <1>5, NodesAreValid
  <2>4. -1 \notin {depth} /\ Cardinality({depth}) = 1
    BY FS_Singleton
  <2>5. size = Cardinality(KeysBelow(root))
    BY <1>2, <1>3, KeysBelowRoot
  <2>6. ValidateLeafChain
    BY <1>2, <1>5, ChainIsValid
  <2> QED BY <1>5, <2>2, <2>3, <2>4, <2>5, <2>6 DEF Validate
<1> QED BY <1>4, <1>5

\* Validate, called between two operations, returns true: whatever was inserted and removed, the
\* keys are in order, the nodes filled, the leaves at one depth, the parents right, the chain
\* complete and the size exact.
THEOREM AlwaysValidAtRest == Spec => []ValidAtRest
<1>1. TreeInv => ValidAtRest
  BY TreeIsValid, PiecesAreThrown DEF TreeInv, ValidAtRest
<1> QED BY <1>1, TreeAlways, PTL

-----------------------------------------------------------------------------
(* Posting lists joined one after the other. *)

\* Posting lists, one for each number.
ManyLists(lists) == lists \in [Int -> Seq(Records)]

\* r gives, at every number from low on, the lists from there up to upper, one after the other.
Rests(lists, low, upper, r) ==
    /\ r \in [Int -> Seq(Records)]
    /\ \A k \in Int : k > upper => r[k] = << >>
    /\ \A k \in Int : low <= k /\ k <= upper => r[k] = lists[k] \o r[k + 1]

\* There is such a function as far down as one likes.
LEMMA RestsExist ==
  ASSUME NEW lists, ManyLists(lists), NEW low \in Int, NEW upper \in Int
  PROVE  \E r : Rests(lists, low, upper, r)
<1> DEFINE Bad == {n \in Nat : ~\E r : Rests(lists, upper + 1 - n, upper, r)}
<1>1. Bad = {}
  <2> SUFFICES ASSUME Bad # {} PROVE FALSE
    OBVIOUS
  <2>1. PICK n \in Bad : \A j \in Bad : n <= j
    <3>1. Bad \subseteq Nat
      OBVIOUS
    <3> HIDE DEF Bad
    <3> QED BY <3>1, LeastNumber
  <2>2. n \in Nat /\ ~\E r : Rests(lists, upper + 1 - n, upper, r)
    OBVIOUS
  <2>3. n # 0
    <3> SUFFICES ASSUME n = 0 PROVE FALSE
      OBVIOUS
    <3> DEFINE r == [k \in Int |-> << >>]
    <3>1. r \in [Int -> Seq(Records)]
      OBVIOUS
    <3>2. Rests(lists, upper + 1 - n, upper, r)
      BY <3>1 DEF Rests
    <3> QED BY <2>2, <3>2
  <2>4. n - 1 \in Nat /\ n - 1 \notin Bad
    BY <2>1, <2>2, <2>3
  <2>5. PICK r : Rests(lists, upper + 1 - (n - 1), upper, r)
    BY <2>4
  <2> DEFINE m == upper + 1 - n
             r2 == [k \in Int |-> IF k = m THEN lists[m] \o r[m + 1] ELSE r[k]]
  <2>6. m \in Int /\ m <= upper /\ upper + 1 - (n - 1) = m + 1
    BY <2>2, <2>3
  <2> HIDE DEF m
  <2>7. /\ r \in [Int -> Seq(Records)]
        /\ \A k \in Int : k > upper => r[k] = << >>
        /\ \A k \in Int : m + 1 <= k /\ k <= upper => r[k] = lists[k] \o r[k + 1]
    BY <2>5, <2>6 DEF Rests
  <2>8. lists[m] \o r[m + 1] \in Seq(Records)
    <3>1. m \in Int /\ m + 1 \in Int
      BY <2>6
    <3>2. lists[m] \in Seq(Records)
      BY <3>1 DEF ManyLists
    <3>3. r[m + 1] \in Seq(Records)
      BY <2>7, <3>1
    <3> QED BY <3>2, <3>3, JoinElements
  <2>9. r2 \in [Int -> Seq(Records)]
    <3> HIDE DEF ManyLists
    <3>1. \A k \in Int : r2[k] \in Seq(Records)
      BY <2>7, <2>8
    <3> QED BY <3>1
  <2>10. \A k \in Int : k > upper => r2[k] = << >>
    BY <2>6, <2>7
  <2>11. ASSUME NEW k \in Int, m <= k, k <= upper PROVE r2[k] = lists[k] \o r2[k + 1]
    <3>1. r2[k + 1] = r[k + 1]
      BY <2>6, <2>11
    <3>2. CASE k = m
      BY <3>1, <3>2
    <3>3. CASE k # m
      <4>1. m + 1 <= k
        BY <2>6, <2>11, <3>3
      <4> QED BY <2>7, <2>11, <3>1, <3>3, <4>1
    <3> QED BY <3>2, <3>3
  <2> HIDE DEF r2
  <2>12. Rests(lists, m, upper, r2)
    BY <2>9, <2>10, <2>11 DEF Rests
  <2> QED BY <2>2, <2>12 DEF m
<1>2. CASE low <= upper + 1
  <2>1. upper + 1 - low \in Nat /\ upper + 1 - (upper + 1 - low) = low
    BY <1>2
  <2>2. \E r : Rests(lists, upper + 1 - (upper + 1 - low), upper, r)
    BY <1>1, <2>1
  <2> QED BY <2>1, <2>2
<1>3. CASE ~(low <= upper + 1)
  <2>1. PICK r : Rests(lists, upper + 1 - 0, upper, r)
    <3>1. 0 \in Nat /\ 0 \notin Bad
      BY <1>1
    <3> QED BY <3>1
  <2>2. r \in [Int -> Seq(Records)] /\ \A k \in Int : k > upper => r[k] = << >>
    BY <2>1 DEF Rests
  <2>3. \A k \in Int : ~(low <= k /\ k <= upper)
    BY <1>3
  <2>4. Rests(lists, low, upper, r)
    BY <2>2, <2>3 DEF Rests
  <2> QED BY <2>4
<1> QED BY <1>2, <1>3

\* Where there are only empty lists nothing comes.
LEMMA EmptyRest ==
  ASSUME NEW lists, ManyLists(lists), NEW low \in Int, NEW upper \in Int, NEW r, Rests(lists, low, upper, r),
         NEW k \in Int, NEW m \in Int, low <= k, k <= m, \A j \in Int : k <= j /\ j < m => lists[j] = << >>
  PROVE  r[k] = r[m]
<1> DEFINE Bad == {n \in Nat : n <= m - k /\ r[m - n] # r[m]}
<1>1. /\ r \in [Int -> Seq(Records)]
      /\ \A j \in Int : j > upper => r[j] = << >>
      /\ \A j \in Int : low <= j /\ j <= upper => r[j] = lists[j] \o r[j + 1]
  BY DEF Rests
<1>2. Bad = {}
  <2> SUFFICES ASSUME Bad # {} PROVE FALSE
    OBVIOUS
  <2>1. PICK n \in Bad : \A j \in Bad : n <= j
    <3>1. Bad \subseteq Nat
      OBVIOUS
    <3> HIDE DEF Bad
    <3> QED BY <3>1, LeastNumber
  <2>2. n \in Nat /\ n <= m - k /\ r[m - n] # r[m]
    OBVIOUS
  <2>3. n # 0
    BY <2>2
  <2> DEFINE j == m - n
  <2>4. n - 1 \in Nat /\ n - 1 <= m - k /\ n - 1 \notin Bad
    BY <2>1, <2>2, <2>3
  <2>5. r[m - (n - 1)] = r[m]
    BY <2>4
  <2>6. j \in Int /\ k <= j /\ j < m /\ m - (n - 1) = j + 1
    BY <2>2, <2>3
  <2> HIDE DEF j
  <2>7. r[j + 1] = r[m] /\ lists[j] = << >>
    BY <2>5, <2>6
  <2>8. r[j] = r[m]
    <3>1. CASE j > upper
      BY <1>1, <2>6, <3>1
    <3>2. CASE ~(j > upper)
      <4>1. low <= j /\ j <= upper
        BY <2>6, <3>2
      <4>2. r[j] = lists[j] \o r[j + 1]
        BY <1>1, <2>6, <4>1
      <4>3. r[j + 1] \in Seq(Records)
        BY <1>1, <2>6
      <4> DEFINE t == r[j + 1]
      <4> HIDE DEF t
      <4>4. << >> \o t = t
        BY <4>3 DEF t
      <4> QED BY <2>7, <4>2, <4>4 DEF t
    <3> QED BY <3>1, <3>2
  <2> QED BY <2>2, <2>8 DEF j
<1>3. m - k \in Nat /\ m - (m - k) = k
  OBVIOUS
<1>4. m - k \notin Bad
  BY <1>2
<1> QED BY <1>3, <1>4

\* Joined computes it.
LEMMA JoinedIs ==
  ASSUME NEW lists, ManyLists(lists), NEW low \in Int, NEW upper \in Int, NEW r, Rests(lists, low, upper, r),
         NEW lower \in Int, low <= lower
  PROVE  Joined(lists, lower, upper) = r[lower]
<1> DEFINE S == lower..upper + 1
           Turn(g, k) == IF k > upper THEN << >> ELSE lists[k] \o g[k + 1]
           f == CHOOSE g : g = [k \in S |-> Turn(g, k)]
           w == [k \in S |-> r[k]]
<1>1. /\ r \in [Int -> Seq(Records)]
      /\ \A j \in Int : j > upper => r[j] = << >>
      /\ \A j \in Int : low <= j /\ j <= upper => r[j] = lists[j] \o r[j + 1]
  BY DEF Rests
<1>2. CASE upper < lower
  BY <1>1, <1>2 DEF Joined
<1>3. CASE ~(upper < lower)
  <2>1. Joined(lists, lower, upper) = f[lower]
    BY <1>3 DEF Joined
  <2>2. \A k \in S : k \in Int /\ low <= k /\ (k <= upper => k + 1 \in S) /\ (~(k > upper) => k <= upper)
    OBVIOUS
  <2>3. lower \in S
    BY <1>3
  <2> HIDE DEF S
  <2>4. w = [k \in S |-> Turn(w, k)]
    <3>1. \A k \in S : w[k] = Turn(w, k)
      BY <1>1, <2>2
    <3> HIDE DEF Turn
    <3> QED BY <3>1
  <2>5. f = [k \in S |-> Turn(f, k)]
    <3> HIDE DEF Turn, w
    <3> QED BY <2>4
  <2> HIDE DEF f
  <2> DEFINE Bad == {k \in S : f[k] # r[k]}
             rank == [k \in S |-> upper + 1 - k]
  <2>6. Bad = {}
    <3> SUFFICES ASSUME Bad # {} PROVE FALSE
      OBVIOUS
    <3>1. \A k \in Bad : rank[k] \in Nat
      <4>1. \A k \in S : upper + 1 - k \in Nat
        BY DEF S
      <4> QED BY <4>1
    <3>2. PICK k \in Bad : \A j \in Bad : ~(rank[j] < rank[k])
      <4> HIDE DEF Bad, rank
      <4> QED BY <3>1, LeastRank
    <3>3. k \in S /\ f[k] # r[k] /\ f[k] = Turn(f, k)
      BY <2>5
    <3>4. CASE k > upper
      BY <1>1, <2>2, <3>3, <3>4
    <3>5. CASE ~(k > upper)
      <4>1. k + 1 \in S /\ rank[k + 1] < rank[k]
        BY <2>2, <3>3, <3>5
      <4>2. f[k + 1] = r[k + 1]
        BY <3>2, <4>1
      <4>3. f[k] = lists[k] \o r[k + 1]
        BY <3>3, <3>5, <4>2
      <4> QED BY <1>1, <2>2, <3>3, <3>5, <4>3
    <3> QED BY <3>4, <3>5
  <2> QED BY <2>1, <2>3, <2>6
<1> QED BY <1>2, <1>3

-----------------------------------------------------------------------------
(* The chain of leaves, as a walk along it needs it. *)

\* What a walk along the chain needs to know of a leaf: its keys rise within its interval, which
\* ends where that of the next leaf begins, or at high.
InChain(lo, hi, low, high, a) ==
    /\ a # Null /\ lo[a] \in Int /\ hi[a] \in Int /\ low <= lo[a] /\ lo[a] < hi[a] /\ hi[a] <= high
    /\ Len(node[a].keys) \in Nat
    /\ \A i \in 1..Len(node[a].keys) : /\ node[a].keys[i] \in Int /\ node[a].values[i] \in Seq(Records)
                                       /\ lo[a] <= node[a].keys[i] /\ node[a].keys[i] < hi[a]
    /\ \A i, j \in 1..Len(node[a].keys) : i < j => node[a].keys[i] < node[a].keys[j]
    /\ IF node[a].next = Null THEN hi[a] = high
       ELSE node[a].next \in DOMAIN node /\ node[node[a].next].leaf /\ lo[node[a].next] = hi[a]
\* Every leaf is.
Chained(lo, hi, low, high) ==
    /\ low \in Int /\ high \in Int /\ low <= high
    /\ \A a \in DOMAIN node : node[a].leaf => InChain(lo, hi, low, high, a)

\* lists are what the leaves hold at each key, and nothing where there is no key.
Listed(lo, hi, low, high, lists) ==
    /\ \A a \in DOMAIN node : node[a].leaf =>
          /\ \A i \in 1..Len(node[a].keys) : lists[node[a].keys[i]] = node[a].values[i]
          /\ \A k \in Int : lo[a] <= k /\ k < hi[a] =>
                lists[k] = << >> \/ \E i \in 1..Len(node[a].keys) : node[a].keys[i] = k
    /\ \A k \in Int : k < low \/ high <= k => lists[k] = << >>

\* The first key that is still to come at a place of the walk, or the end of the leaf's interval.
Coming(hi, high, place) ==
    IF place[1] = Null THEN high
    ELSE IF place[2] > Len(node[place[1]].keys) THEN hi[place[1]] ELSE node[place[1]].keys[place[2]]

\* At the beginning of a leaf nothing comes before its first key.
LEMMA LeafBegins ==
  ASSUME NEW lo, NEW hi, NEW low, NEW high, Chained(lo, hi, low, high),
         NEW lists, ManyLists(lists), Listed(lo, hi, low, high, lists),
         NEW a \in DOMAIN node, node[a].leaf
  PROVE  /\ Coming(hi, high, <<a, 1>>) \in Int /\ lo[a] <= Coming(hi, high, <<a, 1>>)
         /\ Coming(hi, high, <<a, 1>>) <= hi[a]
         /\ \A k \in Int : lo[a] <= k /\ k < Coming(hi, high, <<a, 1>>) => lists[k] = << >>
<1> DEFINE ks == node[a].keys
<1>1. /\ a # Null /\ lo[a] \in Int /\ hi[a] \in Int /\ lo[a] < hi[a] /\ Len(ks) \in Nat
      /\ \A i \in 1..Len(ks) : ks[i] \in Int /\ lo[a] <= ks[i] /\ ks[i] < hi[a]
      /\ \A i, j \in 1..Len(ks) : i < j => ks[i] < ks[j]
  BY DEF Chained, InChain
<1>2. \A k \in Int : lo[a] <= k /\ k < hi[a] => lists[k] = << >> \/ \E i \in 1..Len(ks) : ks[i] = k
  BY DEF Listed
<1>3. Coming(hi, high, <<a, 1>>) = IF 1 > Len(ks) THEN hi[a] ELSE ks[1]
  BY <1>1 DEF Coming
<1> HIDE DEF ks
<1>4. CASE 1 > Len(ks)
  <2>1. Coming(hi, high, <<a, 1>>) = hi[a] /\ \A i \in 1..Len(ks) : FALSE
    BY <1>1, <1>3, <1>4
  <2> QED BY <1>1, <1>2, <2>1
<1>5. CASE ~(1 > Len(ks))
  <2>1. Coming(hi, high, <<a, 1>>) = ks[1] /\ 1 \in 1..Len(ks)
    BY <1>1, <1>3, <1>5
  <2>2. \A i \in 1..Len(ks) : ks[1] <= ks[i] /\ ks[i] \in Int
    BY <1>1, <2>1
  <2>3. ASSUME NEW k \in Int, lo[a] <= k, k < ks[1] PROVE lists[k] = << >>
    <3>1. k < hi[a]
      BY <1>1, <2>1, <2>3
    <3>2. \A i \in 1..Len(ks) : ks[i] # k
      BY <2>1, <2>2, <2>3
    <3> QED BY <1>2, <2>3, <3>1, <3>2
  <2> QED BY <1>1, <2>1, <2>3
<1> QED BY <1>4, <1>5

\* Behind the i-th key of a leaf nothing comes before the next one.
LEMMA LeafGoesOn ==
  ASSUME NEW lo, NEW hi, NEW low, NEW high, Chained(lo, hi, low, high),
         NEW lists, ManyLists(lists), Listed(lo, hi, low, high, lists),
         NEW a \in DOMAIN node, node[a].leaf, NEW i \in 1..Len(node[a].keys)
  PROVE  /\ Coming(hi, high, <<a, i>>) = node[a].keys[i] /\ node[a].keys[i] \in Int
         /\ Coming(hi, high, <<a, i + 1>>) \in Int /\ node[a].keys[i] < Coming(hi, high, <<a, i + 1>>)
         /\ \A k \in Int : node[a].keys[i] + 1 <= k /\ k < Coming(hi, high, <<a, i + 1>>) => lists[k] = << >>
<1> DEFINE ks == node[a].keys
           n == Len(ks)
<1>1. /\ a # Null /\ lo[a] \in Int /\ hi[a] \in Int /\ lo[a] < hi[a] /\ n \in Nat
      /\ \A j \in 1..n : ks[j] \in Int /\ lo[a] <= ks[j] /\ ks[j] < hi[a]
      /\ \A j, l \in 1..n : j < l => ks[j] < ks[l]
  BY DEF Chained, InChain
<1>2. \A k \in Int : lo[a] <= k /\ k < hi[a] => lists[k] = << >> \/ \E j \in 1..n : ks[j] = k
  BY DEF Listed
<1>3. /\ Coming(hi, high, <<a, i>>) = IF i > n THEN hi[a] ELSE ks[i]
      /\ Coming(hi, high, <<a, i + 1>>) = IF i + 1 > n THEN hi[a] ELSE ks[i + 1]
  BY <1>1 DEF Coming
<1>4. i \in 1..n
  OBVIOUS
<1> HIDE DEF ks, n
<1>5. Coming(hi, high, <<a, i>>) = ks[i] /\ ks[i] \in Int /\ lo[a] <= ks[i] /\ ks[i] < hi[a]
  BY <1>1, <1>3, <1>4
<1>6. CASE i + 1 > n
  <2>1. Coming(hi, high, <<a, i + 1>>) = hi[a] /\ i = n
    BY <1>1, <1>3, <1>4, <1>6
  <2>2. \A j \in 1..n : ks[j] <= ks[i] /\ ks[j] \in Int
    BY <1>1, <1>4, <2>1
  <2>3. ASSUME NEW k \in Int, ks[i] + 1 <= k, k < hi[a] PROVE lists[k] = << >>
    <3>1. lo[a] <= k
      BY <1>1, <1>5, <2>3
    <3>2. \A j \in 1..n : ks[j] # k
      BY <1>5, <2>2, <2>3
    <3> QED BY <1>2, <2>3, <3>1, <3>2
  <2> QED BY <1>1, <1>5, <2>1, <2>3 DEF ks
<1>7. CASE ~(i + 1 > n)
  <2>1. Coming(hi, high, <<a, i + 1>>) = ks[i + 1] /\ i + 1 \in 1..n
    BY <1>1, <1>3, <1>4, <1>7
  <2>2. ks[i + 1] \in Int /\ ks[i] < ks[i + 1] /\ ks[i + 1] < hi[a]
    BY <1>1, <1>4, <2>1
  <2>3. \A j \in 1..n : ks[j] \in Int /\ (ks[j] <= ks[i] \/ ks[i + 1] <= ks[j])
    <3> TAKE j \in 1..n
    <3>1. j < i \/ j = i \/ j = i + 1 \/ i + 1 < j
      BY <1>1, <1>4
    <3>2. ks[j] \in Int /\ (j < i => ks[j] < ks[i]) /\ (i + 1 < j => ks[i + 1] < ks[j])
      BY <1>1, <1>4, <2>1
    <3> QED BY <1>5, <2>2, <3>1, <3>2
  <2>4. ASSUME NEW k \in Int, ks[i] + 1 <= k, k < ks[i + 1] PROVE lists[k] = << >>
    <3>1. lo[a] <= k /\ k < hi[a]
      BY <1>1, <1>5, <2>2, <2>4
    <3>2. \A j \in 1..n : ks[j] # k
      BY <1>5, <2>2, <2>3, <2>4, SMTT(20)
    <3> QED BY <1>2, <2>4, <3>1, <3>2
  <2> QED BY <1>5, <2>1, <2>2, <2>4 DEF ks
<1> QED BY <1>6, <1>7

-----------------------------------------------------------------------------
(* One step of the walk of RangeSearch. *)

\* g is the walk of RangeSearch.
Walks(upper, g) ==
    g = [place \in Places |->
            IF place[1] = Null THEN << >>
            ELSE IF place[2] > Len(node[place[1]].keys) THEN g[<<node[place[1]].next, 1>>]
            ELSE IF upper < node[place[1]].keys[place[2]] THEN << >>
            ELSE node[place[1]].values[place[2]] \o g[<<place[1], place[2] + 1>>]]

\* How far a walk still has to go.
Ahead(hi, high, place) ==
    2 * (high - Coming(hi, high, place))
      + (IF place[1] # Null /\ place[2] > Len(node[place[1]].keys) THEN 1 ELSE 0)

\* The places are the ends of the chain, and the places in leaves.
LEMMA PlaceParts ==
  ASSUME NEW place \in Places
  PROVE  /\ place = <<place[1], place[2]>> /\ place[2] \in Nat /\ place[2] >= 1
         /\ place[1] = Null \/ (place[1] \in DOMAIN node /\ node[place[1]].leaf)
BY DEF Places

\* Every index from 1 on is a place there.
LEMMA PlacesAre ==
  /\ \A i \in Nat : i >= 1 => <<Null, i>> \in Places
  /\ \A a \in DOMAIN node, i \in Nat : node[a].leaf /\ i >= 1 => <<a, i>> \in Places
<1>1. \A i \in Nat : i >= 1 => i \in Nat \ {0}
  OBVIOUS
<1> QED BY <1>1 DEF Places

\* What comes at a place past the keys of a leaf, comes at the beginning of the next.
LEMMA NextLeaf ==
  ASSUME NEW lo, NEW hi, NEW low, NEW high, Chained(lo, hi, low, high),
         NEW lists, ManyLists(lists), Listed(lo, hi, low, high, lists),
         NEW upper \in Int, NEW r, Rests(lists, low, upper, r),
         NEW a \in DOMAIN node, node[a].leaf, NEW i \in Nat, i > Len(node[a].keys)
  PROVE  LET there == <<node[a].next, 1>>
         IN  /\ there \in Places /\ r[Coming(hi, high, <<a, i>>)] = r[Coming(hi, high, there)]
             /\ Ahead(hi, high, <<a, i>>) \in Nat
             /\ Ahead(hi, high, there) \in Int /\ Ahead(hi, high, there) < Ahead(hi, high, <<a, i>>)
<1> DEFINE b == node[a].next
           c == Coming(hi, high, <<b, 1>>)
<1>1. /\ low \in Int /\ high \in Int /\ a # Null /\ lo[a] \in Int /\ hi[a] \in Int /\ low <= lo[a] /\ lo[a] < hi[a]
      /\ hi[a] <= high
      /\ IF b = Null THEN hi[a] = high ELSE b \in DOMAIN node /\ node[b].leaf /\ lo[b] = hi[a]
  BY DEF Chained, InChain
<1>2. Coming(hi, high, <<a, i>>) = hi[a]
  BY <1>1 DEF Coming
<1>3. Ahead(hi, high, <<a, i>>) = 2 * (high - hi[a]) + 1
  BY <1>1, <1>2 DEF Ahead
<1>4. CASE b = Null
  <2>1. c = high /\ Ahead(hi, high, <<b, 1>>) = 2 * (high - high) + 0
    BY <1>4 DEF Coming, Ahead
  <2>2. <<b, 1>> \in Places
    BY <1>4, PlacesAre
  <2>3. hi[a] = high
    BY <1>1, <1>4
  <2> HIDE DEF b
  <2>4. Ahead(hi, high, <<b, 1>>) = 0 /\ Ahead(hi, high, <<a, i>>) = 1
    BY <1>1, <1>3, <2>1, <2>3
  <2> QED BY <1>2, <2>1, <2>2, <2>3, <2>4 DEF b
<1>5. CASE b # Null
  <2>1. b \in DOMAIN node /\ node[b].leaf /\ lo[b] = hi[a]
    BY <1>1, <1>5
  <2>2. InChain(lo, hi, low, high, b)
    BY <2>1 DEF Chained
  <2>3. hi[b] \in Int /\ lo[b] < hi[b] /\ hi[b] <= high /\ Len(node[b].keys) \in Nat
    BY <2>2 DEF InChain
  <2> HIDE DEF b
  <2>4. /\ c \in Int /\ lo[b] <= c /\ c <= hi[b] /\ \A k \in Int : lo[b] <= k /\ k < c => lists[k] = << >>
    BY <2>1, LeafBegins
  <2>5. <<b, 1>> \in Places
    BY <2>1, PlacesAre
  <2>6. r[lo[b]] = r[c]
    <3>1. lo[b] \in Int /\ low <= lo[b]
      BY <1>1, <2>1
    <3> DEFINE m == lo[b]
    <3>2. m \in Int /\ c \in Int /\ low \in Int /\ low <= m /\ m <= c /\ \A k \in Int : m <= k /\ k < c => lists[k] = << >>
      BY <1>1, <2>4, <3>1
    <3> HIDE DEF m, c
    <3>3. r[m] = r[c]
      BY <3>2, EmptyRest
    <3> QED BY <3>3 DEF m
  <2>7. Ahead(hi, high, <<b, 1>>) = 2 * (high - c) + (IF 1 > Len(node[b].keys) THEN 1 ELSE 0)
    BY <1>5 DEF Ahead
  <2>8. 1 > Len(node[b].keys) => c = hi[b]
    BY <1>5 DEF Coming
  <2> DEFINE x == Ahead(hi, high, <<b, 1>>)
             y == hi[a]
  <2>9. /\ y \in Int /\ y <= c /\ y <= high /\ c <= high /\ x = 2 * (high - c) + (IF 1 > Len(node[b].keys) THEN 1 ELSE 0)
        /\ 1 > Len(node[b].keys) => y < c
    BY <1>1, <2>1, <2>3, <2>4, <2>7, <2>8
  <2> HIDE DEF x, y, c
  <2>10. x \in Int /\ x < 2 * (high - y) + 1 /\ 2 * (high - y) + 1 \in Nat
    <3>1. CASE 1 > Len(node[b].keys)
      <4>1. x = 2 * (high - c) + 1 /\ y < c
        BY <2>9, <3>1
      <4> QED BY <1>1, <2>4, <2>9, <4>1
    <3>2. CASE ~(1 > Len(node[b].keys))
      <4>1. x = 2 * (high - c) + 0
        BY <2>9, <3>2
      <4> QED BY <1>1, <2>4, <2>9, <4>1
    <3> QED BY <3>1, <3>2
  <2> QED BY <1>2, <1>3, <2>1, <2>5, <2>6, <2>10 DEF x, y, b, c
<1> QED BY <1>4, <1>5

\* What comes at a key of a leaf is its list, and what comes behind it.
LEMMA NextKey ==
  ASSUME NEW lo, NEW hi, NEW low, NEW high, Chained(lo, hi, low, high),
         NEW lists, ManyLists(lists), Listed(lo, hi, low, high, lists),
         NEW upper \in Int, NEW r, Rests(lists, low, upper, r),
         NEW a \in DOMAIN node, node[a].leaf, NEW i \in 1..Len(node[a].keys)
  PROVE  LET key == node[a].keys[i]
             there == <<a, i + 1>>
         IN  /\ there \in Places
             /\ upper < key => r[Coming(hi, high, <<a, i>>)] = << >>
             /\ ~(upper < key) => r[Coming(hi, high, <<a, i>>)] = node[a].values[i] \o r[Coming(hi, high, there)]
             /\ Ahead(hi, high, <<a, i>>) \in Nat
             /\ Ahead(hi, high, there) \in Int /\ Ahead(hi, high, there) < Ahead(hi, high, <<a, i>>)
<1> DEFINE key == node[a].keys[i]
           n == Len(node[a].keys)
           c == Coming(hi, high, <<a, i + 1>>)
           x == Ahead(hi, high, <<a, i + 1>>)
<1>1. /\ low \in Int /\ high \in Int /\ a # Null /\ lo[a] \in Int /\ hi[a] \in Int /\ low <= lo[a] /\ lo[a] < hi[a]
      /\ hi[a] <= high /\ n \in Nat /\ lo[a] <= key /\ key < hi[a]
  BY DEF Chained, InChain
<1>2. lists[key] = node[a].values[i]
  BY DEF Listed
<1>3. /\ Coming(hi, high, <<a, i>>) = key /\ key \in Int /\ c \in Int /\ key < c
      /\ \A k \in Int : key + 1 <= k /\ k < c => lists[k] = << >>
  BY LeafGoesOn, SMTT(20)
<1>4. i \in Nat /\ i >= 1 /\ i <= n /\ i + 1 \in Nat /\ i + 1 >= 1
  BY <1>1
<1>5. <<a, i + 1>> \in Places
  BY <1>4, PlacesAre
<1>6. Ahead(hi, high, <<a, i>>) = 2 * (high - key) + 0
  BY <1>1, <1>3, <1>4 DEF Ahead
<1>7. x = 2 * (high - c) + (IF i + 1 > n THEN 1 ELSE 0)
  BY <1>1 DEF Ahead
<1> HIDE DEF c, x, key, n
<1>8. x \in Int /\ x < 2 * (high - key) /\ 2 * (high - key) \in Nat
  <2>1. x \in {2 * (high - c), 2 * (high - c) + 1}
    <3>1. 2 * (high - c) + 0 = 2 * (high - c)
      BY <1>1, <1>3
    <3> QED BY <1>7, <3>1
  <2>2. key < high
    BY <1>1, <1>3
  <2> QED BY <1>1, <1>3, <2>1, <2>2
<1>9. r[key + 1] = r[c]
  <2>1. key + 1 \in Int /\ low <= key + 1 /\ key + 1 <= c
    BY <1>1, <1>3
  <2> QED BY <1>1, <1>3, <2>1, EmptyRest
<1>10. upper < key => r[key] = << >>
  BY <1>3 DEF Rests
<1>11. ~(upper < key) => r[key] = lists[key] \o r[key + 1]
  <2>1. low <= key
    BY <1>1, <1>3
  <2>2. ~(upper < key) => key <= upper
    BY <1>3
  <2> QED BY <1>3, <2>1, <2>2 DEF Rests
<1>12. 2 * (high - key) + 0 = 2 * (high - key)
  BY <1>1, <1>3
<1> QED BY <1>2, <1>3, <1>5, <1>6, <1>8, <1>9, <1>10, <1>11, <1>12 DEF c, x, key

-----------------------------------------------------------------------------
(* The walk of RangeSearch. *)

\* What comes at a place, by what comes at the next.
ComesBy(upper, hi, high, r, place) ==
    r[Coming(hi, high, place)] =
        IF place[1] = Null THEN << >>
        ELSE IF place[2] > Len(node[place[1]].keys) THEN r[Coming(hi, high, <<node[place[1]].next, 1>>)]
        ELSE IF upper < node[place[1]].keys[place[2]] THEN << >>
        ELSE node[place[1]].values[place[2]] \o r[Coming(hi, high, <<place[1], place[2] + 1>>)]

\* place goes on at there, which is nearer the end.
GoesOn(hi, high, place, there) ==
    /\ there \in Places /\ Ahead(hi, high, place) \in Nat
    /\ Ahead(hi, high, there) \in Int /\ Ahead(hi, high, there) < Ahead(hi, high, place)

\* Both hold of every place, so that what comes there is what comes next, and a walk ends.
LEMMA EveryPlace ==
  ASSUME NEW lo, NEW hi, NEW low, NEW high, Chained(lo, hi, low, high),
         NEW lists, ManyLists(lists), Listed(lo, hi, low, high, lists),
         NEW upper \in Int, NEW r, Rests(lists, low, upper, r),
         NEW place \in Places
  PROVE  /\ ComesBy(upper, hi, high, r, place)
         /\ Ahead(hi, high, place) \in Nat
         /\ place[1] # Null =>
               IF place[2] > Len(node[place[1]].keys) THEN GoesOn(hi, high, place, <<node[place[1]].next, 1>>)
               ELSE GoesOn(hi, high, place, <<place[1], place[2] + 1>>)
<1> DEFINE a == place[1]
           i == place[2]
<1>1. place = <<a, i>> /\ i \in Nat /\ i >= 1 /\ (a = Null \/ (a \in DOMAIN node /\ node[a].leaf))
  BY PlaceParts
<1>2. CASE a = Null
  <2>1. low \in Int /\ high \in Int /\ low <= high
    BY DEF Chained
  <2>2. Coming(hi, high, place) = high
    BY <1>2 DEF Coming
  <2>3. Ahead(hi, high, place) = 2 * (high - high) + 0
    BY <1>2, <2>2 DEF Ahead
  <2>4. r[high] = << >>
    <3>1. \A k \in Int : k > upper => r[k] = << >>
      BY DEF Rests
    <3>2. CASE high > upper
      BY <2>1, <3>1, <3>2
    <3>3. CASE ~(high > upper)
      <4>1. high <= upper + 1 /\ upper + 1 \in Int /\ upper + 1 > upper
        BY <2>1, <3>3
      <4>2. \A k \in Int : high <= k => lists[k] = << >>
        BY DEF Listed
      <4> DEFINE m == upper + 1
      <4>4. m \in Int /\ low <= high /\ high <= m /\ \A k \in Int : high <= k /\ k < m => lists[k] = << >>
        BY <2>1, <4>1, <4>2
      <4> HIDE DEF m
      <4>5. r[high] = r[m]
        BY <2>1, <4>4, EmptyRest
      <4>3. r[high] = r[upper + 1]
        BY <4>5 DEF m
      <4> QED BY <3>1, <4>1, <4>3
    <3> QED BY <3>2, <3>3
  <2>5. ComesBy(upper, hi, high, r, place)
    BY <1>2, <2>2, <2>4 DEF ComesBy
  <2>6. Ahead(hi, high, place) \in Nat
    BY <2>1, <2>3
  <2> QED BY <1>2, <2>5, <2>6
<1>3. CASE a # Null /\ i > Len(node[a].keys)
  <2>1. a \in DOMAIN node /\ node[a].leaf
    BY <1>1, <1>3
  <2> DEFINE there == <<node[a].next, 1>>
  <2>2. /\ there \in Places /\ r[Coming(hi, high, <<a, i>>)] = r[Coming(hi, high, there)]
        /\ Ahead(hi, high, <<a, i>>) \in Nat
        /\ Ahead(hi, high, there) \in Int /\ Ahead(hi, high, there) < Ahead(hi, high, <<a, i>>)
    <3> HIDE DEF a, i
    <3> QED BY <1>1, <1>3, <2>1, NextLeaf
  <2>3. GoesOn(hi, high, place, there)
    BY <1>1, <2>2 DEF GoesOn
  <2>4. ComesBy(upper, hi, high, r, place)
    BY <1>1, <1>3, <2>2 DEF ComesBy
  <2> QED BY <1>1, <1>3, <2>2, <2>3, <2>4
<1>4. CASE a # Null /\ ~(i > Len(node[a].keys))
  <2>1. a \in DOMAIN node /\ node[a].leaf /\ i \in 1..Len(node[a].keys)
    <3>1. a \in DOMAIN node /\ node[a].leaf
      BY <1>1, <1>4
    <3>2. Len(node[a].keys) \in Nat
      BY <3>1 DEF Chained, InChain
    <3> QED BY <1>1, <1>4, <3>1, <3>2
  <2> DEFINE there == <<a, i + 1>>
             key == node[a].keys[i]
  <2>2. /\ there \in Places
        /\ upper < key => r[Coming(hi, high, <<a, i>>)] = << >>
        /\ ~(upper < key) => r[Coming(hi, high, <<a, i>>)] = node[a].values[i] \o r[Coming(hi, high, there)]
        /\ Ahead(hi, high, <<a, i>>) \in Nat
        /\ Ahead(hi, high, there) \in Int /\ Ahead(hi, high, there) < Ahead(hi, high, <<a, i>>)
    <3> HIDE DEF a, i
    <3> QED BY <2>1, NextKey
  <2>3. GoesOn(hi, high, place, there)
    BY <1>1, <2>2 DEF GoesOn
  <2>4. ComesBy(upper, hi, high, r, place)
    BY <1>1, <1>4, <2>2 DEF ComesBy
  <2> QED BY <1>1, <1>4, <2>2, <2>3, <2>4
<1> QED BY <1>2, <1>3, <1>4

\* There is a walk.
LEMMA WalkExists ==
  ASSUME NEW lo, NEW hi, NEW low, NEW high, Chained(lo, hi, low, high),
         NEW lists, ManyLists(lists), Listed(lo, hi, low, high, lists),
         NEW upper \in Int, NEW r, Rests(lists, low, upper, r)
  PROVE  \E g : Walks(upper, g)
<1> DEFINE g == [place \in Places |-> r[Coming(hi, high, place)]]
           Turn(place) ==
              IF place[1] = Null THEN << >>
              ELSE IF place[2] > Len(node[place[1]].keys) THEN g[<<node[place[1]].next, 1>>]
              ELSE IF upper < node[place[1]].keys[place[2]] THEN << >>
              ELSE node[place[1]].values[place[2]] \o g[<<place[1], place[2] + 1>>]
<1>1. ASSUME NEW place \in Places PROVE g[place] = Turn(place)
  <2>1. /\ ComesBy(upper, hi, high, r, place)
        /\ place[1] # Null =>
               IF place[2] > Len(node[place[1]].keys) THEN GoesOn(hi, high, place, <<node[place[1]].next, 1>>)
               ELSE GoesOn(hi, high, place, <<place[1], place[2] + 1>>)
    BY EveryPlace
  <2>2. place[1] # Null => IF place[2] > Len(node[place[1]].keys) THEN <<node[place[1]].next, 1>> \in Places
                           ELSE <<place[1], place[2] + 1>> \in Places
    BY <2>1 DEF GoesOn
  <2>3. CASE place[1] = Null
    BY <2>1, <2>3 DEF ComesBy
  <2>4. CASE place[1] # Null /\ place[2] > Len(node[place[1]].keys)
    BY <2>1, <2>2, <2>4 DEF ComesBy
  <2>5. CASE place[1] # Null /\ ~(place[2] > Len(node[place[1]].keys))
    BY <2>1, <2>2, <2>5 DEF ComesBy
  <2> QED BY <2>3, <2>4, <2>5
<1>2. g = [place \in Places |-> Turn(place)]
  <2> HIDE DEF Turn
  <2> QED BY <1>1
<1>3. Walks(upper, g)
  <2> HIDE DEF g
  <2> QED BY <1>2, ZenonT(40) DEF Walks
<1> QED BY <1>3

\* Whatever the walk is, it gives at each place what comes there.
LEMMA WalkGives ==
  ASSUME NEW lo, NEW hi, NEW low, NEW high, Chained(lo, hi, low, high),
         NEW lists, ManyLists(lists), Listed(lo, hi, low, high, lists),
         NEW upper \in Int, NEW r, Rests(lists, low, upper, r),
         NEW g, Walks(upper, g), NEW place \in Places
  PROVE  g[place] = r[Coming(hi, high, place)]
<1> DEFINE Bad == {p \in Places : g[p] # r[Coming(hi, high, p)]}
           rank == [p \in Places |-> Ahead(hi, high, p)]
<1>1. Bad = {}
  <2> SUFFICES ASSUME Bad # {} PROVE FALSE
    OBVIOUS
  <2>1. \A p \in Bad : rank[p] \in Nat
    BY EveryPlace
  <2>2. PICK p \in Bad : \A q \in Bad : ~(rank[q] < rank[p])
    <3> HIDE DEF Bad, rank
    <3> QED BY <2>1, LeastRank
  <2>3. p \in Places /\ g[p] # r[Coming(hi, high, p)]
    OBVIOUS
  <2>4. \A q \in Places : Ahead(hi, high, q) < Ahead(hi, high, p) => g[q] = r[Coming(hi, high, q)]
    BY <2>2, <2>3
  <2>5. /\ ComesBy(upper, hi, high, r, p)
        /\ p[1] # Null =>
               IF p[2] > Len(node[p[1]].keys) THEN GoesOn(hi, high, p, <<node[p[1]].next, 1>>)
               ELSE GoesOn(hi, high, p, <<p[1], p[2] + 1>>)
    BY <2>3, EveryPlace
  <2>6. g[p] = IF p[1] = Null THEN << >>
               ELSE IF p[2] > Len(node[p[1]].keys) THEN g[<<node[p[1]].next, 1>>]
               ELSE IF upper < node[p[1]].keys[p[2]] THEN << >>
               ELSE node[p[1]].values[p[2]] \o g[<<p[1], p[2] + 1>>]
    BY <2>3, ZenonT(40) DEF Walks
  <2> HIDE DEF Bad, rank
  <2>7. CASE p[1] = Null
    BY <2>3, <2>5, <2>6, <2>7 DEF ComesBy
  <2>8. CASE p[1] # Null /\ p[2] > Len(node[p[1]].keys)
    <3> DEFINE q == <<node[p[1]].next, 1>>
    <3>1. q \in Places /\ Ahead(hi, high, q) < Ahead(hi, high, p)
      BY <2>5, <2>8 DEF GoesOn
    <3>2. g[q] = r[Coming(hi, high, q)]
      BY <2>4, <3>1
    <3> QED BY <2>3, <2>5, <2>6, <2>8, <3>2 DEF ComesBy
  <2>9. CASE p[1] # Null /\ ~(p[2] > Len(node[p[1]].keys))
    <3> DEFINE q == <<p[1], p[2] + 1>>
    <3>1. q \in Places /\ Ahead(hi, high, q) < Ahead(hi, high, p)
      BY <2>5, <2>9 DEF GoesOn
    <3>2. g[q] = r[Coming(hi, high, q)]
      BY <2>4, <3>1
    <3> QED BY <2>3, <2>5, <2>6, <2>9, <3>2 DEF ComesBy
  <2> QED BY <2>7, <2>8, <2>9
<1> QED BY <1>1

\* So RangeSearch returns what comes where the descent for its lower end arrives.
LEMMA RangeSearchIs ==
  ASSUME NEW lo, NEW hi, NEW low, NEW high, Chained(lo, hi, low, high),
         NEW lists, ManyLists(lists), Listed(lo, hi, low, high, lists),
         NEW upper \in Int, NEW r, Rests(lists, low, upper, r),
         NEW lower \in Int, lower <= upper, root # Null, <<FindLeaf(lower), Slot(lower)>> \in Places
  PROVE  RangeSearch(lower, upper) = r[Coming(hi, high, <<FindLeaf(lower), Slot(lower)>>)]
<1> DEFINE Turn(g, place) ==
              IF place[1] = Null THEN << >>
              ELSE IF place[2] > Len(node[place[1]].keys) THEN g[<<node[place[1]].next, 1>>]
              ELSE IF upper < node[place[1]].keys[place[2]] THEN << >>
              ELSE node[place[1]].values[place[2]] \o g[<<place[1], place[2] + 1>>]
           f == CHOOSE g : g = [place \in Places |-> Turn(g, place)]
           first == <<FindLeaf(lower), Slot(lower)>>
<1>1. ~(root = Null \/ upper < lower)
  OBVIOUS
<1>2. RangeSearch(lower, upper) = f[first]
  BY <1>1, SMTT(20) DEF RangeSearch
<1>3. \A g : Walks(upper, g) <=> g = [place \in Places |-> Turn(g, place)]
  BY DEF Walks
<1> HIDE DEF Turn
<1>4. PICK w : Walks(upper, w)
  BY WalkExists
<1>5. f = [place \in Places |-> Turn(f, place)]
  BY <1>3, <1>4
<1> HIDE DEF f
<1>6. Walks(upper, f)
  BY <1>3, <1>5
<1> HIDE DEF first
<1>7. first \in Places
  BY DEF first
<1>8. f[first] = r[Coming(hi, high, first)]
  BY <1>6, <1>7, WalkGives
<1> QED BY <1>2, <1>8 DEF first

-----------------------------------------------------------------------------
(* What the leaves hold, as lists for a walk. *)

\* The posting lists that the leaves hold, one for each number.
Held == [k \in Int |-> IF k \in KeysOf(node) THEN MapOf(node)[k] ELSE << >>]

\* Every leaf of a tree, also of one with a half pending, is as a walk needs it.
LEMMA TreeIsChained ==
  ASSUME NEW h, NEW lo, NEW hi, NEW left, NEW right, NEW over, NEW short,
         Tree(node, root, h, lo, hi, left, right, over, short), root # Null
  PROVE  Chained(lo, hi, lo[root], End(hi, left, right, root))
<1> DEFINE low == lo[root]
           high == End(hi, left, right, root)
<1>1. /\ Heap(node) /\ Kinds(node, h) /\ Ordered(node, lo, hi) /\ Whole(node, root, h, lo, hi, left, right)
      /\ Chain(node, root, lo, hi, left, right) /\ Pending(node, root, h, lo, hi, left, right)
  BY DEF Tree
<1>2. \A a \in DOMAIN node : lo[a] \in Int /\ hi[a] \in Int /\ lo[a] < hi[a] /\ a # Null
  BY <1>1, Fields DEF Ordered, InOrder
<1>3. root \in DOMAIN node /\ \A a \in DOMAIN node : low <= lo[a] /\ hi[a] <= high
  BY <1>1 DEF Whole
<1>4. low \in Int /\ high \in Int
  <2>1. root = left => right \in DOMAIN node
    BY <1>1, <1>2, <1>3 DEF Pending
  <2> QED BY <1>2, <1>3, <2>1 DEF End
<1> HIDE DEF low, high
<1>5. low <= high
  BY <1>2, <1>3, <1>4
<1>6. ASSUME NEW a \in DOMAIN node, node[a].leaf PROVE InChain(lo, hi, low, high, a)
  <2>1. /\ a # Null /\ lo[a] \in Int /\ hi[a] \in Int /\ low <= lo[a] /\ lo[a] < hi[a] /\ hi[a] <= high
    BY <1>2, <1>3
  <2>2. /\ Len(node[a].keys) \in Nat /\ node[a].values \in Seq(Seq(Records))
        /\ \A i \in 1..Len(node[a].keys) : node[a].keys[i] \in Int
    BY <1>1, Fields
  <2>3. Len(node[a].values) = Len(node[a].keys)
    BY <1>1, <1>6 DEF Kinds, KindOf
  <2>4. \A i \in 1..Len(node[a].keys) : node[a].values[i] \in Seq(Records)
    <3> DEFINE vs == node[a].values
               n == Len(node[a].keys)
    <3>1. vs \in Seq(Seq(Records)) /\ Len(vs) = n
      BY <2>2, <2>3
    <3> HIDE DEF vs, n
    <3>2. \A i \in 1..n : vs[i] \in Seq(Records)
      BY <3>1, ElementOfSeq
    <3> QED BY <3>2 DEF vs, n
  <2>5. InOrder(node, lo, hi, a)
    BY <1>1 DEF Ordered
  <2>6. /\ \A i \in 1..Len(node[a].keys) : lo[a] <= node[a].keys[i] /\ node[a].keys[i] < hi[a]
        /\ \A i, j \in 1..Len(node[a].keys) : i < j => node[a].keys[i] < node[a].keys[j]
    BY <2>5 DEF InOrder
  <2>7. IF node[a].next = Null THEN hi[a] = high
        ELSE node[a].next \in DOMAIN node /\ node[node[a].next].leaf /\ lo[node[a].next] = hi[a]
    <3>1. Linked(node, root, lo, hi, left, right, a)
      BY <1>1, <1>6 DEF Chain
    <3> QED BY <3>1 DEF Linked, high
  <2> QED BY <2>1, <2>2, <2>4, <2>6, <2>7 DEF InChain
<1>7. Chained(lo, hi, low, high)
  BY <1>4, <1>5, <1>6 DEF Chained
<1> QED BY <1>7 DEF low, high

\* What the leaves hold is a list for each number.
LEMMA HeldLists ==
  ASSUME NEW h, NEW lo, NEW hi, NEW left, NEW right, NEW over, NEW short,
         Tree(node, root, h, lo, hi, left, right, over, short)
  PROVE  /\ ManyLists(Held)
         /\ \A a \in DOMAIN node : node[a].leaf => \A i \in 1..Len(node[a].keys) : Held[node[a].keys[i]] = node[a].values[i]
         /\ \A k \in Int : Held[k] # << >> => k \in Keys /\ Posted(node, k)
<1> DEFINE m == MapOf(node)
<1>1. Heap(node) /\ Kinds(node, h) /\ HeldOnce(node)
  BY PostingsAre DEF Tree, Map1
<1>2. /\ DOMAIN m = KeysOf(node)
      /\ \A k \in KeysOf(node) : Holds(node, k, m[k])
      /\ \A k, l : Holds(node, k, l) => k \in KeysOf(node) /\ m[k] = l
  BY <1>1, MapHolds
<1> HIDE DEF m
<1>3. \A k \in Int : Held[k] = IF k \in KeysOf(node) THEN m[k] ELSE << >>
  BY DEF Held, m
<1>4. ASSUME NEW k \in KeysOf(node) PROVE m[k] \in Seq(Records)
  <2>1. PICK a \in DOMAIN node : node[a].leaf /\ \E i \in 1..Len(node[a].keys) : node[a].keys[i] = k /\ node[a].values[i] = m[k]
    BY <1>2 DEF Holds
  <2>2. PICK i \in 1..Len(node[a].keys) : node[a].values[i] = m[k]
    BY <2>1
  <2> DEFINE vs == node[a].values
             n == Len(node[a].keys)
  <2>3. vs \in Seq(Seq(Records)) /\ Len(vs) = n /\ i \in 1..n /\ vs[i] = m[k]
    BY <1>1, <2>1, <2>2, Fields DEF Kinds, KindOf
  <2> HIDE DEF vs, n
  <2>4. vs[i] \in Seq(Records)
    BY <2>3, ElementOfSeq
  <2> QED BY <2>3, <2>4
<1>5. ManyLists(Held)
  <2>1. ASSUME NEW k \in Int PROVE Held[k] \in Seq(Records)
    <3>1. CASE k \in KeysOf(node)
      <4>1. Held[k] = m[k]
        BY <1>3, <3>1
      <4> QED BY <1>4, <3>1, <4>1
    <3>2. CASE k \notin KeysOf(node)
      <4>1. Held[k] = << >>
        BY <1>3, <3>2
      <4> QED BY <4>1
    <3> QED BY <3>1, <3>2
  <2>2. Held = [k \in Int |-> Held[k]]
    BY DEF Held
  <2> HIDE DEF Held
  <2> QED BY <2>1, <2>2 DEF ManyLists
<1>6. ASSUME NEW a \in DOMAIN node, node[a].leaf, NEW i \in 1..Len(node[a].keys)
      PROVE  Held[node[a].keys[i]] = node[a].values[i]
  <2> DEFINE k == node[a].keys[i]
             l == node[a].values[i]
  <2>1. Holds(node, k, l)
    BY <1>6 DEF Holds
  <2>2. k \in Int
    BY <1>1, Fields
  <2> HIDE DEF k, l
  <2>3. Held[k] = l
    BY <1>2, <1>3, <2>1, <2>2
  <2> QED BY <2>3 DEF k, l
<1>7. \A k \in Int : Held[k] # << >> => k \in Keys /\ Posted(node, k)
  BY <1>3 DEF KeysOf
<1> QED BY <1>5, <1>6, <1>7

\* These lists are the ones that a walk of the chain goes through.
LEMMA HeldIsListed ==
  ASSUME NEW h, NEW lo, NEW hi, NEW left, NEW right, NEW over, NEW short,
         Tree(node, root, h, lo, hi, left, right, over, short), root # Null
  PROVE  Listed(lo, hi, lo[root], End(hi, left, right, root), Held)
<1> DEFINE low == lo[root]
           high == End(hi, left, right, root)
<1>1. Chained(lo, hi, low, high)
  BY TreeIsChained
<1> HIDE DEF low, high
<1>2. /\ \A a \in DOMAIN node : node[a].leaf => \A i \in 1..Len(node[a].keys) : Held[node[a].keys[i]] = node[a].values[i]
      /\ \A k \in Int : Held[k] # << >> => Posted(node, k)
  BY HeldLists
<1>3. /\ Kinds(node, h) /\ Ordered(node, lo, hi) /\ Apart(node, h, lo, hi)
  BY DEF Tree
<1>4. ASSUME NEW k \in Int, Held[k] # << >>
      PROVE  /\ low <= k /\ k < high
             /\ \A a \in DOMAIN node : node[a].leaf /\ lo[a] <= k /\ k < hi[a] =>
                   \E i \in 1..Len(node[a].keys) : node[a].keys[i] = k
  <2>1. PICK b \in DOMAIN node : node[b].leaf /\ \E i \in 1..Len(node[b].keys) : node[b].keys[i] = k
    BY <1>2, <1>4 DEF Posted
  <2>2. /\ lo[b] <= k /\ k < hi[b] /\ low <= lo[b] /\ hi[b] <= high
        /\ lo[b] \in Int /\ hi[b] \in Int /\ low \in Int /\ high \in Int
    BY <1>1, <2>1 DEF Chained, InChain
  <2>3. low <= k /\ k < high
    BY <2>2
  <2>4. ASSUME NEW a \in DOMAIN node, node[a].leaf, lo[a] <= k, k < hi[a] PROVE a = b
    <3>1. h[a] = h[b]
      BY <1>3, <2>1, <2>4 DEF Kinds, KindOf
    <3> QED BY <1>3, <2>2, <2>4, <3>1, SameNode
  <2> QED BY <2>1, <2>3, <2>4
<1>5. low \in Int /\ high \in Int
  BY <1>1 DEF Chained
<1>6. \A k \in Int : k < low \/ high <= k => Held[k] = << >>
  BY <1>4, <1>5
<1>7. \A a \in DOMAIN node : node[a].leaf =>
          /\ \A i \in 1..Len(node[a].keys) : Held[node[a].keys[i]] = node[a].values[i]
          /\ \A k \in Int : lo[a] <= k /\ k < hi[a] =>
                Held[k] = << >> \/ \E i \in 1..Len(node[a].keys) : node[a].keys[i] = k
  BY <1>2, <1>4
<1> QED BY <1>6, <1>7 DEF Listed, low, high

-----------------------------------------------------------------------------
(* RangeSearch agrees with Search. *)

\* The walk starts at a place before which no list from lower on has anything: so the range
\* search joins the lists of the range.
LEMMA RangeIsJoined ==
  ASSUME NEW h, NEW lo, NEW hi, NEW left, NEW right, NEW over, NEW short,
         Tree(node, root, h, lo, hi, left, right, over, short), root # Null,
         NEW lower \in Int, NEW upper \in Int, lower <= upper,
         NEW c, c = Coming(hi, End(hi, left, right, root), <<FindLeaf(lower), Slot(lower)>>),
         <<FindLeaf(lower), Slot(lower)>> \in Places,
         c \in Int, lower <= c, \A k \in Int : lower <= k /\ k < c => Held[k] = << >>
  PROVE  RangeSearch(lower, upper) = Joined(Held, lower, upper)
<1> DEFINE high == End(hi, left, right, root)
           low == lo[root]
           least == IF lower < low THEN lower ELSE low
           lists == Held
<1>1. Chained(lo, hi, low, high) /\ Listed(lo, hi, low, high, lists) /\ ManyLists(lists)
  BY TreeIsChained, HeldIsListed, HeldLists
<1>2. c = Coming(hi, high, <<FindLeaf(lower), Slot(lower)>>)
  OBVIOUS
<1>3. \A k \in Int : lower <= k /\ k < c => lists[k] = << >>
  OBVIOUS
<1> HIDE DEF high, low, lists
<1>4. low \in Int
  BY <1>1 DEF Chained
<1>5. least \in Int /\ least <= lower /\ least <= low
  BY <1>4
<1> HIDE DEF least
<1>6. PICK r : Rests(lists, least, upper, r)
  BY <1>1, <1>5, RestsExist
<1>7. Rests(lists, low, upper, r)
  <2>1. /\ r \in [Int -> Seq(Records)] /\ \A k \in Int : k > upper => r[k] = << >>
        /\ \A k \in Int : least <= k /\ k <= upper => r[k] = lists[k] \o r[k + 1]
    BY <1>6 DEF Rests
  <2>2. \A k \in Int : low <= k => least <= k
    BY <1>4, <1>5
  <2>3. \A k \in Int : low <= k /\ k <= upper => r[k] = lists[k] \o r[k + 1]
    BY <2>1, <2>2
  <2> QED BY <2>1, <2>3 DEF Rests
<1>8. RangeSearch(lower, upper) = r[Coming(hi, high, <<FindLeaf(lower), Slot(lower)>>)]
  BY <1>1, <1>7, RangeSearchIs
<1>9. r[lower] = r[c]
  <2>1. least \in Int /\ c \in Int /\ lower \in Int /\ least <= lower /\ lower <= c
    BY <1>5
  <2> QED BY <1>1, <1>3, <1>6, <2>1, EmptyRest
<1>10. Joined(lists, lower, upper) = r[lower]
  <2>1. least \in Int /\ lower \in Int /\ upper \in Int /\ least <= lower /\ ManyLists(lists)
    BY <1>1, <1>5
  <2> QED BY <1>6, <2>1, JoinedIs
<1> QED BY <1>2, <1>8, <1>9, <1>10 DEF lists

\* In a tree at rest the descent for lower ends at such a place.
LEMMA DescentArrives ==
  ASSUME NEW h, NEW lo, NEW hi, Resting(node, root, h, lo, hi, Null, Null), root # Null,
         NEW key \in Keys, lo[root] <= key, key < hi[root],
         NEW c, c = Coming(hi, End(hi, Null, Null, root), <<FindLeaf(key), Slot(key)>>)
  PROVE  /\ <<FindLeaf(key), Slot(key)>> \in Places /\ c \in Int /\ key <= c
         /\ \A k \in Int : key <= k /\ k < c => Held[k] = << >>
<1> DEFINE a == FindLeaf(key)
           s == Slot(key)
           ks == node[a].keys
           high == End(hi, Null, Null, root)
           low == lo[root]
           lists == Held
<1>1. Reached(a, s, lo, hi, key)
  BY Found
<1>2. Tree(node, root, h, lo, hi, Null, Null, Null, Null)
  BY DEF Resting
<1>3. Chained(lo, hi, low, high) /\ Listed(lo, hi, low, high, lists) /\ ManyLists(lists)
  BY <1>2, TreeIsChained, HeldIsListed, HeldLists
<1>4. c = Coming(hi, high, <<a, s>>)
  OBVIOUS
<1> HIDE DEF a, s, high, low, lists
<1>5. /\ a \in DOMAIN node /\ node[a].leaf /\ a # Null /\ Len(ks) \in Nat /\ \A i \in 1..Len(ks) : ks[i] \in Int
      /\ \A i, j \in 1..Len(ks) : i < j => ks[i] < ks[j]
      /\ lo[a] <= key /\ key < hi[a] /\ key \in Int
      /\ s \in 1..Len(ks) + 1 /\ \A i \in 1..Len(ks) : ks[i] < key <=> i < s
  BY <1>1 DEF Reached
<1>6. lo[a] \in Int /\ hi[a] \in Int /\ \A i \in 1..Len(ks) : ks[i] < hi[a]
  BY <1>3, <1>5 DEF Chained, InChain
<1>7. c = IF s > Len(ks) THEN hi[a] ELSE ks[s]
  BY <1>4, <1>5 DEF Coming
<1>8. \A k \in Int : lo[a] <= k /\ k < hi[a] => lists[k] = << >> \/ \E i \in 1..Len(ks) : ks[i] = k
  BY <1>3, <1>5 DEF Listed
<1> HIDE DEF ks
<1>9. <<a, s>> \in Places
  <2>1. s \in Nat /\ s >= 1
    BY <1>5
  <2> QED BY <1>5, <2>1, PlacesAre
<1>10. c \in Int /\ key <= c /\ c <= hi[a]
  <2>1. CASE s > Len(ks)
    BY <1>5, <1>6, <1>7, <2>1
  <2>2. CASE ~(s > Len(ks))
    <3>1. s \in 1..Len(ks) /\ ~(s < s) /\ c = ks[s]
      BY <1>5, <1>7, <2>2
    <3> QED BY <1>5, <1>6, <3>1
  <2> QED BY <2>1, <2>2
<1>11. ASSUME NEW k \in Int, key <= k, k < c PROVE lists[k] = << >>
  <2> SUFFICES ASSUME lists[k] # << >> PROVE FALSE
    OBVIOUS
  <2>1. lo[a] <= k /\ k < hi[a]
    BY <1>5, <1>6, <1>10, <1>11
  <2>2. PICK i \in 1..Len(ks) : ks[i] = k
    BY <1>8, <2>1
  <2>3. ~(ks[i] < key)
    BY <1>5, <1>11, <2>2
  <2>4. ~(i < s) /\ s <= i /\ i <= Len(ks) /\ s \in 1..Len(ks)
    BY <1>5, <2>3
  <2>5. c = ks[s] /\ ks[s] \in Int
    BY <1>5, <1>7, <2>4
  <2>6. ks[s] <= ks[i]
    BY <1>5, <2>4
  <2> QED BY <1>11, <2>2, <2>5, <2>6
<1> QED BY <1>9, <1>10, <1>11 DEF a, s, lists

\* What searching for each key returns is what the leaves hold.
LEMMA SearchesAreHeld ==
  ASSUME IInv, todo \in After, Matches
  PROVE  [k \in Int |-> IF k \in Keys THEN Search(k) ELSE << >>] = Held
<1> DEFINE m == MapOf(node)
<1>1. MapPostings = m /\ DOMAIN m = KeysOf(node)
  BY DEF Matches, MapOf
<1>2. ASSUME NEW k \in Keys PROVE Search(k) = IF k \in KeysOf(node) THEN m[k] ELSE << >>
  <2>1. Search(k) = Map!ListOf(k)
    BY SearchIsMap
  <2> QED BY <1>1, <2>1 DEF Map!ListOf
<1>3. KeysOf(node) \subseteq Keys
  BY DEF KeysOf
<1> HIDE DEF m
<1>4. \A k \in Int : (IF k \in Keys THEN Search(k) ELSE << >>) = IF k \in KeysOf(node) THEN m[k] ELSE << >>
  BY <1>2, <1>3
<1> QED BY <1>4 DEF Held, m

\* An empty tree holds nothing.
LEMMA JoinsNothing ==
  ASSUME NEW lists, ManyLists(lists), NEW lower \in Int, NEW upper \in Int, \A k \in Int : lists[k] = << >>
  PROVE  Joined(lists, lower, upper) = << >>
<1>1. PICK r : Rests(lists, lower, upper, r)
  BY RestsExist
<1>2. Joined(lists, lower, upper) = r[lower]
  BY <1>1, JoinedIs
<1>3. \A k \in Int : k > upper => r[k] = << >>
  BY <1>1 DEF Rests
<1>4. CASE lower > upper
  BY <1>2, <1>3, <1>4
<1>5. CASE ~(lower > upper)
  <2> DEFINE m == upper + 1
  <2>1. m \in Int /\ m > upper /\ lower <= m
    BY <1>5
  <2> HIDE DEF m
  <2>2. r[lower] = r[m]
    BY <1>1, <2>1, EmptyRest
  <2> QED BY <1>2, <1>3, <2>1, <2>2
<1> QED BY <1>4, <1>5

\* The same of a range search in an empty tree, or of an empty range.
LEMMA NoRange ==
  ASSUME NEW h, NEW lo, NEW hi, NEW left, NEW right, NEW over, NEW short,
         Tree(node, root, h, lo, hi, left, right, over, short),
         NEW lower \in Int, NEW upper \in Int, root = Null \/ upper < lower
  PROVE  RangeSearch(lower, upper) = Joined(Held, lower, upper)
<1>1. RangeSearch(lower, upper) = << >>
  BY ZenonT(40) DEF RangeSearch
<1>2. CASE upper < lower
  BY <1>1, <1>2 DEF Joined
<1>3. CASE root = Null
  <2>1. DOMAIN node = {}
    BY <1>3 DEF Tree, Whole
  <2>2. ~\E k : Posted(node, k)
    BY <2>1 DEF Posted
  <2>3. ManyLists(Held) /\ \A k \in Int : Held[k] = << >>
    BY <2>2, HeldLists
  <2>4. Joined(Held, lower, upper) = << >>
    <3> DEFINE lists == Held
    <3>1. ManyLists(lists) /\ \A k \in Int : lists[k] = << >>
      BY <2>3
    <3> HIDE DEF lists
    <3>2. Joined(lists, lower, upper) = << >>
      BY <3>1, JoinsNothing
    <3> QED BY <3>2 DEF lists
  <2> QED BY <1>1, <2>4
<1> QED BY <1>2, <1>3

\* A range search returns what searching for each key of the range returns.
LEMMA RangeAgrees == IInv => RangeAgreesWithSearch
<1> SUFFICES ASSUME IInv, Idle, NEW lower \in Keys, NEW upper \in Keys
             PROVE  RangeSearch(lower, upper) =
                      Joined([k \in Int |-> IF k \in Keys THEN Search(k) ELSE << >>], lower, upper)
  BY DEF RangeAgreesWithSearch
<1>1. todo \in After /\ Matches /\ lower \in Int /\ upper \in Int
  BY ChainMatches, KeysAssumption DEF Shown, Idle, After
<1>2. [k \in Int |-> IF k \in Keys THEN Search(k) ELSE << >>] = Held
  BY <1>1, SearchesAreHeld
<1>3. CASE root = Null \/ upper < lower
  <2>1. PICK h, lo, hi : Resting(node, root, h, lo, hi, Null, Null)
    BY <1>1, WhenResting
  <2>2. RangeSearch(lower, upper) = Joined(Held, lower, upper)
    BY <1>1, <1>3, <2>1, NoRange DEF Resting
  <2> QED BY <1>2, <2>2
<1>4. CASE root # Null /\ ~(upper < lower)
  <2>1. PICK h, lo, hi : Resting(node, root, h, lo, hi, Null, Null) /\ lo[root] <= lower /\ lower < hi[root]
    BY <1>1, <1>4, LeafReached
  <2> DEFINE c == Coming(hi, End(hi, Null, Null, root), <<FindLeaf(lower), Slot(lower)>>)
             place == <<FindLeaf(lower), Slot(lower)>>
  <2>2. place \in Places /\ c \in Int /\ lower <= c /\ \A k \in Int : lower <= k /\ k < c => Held[k] = << >>
    BY <1>4, <2>1, DescentArrives
  <2>3. Tree(node, root, h, lo, hi, Null, Null, Null, Null) /\ lower <= upper
    BY <1>1, <1>4, <2>1 DEF Resting
  <2>4. c = Coming(hi, End(hi, Null, Null, root), <<FindLeaf(lower), Slot(lower)>>) /\ <<FindLeaf(lower), Slot(lower)>> \in Places
    BY <2>2
  <2> HIDE DEF c
  <2>5. RangeSearch(lower, upper) = Joined(Held, lower, upper)
    BY <1>1, <1>4, <2>2, <2>3, <2>4, RangeIsJoined
  <2> QED BY <1>2, <2>5
<1> QED BY <1>3, <1>4

\* RangeSearch, which descends once and then follows the leaf chain, returns the posting lists of
\* the keys of its range, in the order of the keys, as Search would return each.
THEOREM RangeAlwaysAgrees == Spec => []RangeAgreesWithSearch
<1>1. TreeInv => RangeAgreesWithSearch
  BY RangeAgrees, PiecesAreThrown DEF TreeInv, RangeAgreesWithSearch
<1> QED BY <1>1, TreeAlways, PTL

-----------------------------------------------------------------------------
(* The descent for the smallest key. *)

\* lower is not above any key.
NotAbove(lower) == lower \in Keys /\ \A k \in Keys : lower <= k

\* Every leaf has a key.
LEMMA LeafHasKey ==
  ASSUME NEW h, NEW lo, NEW hi, NEW left, NEW right, NEW over, NEW short,
         Tree(node, root, h, lo, hi, left, right, over, short), LeavesHold(node),
         NEW a \in DOMAIN node, node[a].leaf
  PROVE  Len(node[a].keys) \in Nat /\ Len(node[a].keys) >= 1
<1>1. Heap(node)
  BY DEF Tree
<1> QED BY <1>1, Fields DEF LeavesHold

\* On the left edge of the tree every interval reaches past the smallest key.
LEMMA LeftEdge ==
  ASSUME NEW h, NEW lo, NEW hi, NEW left, NEW right, NEW over, NEW short,
         Tree(node, root, h, lo, hi, left, right, over, short), LeavesHold(node),
         NEW lower, NotAbove(lower),
         NEW a \in DOMAIN node, lo[a] = lo[root]
  PROVE  lower < hi[a]
<1> DEFINE S == DOMAIN node
           Bad == {x \in S : lo[x] = lo[root] /\ ~(lower < hi[x])}
<1>1. /\ Heap(node) /\ Kinds(node, h) /\ Ordered(node, lo, hi) /\ Down(node, h, lo, hi, left, right)
      /\ Pending(node, root, h, lo, hi, left, right)
  BY DEF Tree
<1>2. lower \in Int /\ \A k \in Keys : k \in Int /\ lower <= k
  BY KeysAssumption DEF NotAbove
<1>3. \A x \in S : h[x] \in Nat /\ lo[x] \in Int /\ hi[x] \in Int /\ InOrder(node, lo, hi, x) /\ x # Null
  BY <1>1, Fields DEF Kinds, Ordered
<1>4. \A x \in S : Len(node[x].keys) \in Nat /\ \A i \in 1..Len(node[x].keys) : node[x].keys[i] \in Keys
  BY <1>1, Fields
<1>5. Bad = {}
  <2> SUFFICES ASSUME Bad # {} PROVE FALSE
    OBVIOUS
  <2>1. PICK x \in Bad : \A y \in Bad : ~(h[y] < h[x])
    <3>1. \A y \in Bad : h[y] \in Nat
      BY <1>3
    <3> HIDE DEF Bad
    <3> QED BY <3>1, LeastRank
  <2>2. x \in S /\ lo[x] = lo[root] /\ ~(lower < hi[x])
    OBVIOUS
  <2> DEFINE ks == node[x].keys
  <2>3. \A i \in 1..Len(ks) : ks[i] \in Keys /\ ks[i] < hi[x]
    BY <1>3, <1>4, <2>2 DEF InOrder
  <2>4. ~(Len(ks) >= 1)
    <3> SUFFICES ASSUME Len(ks) >= 1 PROVE FALSE
      OBVIOUS
    <3>1. 1 \in 1..Len(ks)
      BY <1>4, <2>2
    <3>2. ks[1] \in Keys /\ ks[1] < hi[x]
      BY <2>3, <3>1
    <3> QED BY <1>2, <1>3, <2>2, <3>2
  <2>5. ~node[x].leaf
    BY <2>2, <2>4, LeafHasKey
  <2> DEFINE c == node[x].children[1]
  <2>6. Hangs(node, h, lo, hi, left, right, x, 1) /\ Len(ks) = 0
    <3>1. Len(node[x].children) = Len(ks) + 1 /\ Len(ks) \in Nat
      BY <1>1, <1>4, <2>2, <2>5 DEF Kinds, KindOf
    <3>2. 1 \in 1..Len(node[x].children)
      BY <3>1
    <3> QED BY <1>1, <2>2, <2>4, <2>5, <3>1, <3>2 DEF Down
  <2>7. c \in S /\ h[c] + 1 = h[x] /\ lo[c] = lo[x] /\ End(hi, left, right, c) = hi[x]
    BY <2>6 DEF Hangs, ChildLow, ChildHigh
  <2> HIDE DEF c, ks
  <2>8. hi[c] <= hi[x]
    <3>1. CASE c = left
      <4>1. right \in S /\ hi[left] = lo[right] /\ hi[x] = hi[right]
        BY <1>1, <1>3, <2>7, <3>1 DEF Pending, End
      <4>2. lo[right] < hi[right]
        BY <1>3, <4>1 DEF InOrder
      <4> QED BY <1>3, <3>1, <4>1, <4>2
    <3>2. CASE c # left
      BY <1>3, <2>2, <2>7, <3>2 DEF End
    <3> QED BY <3>1, <3>2
  <2>9. ~(lower < hi[c])
    BY <1>2, <1>3, <2>2, <2>7, <2>8
  <2>10. c \in Bad
    BY <2>2, <2>7, <2>9
  <2>11. h[c] < h[x]
    BY <1>3, <2>2, <2>7
  <2> HIDE DEF Bad
  <2> QED BY <2>1, <2>10, <2>11
<1> QED BY <1>5

\* So the descent for the smallest key takes the first child everywhere on that edge.
LEMMA FirstChild ==
  ASSUME NEW h, NEW lo, NEW hi, NEW left, NEW right, NEW over, NEW short,
         Tree(node, root, h, lo, hi, left, right, over, short), LeavesHold(node),
         NEW lower, NotAbove(lower),
         NEW a \in DOMAIN node, lo[a] = lo[root], ~node[a].leaf
  PROVE  UpperBoundIndex(node[a].keys, lower) = 0
<1> DEFINE ks == node[a].keys
           c == node[a].children[1]
<1>1. /\ Heap(node) /\ Kinds(node, h) /\ Ordered(node, lo, hi) /\ Down(node, h, lo, hi, left, right)
      /\ Pending(node, root, h, lo, hi, left, right)
  BY DEF Tree
<1>2. lower \in Int
  BY KeysAssumption DEF NotAbove
<1>3. ks \in Seq(Int) /\ Ascending(ks) /\ Len(ks) \in Nat /\ \A i \in 1..Len(ks) : ks[i] \in Int
  BY <1>1, Fields DEF Ordered, InOrder, Ascending
<1>4. c \in DOMAIN node /\ lo[c] = lo[root] /\ End(hi, left, right, c) = ChildHigh(node, hi, a, 1)
  <2>1. Len(node[a].children) = Len(ks) + 1
    BY <1>1 DEF Kinds, KindOf
  <2>2. 1 \in 1..Len(node[a].children)
    BY <1>3, <2>1
  <2>3. Hangs(node, h, lo, hi, left, right, a, 1)
    BY <1>1, <2>2 DEF Down
  <2> QED BY <2>3 DEF Hangs, ChildLow
<1>5. lower < hi[c]
  BY <1>4, LeftEdge
<1> HIDE DEF c
<1>6. hi[c] <= End(hi, left, right, c) /\ hi[c] \in Int /\ End(hi, left, right, c) \in Int
  <2>1. \A x \in DOMAIN node : lo[x] \in Int /\ hi[x] \in Int /\ lo[x] < hi[x] /\ x # Null
    BY <1>1, Fields DEF Ordered, InOrder
  <2>2. c = left => right \in DOMAIN node /\ hi[c] = lo[right]
    BY <1>1, <1>4, <2>1 DEF Pending
  <2>3. CASE c = left
    BY <1>4, <2>1, <2>2, <2>3 DEF End
  <2>4. CASE c # left
    BY <1>4, <2>1, <2>4 DEF End
  <2> QED BY <2>3, <2>4
<1>7. /\ UpperBoundIndex(ks, lower) \in 0..Len(ks)
      /\ \A i \in 1..Len(ks) : ks[i] <= lower <=> i <= UpperBoundIndex(ks, lower)
  <2> HIDE DEF ks
  <2> QED BY <1>2, <1>3, UpperBoundIsExact
<1> DEFINE u == UpperBoundIndex(ks, lower)
<1>8. u # 0 => ks[1] <= lower /\ Len(ks) >= 1 /\ ks[1] \in Int
  <2> HIDE DEF u, ks
  <2> SUFFICES ASSUME u # 0 PROVE ks[1] <= lower /\ Len(ks) >= 1 /\ ks[1] \in Int
    OBVIOUS
  <2>1. u \in 0..Len(ks) /\ \A i \in 1..Len(ks) : ks[i] <= lower <=> i <= u
    BY <1>7 DEF u
  <2>2. 1 \in 1..Len(ks) /\ 1 <= u
    BY <1>3, <2>1
  <2> QED BY <1>3, <2>1, <2>2
<1>9. Len(ks) >= 1 => End(hi, left, right, c) = ks[1]
  BY <1>3, <1>4 DEF ChildHigh
<1> HIDE DEF u, ks
<1>10. u = 0
  BY <1>2, <1>3, <1>5, <1>6, <1>8, <1>9
<1> QED BY <1>10 DEF u, ks

\* It ends at the leftmost leaf.
LEMMA DescendsLeft ==
  ASSUME NEW h, NEW lo, NEW hi, NEW left, NEW right, NEW over, NEW short,
         Tree(node, root, h, lo, hi, left, right, over, short), LeavesHold(node), root # Null,
         NEW lower, NotAbove(lower)
  PROVE  FindLeaf(lower) \in DOMAIN node /\ node[FindLeaf(lower)].leaf /\ lo[FindLeaf(lower)] = lo[root]
<1> DEFINE S == DOMAIN node
           E == {a \in S : node[a].leaf}
           u(a) == UpperBoundIndex(node[a].keys, lower) + 1
           next == [a \in S \ E |-> node[a].children[u(a)]]
           out == [a \in S |-> a]
           Turn(f, a) == IF node[a].leaf THEN a ELSE f[node[a].children[u(a)]]
           f == CHOOSE f : f = [a \in S |-> Turn(f, a)]
           P == {a \in S : lo[a] = lo[root]}
<1>0. /\ Heap(node) /\ Kinds(node, h) /\ Ordered(node, lo, hi) /\ Down(node, h, lo, hi, left, right)
      /\ root \in S
  BY DEF Tree, Whole
<1>1. FindLeaf(lower) = f[root]
  BY DEF FindLeaf
<1>2. ASSUME NEW a \in S \ E
      PROVE  /\ u(a) \in 1..Len(node[a].children)
             /\ lo[a] = lo[root] => u(a) = 1
  <2>1. node[a].keys \in Seq(Int) /\ Ascending(node[a].keys)
    BY <1>0, Fields DEF Ordered, InOrder, Ascending
  <2>2. Len(node[a].children) = Len(node[a].keys) + 1 /\ Len(node[a].keys) \in Nat
    BY <1>0, Fields DEF Kinds, KindOf
  <2>3. lower \in Int
    BY KeysAssumption DEF NotAbove
  <2>4. UpperBoundIndex(node[a].keys, lower) \in 0..Len(node[a].keys)
    BY <2>1, <2>3, UpperBoundIsExact
  <2>5. lo[a] = lo[root] => UpperBoundIndex(node[a].keys, lower) = 0
    BY FirstChild
  <2> QED BY <2>2, <2>4, <2>5
<1>3. \A a \in S \ E : LET c == node[a].children[u(a)] IN
        c \in S /\ h[c] + 1 = h[a] /\ h[c] \in Nat /\ (lo[a] = lo[root] => lo[c] = lo[root])
  <2> TAKE a \in S \ E
  <2>1. Hangs(node, h, lo, hi, left, right, a, u(a))
    <3> HIDE DEF u
    <3> QED BY <1>0, <1>2 DEF Down
  <2>2. u(a) = 1 => ChildLow(node, lo, a, u(a)) = lo[a]
    BY DEF ChildLow
  <2>3. lo[a] = lo[root] => u(a) = 1
    BY <1>2
  <2> HIDE DEF u
  <2> QED BY <1>0, <2>1, <2>2, <2>3 DEF Hangs, Kinds
<1> HIDE DEF u
<1>4. E \in SUBSET S /\ next \in [S \ E -> S]
  BY <1>3
<1>5. \A a \in S : f[a] = IF a \in E THEN out[a] ELSE f[next[a]]
  <2>1. PICK g : Gives(S, E, next, out, g)
    <3> HIDE DEF S, E, next, out
    <3> QED BY <1>4, DescentGives
  <2>2. g = [a \in S |-> IF a \in E THEN out[a] ELSE g[next[a]]]
    BY <2>1 DEF Gives
  <2>3. \A d, a : a \in S => Turn(d, a) = IF a \in E THEN out[a] ELSE d[next[a]]
    OBVIOUS
  <2> HIDE DEF next, out, E, Turn
  <2>4. g = [a \in S |-> Turn(g, a)]
    BY <2>2, <2>3
  <2>5. f = [a \in S |-> Turn(f, a)]
    BY <2>4
  <2> HIDE DEF f
  <2> QED BY <2>3, <2>5
<1>6. Descends(S, E, next, out, f, h)
  <2>1. h \in [S -> Nat]
    BY <1>0 DEF Kinds
  <2>2. \A a \in S \ E : h[next[a]] < h[a]
    <3> TAKE a \in S \ E
    <3>1. next[a] \in S /\ h[next[a]] + 1 = h[a] /\ h[next[a]] \in Nat
      BY <1>3
    <3> QED BY <3>1
  <2> HIDE DEF S, E, next, out, f
  <2> QED BY <1>4, <1>5, <2>1, <2>2 DEF Descends
<1>7. \A a \in P \ E : next[a] \in P
  BY <1>3
<1>8. root \in P /\ P \in SUBSET S
  BY <1>0
<1>9. \E e \in P \cap E : f[root] = out[e]
  <2> HIDE DEF S, E, P, f, next, out
  <2> QED BY <1>6, <1>7, <1>8, DescentStays
<1> HIDE DEF f
<1> QED BY <1>1, <1>9

-----------------------------------------------------------------------------
(* A scan from the smallest key. *)

\* The place where the descent for the smallest key ends is the beginning of the chain.
LEMMA ScanArrives ==
  ASSUME NEW h, NEW lo, NEW hi, NEW left, NEW right, NEW over, NEW short,
         Tree(node, root, h, lo, hi, left, right, over, short), LeavesHold(node), root # Null,
         NEW lower, NotAbove(lower),
         NEW c, c = Coming(hi, End(hi, left, right, root), <<FindLeaf(lower), Slot(lower)>>)
  PROVE  /\ <<FindLeaf(lower), Slot(lower)>> \in Places /\ c \in Int /\ lower <= c
         /\ \A k \in Int : lower <= k /\ k < c => Held[k] = << >>
<1> DEFINE a == FindLeaf(lower)
           s == Slot(lower)
           ks == node[a].keys
           high == End(hi, left, right, root)
           low == lo[root]
           lists == Held
<1>1. a \in DOMAIN node /\ node[a].leaf /\ lo[a] = low
  BY DescendsLeft
<1>2. Heap(node) /\ Ordered(node, lo, hi)
  BY DEF Tree
<1>3. Chained(lo, hi, low, high) /\ Listed(lo, hi, low, high, lists) /\ ManyLists(lists)
  BY TreeIsChained, HeldIsListed, HeldLists
<1>4. lower \in Int /\ \A k \in Keys : k \in Int /\ lower <= k
  BY KeysAssumption DEF NotAbove
<1>5. c = Coming(hi, high, <<a, s>>) /\ s = LowerBoundIndex(ks, lower) + 1
  BY DEF Slot, Place
<1> HIDE DEF a, s, high, low, lists
<1>6. /\ ks \in Seq(Int) /\ Ascending(ks) /\ \A i \in 1..Len(ks) : ks[i] \in Keys
  BY <1>1, <1>2, Fields DEF Ordered, InOrder, Ascending
<1>7. Len(ks) \in Nat /\ Len(ks) >= 1 /\ a # Null
  BY <1>1, <1>2, LeafHasKey, Fields
<1> HIDE DEF ks
<1>8. /\ LowerBoundIndex(ks, lower) \in 0..Len(ks)
      /\ \A i \in 1..Len(ks) : ks[i] < lower <=> i <= LowerBoundIndex(ks, lower)
  BY <1>4, <1>6, LowerBoundIsExact
<1>9. s = 1 /\ 1 \in 1..Len(ks)
  <2> DEFINE l == LowerBoundIndex(ks, lower)
  <2>1. 1 \in 1..Len(ks) /\ ks[1] \in Keys
    BY <1>6, <1>7
  <2>2. ~(ks[1] < lower)
    BY <1>4, <2>1
  <2>3. l \in 0..Len(ks) /\ ~(1 <= l)
    BY <1>8, <2>1, <2>2
  <2>4. s = l + 1
    BY <1>5
  <2> HIDE DEF l
  <2>5. l = 0
    BY <1>7, <2>3
  <2> QED BY <2>1, <2>4, <2>5
<1>10. c = Coming(hi, high, <<a, 1>>)
  BY <1>5, <1>9
<1>11. c = ks[1]
  <2>1. ~(1 > Len(ks))
    BY <1>7
  <2> QED BY <1>7, <1>10, <2>1 DEF Coming, ks
<1>12. c \in Int /\ lower <= c
  BY <1>4, <1>6, <1>9, <1>11
<1>13. \A k \in Int : lo[a] <= k /\ k < c => lists[k] = << >>
  BY <1>1, <1>3, <1>10, LeafBegins
<1>14. \A k \in Int : k < low => lists[k] = << >>
  BY <1>3 DEF Listed
<1>15. low \in Int
  BY <1>3 DEF Chained
<1>16. \A k \in Int : lower <= k /\ k < c => lists[k] = << >>
  BY <1>1, <1>13, <1>14, <1>15
<1>17. <<a, s>> \in Places
  BY <1>1, <1>9, PlacesAre
<1> QED BY <1>12, <1>16, <1>17 DEF a, s, lists

\* What is on the stack after an exception is no call that could still be made.
LEMMA ThrewIsAlone ==
  ASSUME NEW lo, NEW left, NEW right, NEW over, NEW short, Stack(node, todo, lo, left, right, over, short),
         todo = <<Threw>>
  PROVE  FALSE
<1>1. todo # << >> /\ Head(todo).call = "Threw"
  BY DEF Threw
<1>2. ASSUME NEW c, NEW rest \in After, todo = <<c>> \o rest PROVE Head(todo) = c
  <2>1. Head(<<c>> \o rest) = c
    BY OnTop
  <2> QED BY <1>2, <2>1
<1>3. todo \notin After
  BY <1>1, Afterwards, SMTT(20)
<1>4. ~\E rest \in After : todo = <<IF node[over].leaf THEN SplitLeafOf(over) ELSE SplitInternalOf(over)>> \o rest
  <2> DEFINE c == IF node[over].leaf THEN SplitLeafOf(over) ELSE SplitInternalOf(over)
  <2>1. c.call # "Threw"
    BY CallNames
  <2> HIDE DEF c
  <2>2. ~\E rest \in After : todo = <<c>> \o rest
    BY <1>1, <1>2, <2>1
  <2> QED BY <2>2 DEF c
<1>5. ~\E rest \in After : todo = <<FixUnderflowOf(short)>> \o rest
  BY <1>1, <1>2, CallNames
<1>6. ~\E rest \in After : todo = <<ParentGains(left, lo[right], right)>> \o rest
  BY <1>1, <1>2, CallNames
<1> QED BY <1>3, <1>4, <1>5, <1>6 DEF Stack

\* A scan from the smallest key returns what the leaf chain holds, even after an exception.
LEMMA ScanExact == IInv => ScanIsExact
<1> SUFFICES ASSUME IInv, Idle \/ (todo = <<Threw>> /\ ~Torn), NEW lower \in Keys, NEW upper \in Keys,
                    \A k \in Keys : lower <= k
             PROVE  RangeSearch(lower, upper) =
                      Joined([k \in Int |-> IF k \in DOMAIN Postings THEN Postings[k] ELSE << >>],
                             lower, upper)
  BY DEF ScanIsExact
<1>1. NotAbove(lower) /\ lower \in Int /\ upper \in Int
  BY KeysAssumption DEF NotAbove
<1>2. PICK h, lo, hi, left, right, over, short :
         Tree(node, root, h, lo, hi, left, right, over, short) /\ LeavesHold(node)
  <2>1. PICK h, lo, hi, left, right, over, short :
           /\ Tree(node, root, h, lo, hi, left, right, over, short)
           /\ (todo = <<Threw>> /\ LeavesHold(node)) \/ Stack(node, todo, lo, left, right, over, short)
    BY DEF IInv
  <2>2. CASE todo = <<Threw>> /\ LeavesHold(node)
    BY <2>1, <2>2
  <2>3. CASE Stack(node, todo, lo, left, right, over, short) /\ Idle
    <3>1. todo \in After
      BY <2>3 DEF Idle, After
    <3>2. short = Null
      BY <2>3, <3>1, AtRest
    <3>3. \A a \in DOMAIN node : a # short
      BY <2>1, <3>2, Fields DEF Tree
    <3>4. LeavesHold(node)
      BY <2>1, <3>3, LeavesAreFull
    <3> QED BY <2>1, <3>4
  <2>4. CASE Stack(node, todo, lo, left, right, over, short) /\ todo = <<Threw>>
    BY <2>4, ThrewIsAlone
  <2> QED BY <2>1, <2>2, <2>3, <2>4
<1>3. [k \in Int |-> IF k \in DOMAIN Postings THEN Postings[k] ELSE << >>] = Held
  <2>1. Postings = MapOf(node) /\ DOMAIN MapOf(node) = KeysOf(node)
    BY ChainMatches DEF Shown, Matches, MapOf
  <2> QED BY <2>1 DEF Held
<1>4. RangeSearch(lower, upper) = Joined(Held, lower, upper)
  <2>1. CASE root = Null \/ upper < lower
    BY <1>1, <1>2, <2>1, NoRange
  <2>2. CASE root # Null /\ ~(upper < lower)
    <3> DEFINE c == Coming(hi, End(hi, left, right, root), <<FindLeaf(lower), Slot(lower)>>)
    <3>1. /\ <<FindLeaf(lower), Slot(lower)>> \in Places /\ c \in Int /\ lower <= c
          /\ \A k \in Int : lower <= k /\ k < c => Held[k] = << >>
      BY <1>1, <1>2, <2>2, ScanArrives
    <3>2. c = Coming(hi, End(hi, left, right, root), <<FindLeaf(lower), Slot(lower)>>) /\ lower <= upper
      BY <1>1, <2>2
    <3> HIDE DEF c
    <3> QED BY <1>1, <1>2, <2>2, <3>1, <3>2, RangeIsJoined
  <2> QED BY <2>1, <2>2
<1> QED BY <1>3, <1>4

\* Between two operations, and also after an exception in the middle of one that has not torn the
\* tree, a scan from the smallest key follows the chain through all of what the leaves hold, the
\* half of a split that no parent knows included.
THEOREM ScanAlwaysExact == Spec => []ScanIsExact
<1>1. InPieces => ScanIsExact
  BY PiecesAreThrown DEF InPieces, ScanIsExact
<1>2. TreeInv => ScanIsExact
  BY <1>1, ScanExact DEF TreeInv
<1> QED BY <1>2, TreeAlways, PTL
=============================================================================

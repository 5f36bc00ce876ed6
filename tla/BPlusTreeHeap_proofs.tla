------------------------ MODULE BPlusTreeHeap_proofs ------------------------
(***************************************************************************)
(* The B+ tree on the heap, for any order: the inductive invariant, what   *)
(* each kind of change to the nodes keeps of it, and the steps that        *)
(* insert, remove, split and give up the root.                             *)
(***************************************************************************)
EXTENDS BPlusTree, FiniteSetTheorems, SequenceTheorems, WellFoundedInduction, TLAPS

-----------------------------------------------------------------------------
(* Sequences: what the vector operations do to the elements. *)

\* The elements of a sequence into which one is inserted.
LEMMA InsertAtElements ==
  ASSUME NEW T, NEW s \in Seq(T), NEW i \in 1..Len(s) + 1, NEW e \in T
  PROVE  /\ InsertAt(s, i, e) \in Seq(T) /\ Len(InsertAt(s, i, e)) = Len(s) + 1
         /\ \A j \in 1..Len(s) + 1 :
              InsertAt(s, i, e)[j] = IF j < i THEN s[j] ELSE IF j = i THEN e ELSE s[j - 1]
<1> DEFINE front == SubSeq(s, 1, i - 1)
           back  == SubSeq(s, i, Len(s))
           mid   == front \o <<e>>
<1>1. front \in Seq(T) /\ Len(front) = i - 1 /\ \A j \in 1..i - 1 : front[j] = s[j]
  OBVIOUS
<1>2. back \in Seq(T) /\ Len(back) = Len(s) - i + 1 /\ \A j \in 1..Len(s) - i + 1 : back[j] = s[i + j - 1]
  OBVIOUS
<1>3. <<e>> \in Seq(T) /\ Len(<<e>>) = 1 /\ <<e>>[1] = e
  OBVIOUS
<1> HIDE DEF front, back
<1>4. mid \in Seq(T) /\ Len(mid) = i /\ \A j \in 1..i : mid[j] = IF j < i THEN s[j] ELSE e
  <2>1. mid \in Seq(T) /\ Len(mid) = i
    BY <1>1, <1>3, ConcatProperties
  <2>2. \A j \in 1..i : mid[j] = IF j <= i - 1 THEN front[j] ELSE <<e>>[j - (i - 1)]
    BY <1>1, <1>3, ConcatProperties
  <2>3. \A j \in 1..i : j > i - 1 => j - (i - 1) = 1
    OBVIOUS
  <2> QED BY <1>1, <1>3, <2>1, <2>2, <2>3
<1>5. InsertAt(s, i, e) = mid \o back
  BY DEF InsertAt, front, back
<1> HIDE DEF mid
<1>6. /\ mid \o back \in Seq(T) /\ Len(mid \o back) = Len(s) + 1
      /\ \A j \in 1..Len(s) + 1 : (mid \o back)[j] = IF j <= i THEN mid[j] ELSE back[j - i]
  <2>1. /\ mid \o back \in Seq(T) /\ Len(mid \o back) = Len(mid) + Len(back)
        /\ \A j \in 1..Len(mid) + Len(back) :
             (mid \o back)[j] = IF j <= Len(mid) THEN mid[j] ELSE back[j - Len(mid)]
    BY <1>2, <1>4, ConcatProperties
  <2>2. Len(mid) = i /\ Len(mid) + Len(back) = Len(s) + 1
    BY <1>2, <1>4
  <2> DEFINE w == mid \o back
  <2> HIDE DEF w
  <2>3. /\ w \in Seq(T) /\ Len(w) = Len(s) + 1
        /\ \A j \in 1..Len(s) + 1 : w[j] = IF j <= i THEN mid[j] ELSE back[j - i]
    BY <2>1, <2>2 DEF w
  <2> QED BY <2>3 DEF w
<1>7. \A j \in 1..Len(s) + 1 : j > i => back[j - i] = s[j - 1]
  <2> TAKE j \in 1..Len(s) + 1
  <2> SUFFICES ASSUME j > i PROVE back[j - i] = s[j - 1]
    OBVIOUS
  <2>1. j - i \in 1..Len(s) - i + 1 /\ i + (j - i) - 1 = j - 1
    OBVIOUS
  <2> QED BY <1>2, <2>1
<1>8. \A j \in 1..Len(s) + 1 :
        (mid \o back)[j] = IF j < i THEN s[j] ELSE IF j = i THEN e ELSE s[j - 1]
  <2> TAKE j \in 1..Len(s) + 1
  <2>1. (mid \o back)[j] = IF j <= i THEN mid[j] ELSE back[j - i]
    BY <1>6
  <2>2. j <= i => mid[j] = IF j < i THEN s[j] ELSE e
    BY <1>4
  <2>3. j > i => back[j - i] = s[j - 1]
    BY <1>7
  <2> DEFINE w == mid \o back
  <2> HIDE DEF w
  <2>4. w[j] = IF j < i THEN s[j] ELSE IF j = i THEN e ELSE s[j - 1]
    BY <2>1, <2>2, <2>3 DEF w
  <2> QED BY <2>4 DEF w
<1> QED BY <1>5, <1>6, <1>8

\* The elements of a sequence from which one is removed.
LEMMA RemoveAtElements ==
  ASSUME NEW T, NEW s \in Seq(T), NEW i \in 1..Len(s)
  PROVE  /\ RemoveAt(s, i) \in Seq(T) /\ Len(RemoveAt(s, i)) = Len(s) - 1
         /\ \A j \in 1..Len(s) - 1 : RemoveAt(s, i)[j] = IF j < i THEN s[j] ELSE s[j + 1]
<1> DEFINE front == SubSeq(s, 1, i - 1)
           back  == SubSeq(s, i + 1, Len(s))
<1>1. front \in Seq(T) /\ Len(front) = i - 1 /\ \A j \in 1..i - 1 : front[j] = s[j]
  OBVIOUS
<1>2. back \in Seq(T) /\ Len(back) = Len(s) - i /\ \A j \in 1..Len(s) - i : back[j] = s[i + j]
  OBVIOUS
<1>3. RemoveAt(s, i) = front \o back
  BY DEF RemoveAt
<1> HIDE DEF front, back
<1>4. /\ front \o back \in Seq(T) /\ Len(front \o back) = Len(s) - 1
      /\ \A j \in 1..Len(s) - 1 : (front \o back)[j] = IF j <= i - 1 THEN front[j] ELSE back[j - (i - 1)]
  <2>1. /\ front \o back \in Seq(T) /\ Len(front \o back) = Len(front) + Len(back)
        /\ \A j \in 1..Len(front) + Len(back) :
             (front \o back)[j] = IF j <= Len(front) THEN front[j] ELSE back[j - Len(front)]
    BY <1>1, <1>2, ConcatProperties
  <2>2. Len(front) = i - 1 /\ Len(front) + Len(back) = Len(s) - 1
    BY <1>1, <1>2
  <2> DEFINE w == front \o back
  <2> HIDE DEF w
  <2>3. /\ w \in Seq(T) /\ Len(w) = Len(s) - 1
        /\ \A j \in 1..Len(s) - 1 : w[j] = IF j <= i - 1 THEN front[j] ELSE back[j - (i - 1)]
    BY <2>1, <2>2 DEF w
  <2> QED BY <2>3 DEF w
<1>5. \A j \in 1..Len(s) - 1 : j > i - 1 => back[j - (i - 1)] = s[j + 1]
  <2> TAKE j \in 1..Len(s) - 1
  <2> SUFFICES ASSUME j > i - 1 PROVE back[j - (i - 1)] = s[j + 1]
    OBVIOUS
  <2>1. j - (i - 1) \in 1..Len(s) - i /\ i + (j - (i - 1)) = j + 1
    OBVIOUS
  <2> QED BY <1>2, <2>1
<1>6. \A j \in 1..Len(s) - 1 : (front \o back)[j] = IF j < i THEN s[j] ELSE s[j + 1]
  <2> TAKE j \in 1..Len(s) - 1
  <2>1. (front \o back)[j] = IF j <= i - 1 THEN front[j] ELSE back[j - (i - 1)]
    BY <1>4
  <2>2. j <= i - 1 => front[j] = s[j]
    BY <1>1
  <2>3. j > i - 1 => back[j - (i - 1)] = s[j + 1]
    BY <1>5
  <2> QED BY <2>1, <2>2, <2>3
<1> QED BY <1>3, <1>4, <1>6

\* The elements of the two parts of a sequence that is cut.
LEMMA CutElements ==
  ASSUME NEW T, NEW s \in Seq(T), NEW n \in 0..Len(s)
  PROVE  /\ SubSeq(s, 1, n) \in Seq(T) /\ Len(SubSeq(s, 1, n)) = n
         /\ \A i \in 1..n : SubSeq(s, 1, n)[i] = s[i]
         /\ Drop(s, n) \in Seq(T) /\ Len(Drop(s, n)) = Len(s) - n
         /\ \A i \in 1..Len(s) - n : Drop(s, n)[i] = s[n + i]
<1>1. /\ SubSeq(s, 1, n) \in Seq(T) /\ Len(SubSeq(s, 1, n)) = n
      /\ \A i \in 1..n : SubSeq(s, 1, n)[i] = s[i]
  OBVIOUS
<1>2. /\ Drop(s, n) \in Seq(T) /\ Len(Drop(s, n)) = Len(s) - n
      /\ \A i \in 1..Len(s) - n : Drop(s, n)[i] = s[n + i]
  BY DEF Drop
<1> QED BY <1>1, <1>2

\* The elements of a sequence without its first, or its last, and these two.
LEMMA EndsElements ==
  ASSUME NEW T, NEW s \in Seq(T), Len(s) > 0
  PROVE  /\ Front(s) \in Seq(T) /\ Len(Front(s)) = Len(s) - 1
         /\ \A i \in 1..Len(s) - 1 : Front(s)[i] = s[i]
         /\ Tail(s) \in Seq(T) /\ Len(Tail(s)) = Len(s) - 1
         /\ \A i \in 1..Len(s) - 1 : Tail(s)[i] = s[i + 1]
         /\ Head(s) = s[1] /\ Last(s) = s[Len(s)] /\ Head(s) \in T /\ Last(s) \in T
<1>1. /\ Front(s) \in Seq(T) /\ Len(Front(s)) = Len(s) - 1
      /\ \A i \in 1..Len(s) - 1 : Front(s)[i] = s[i]
  <2> DEFINE n == Len(s) - 1
  <2>1. n \in 0..Len(s)
    OBVIOUS
  <2> HIDE DEF n
  <2>2. /\ SubSeq(s, 1, n) \in Seq(T) /\ Len(SubSeq(s, 1, n)) = n
        /\ \A i \in 1..n : SubSeq(s, 1, n)[i] = s[i]
    BY <2>1, CutElements
  <2> QED BY <2>2 DEF Front, n
<1>2. /\ Tail(s) \in Seq(T) /\ Len(Tail(s)) = Len(s) - 1
      /\ \A i \in 1..Len(s) - 1 : Tail(s)[i] = s[i + 1]
  OBVIOUS
<1>3. Head(s) = s[1] /\ Last(s) = s[Len(s)] /\ s[1] \in T /\ s[Len(s)] \in T
  <2>1. 1 \in 1..Len(s) /\ Len(s) \in 1..Len(s)
    OBVIOUS
  <2>2. s[1] \in T /\ s[Len(s)] \in T
    BY <2>1, ElementOfSeq
  <2>3. Head(s) = s[1]
    OBVIOUS
  <2> QED BY <2>2, <2>3 DEF Last
<1> QED BY <1>1, <1>2, <1>3

\* The elements of two sequences one after the other.
LEMMA JoinElements ==
  ASSUME NEW T, NEW s \in Seq(T), NEW t \in Seq(T)
  PROVE  /\ s \o t \in Seq(T) /\ Len(s \o t) = Len(s) + Len(t)
         /\ \A i \in 1..Len(s) + Len(t) : (s \o t)[i] = IF i <= Len(s) THEN s[i] ELSE t[i - Len(s)]
BY ConcatProperties

\* The elements of a sequence with one put in front of it.
LEMMA ConsElements ==
  ASSUME NEW T, NEW s \in Seq(T), NEW e \in T
  PROVE  /\ <<e>> \o s \in Seq(T) /\ Len(<<e>> \o s) = Len(s) + 1
         /\ \A i \in 1..Len(s) + 1 : (<<e>> \o s)[i] = IF i = 1 THEN e ELSE s[i - 1]
<1>1. <<e>> \in Seq(T) /\ Len(<<e>>) = 1 /\ <<e>>[1] = e
  OBVIOUS
<1>2. /\ <<e>> \o s \in Seq(T) /\ Len(<<e>> \o s) = 1 + Len(s)
      /\ \A i \in 1..1 + Len(s) : (<<e>> \o s)[i] = IF i <= 1 THEN <<e>>[i] ELSE s[i - 1]
  BY <1>1, ConcatProperties
<1> QED BY <1>1, <1>2

\* The elements of a sequence with one put behind it.
LEMMA AppendElements ==
  ASSUME NEW T, NEW s \in Seq(T), NEW e \in T
  PROVE  /\ Append(s, e) \in Seq(T) /\ Len(Append(s, e)) = Len(s) + 1
         /\ \A i \in 1..Len(s) + 1 : Append(s, e)[i] = IF i = Len(s) + 1 THEN e ELSE s[i]
OBVIOUS

\* The elements of a sequence of which one is replaced.
LEMMA ReplaceElements ==
  ASSUME NEW T, NEW s \in Seq(T), NEW i \in 1..Len(s), NEW e \in T
  PROVE  /\ [s EXCEPT ![i] = e] \in Seq(T) /\ Len([s EXCEPT ![i] = e]) = Len(s)
         /\ \A j \in 1..Len(s) : [s EXCEPT ![i] = e][j] = IF j = i THEN e ELSE s[j]
OBVIOUS

-----------------------------------------------------------------------------
(* A descent: from a place to the next until the place is an end. *)

\* A set of natural numbers that is not empty has a least one.
LEMMA LeastNumber ==
  ASSUME NEW T, T \subseteq Nat, T # {}
  PROVE  \E i \in T : \A j \in T : i <= j
<1>1. PICK i \in T : \A j \in T : <<j, i>> \notin OpToRel(<, Nat)
  BY NatLessThanWellFounded, WFMin
<1>2. \A j \in T : i <= j
  <2> TAKE j \in T
  <2>1. <<j, i>> \in Nat \X Nat /\ i \in Nat /\ j \in Nat
    OBVIOUS
  <2>2. ~(<<j, i>>[1] < <<j, i>>[2])
    BY <1>1, <2>1, Zenon DEF OpToRel
  <2>3. ~(j < i)
    BY <2>2
  <2> QED BY <2>1, <2>3
<1> QED BY <1>2

\* Of the elements of a set that have a rank one has the least.
LEMMA LeastRank ==
  ASSUME NEW T, T # {}, NEW rank, \A x \in T : rank[x] \in Nat
  PROVE  \E x \in T : \A y \in T : ~(rank[y] < rank[x])
<1> DEFINE ranks == {rank[x] : x \in T}
<1>1. ranks \subseteq Nat /\ ranks # {}
  OBVIOUS
<1>2. PICK i \in ranks : \A j \in ranks : i <= j
  <2> HIDE DEF ranks
  <2> QED BY <1>1, LeastNumber
<1>3. PICK x \in T : rank[x] = i
  OBVIOUS
<1>4. \A y \in T : rank[y] \in ranks /\ rank[y] \in Nat
  OBVIOUS
<1> HIDE DEF ranks
<1>5. \A y \in T : rank[x] <= rank[y]
  BY <1>2, <1>3, <1>4
<1> QED BY <1>3, <1>4, <1>5

\* A descent is a function: the end of a place is the one that no set closed under the
\* next place can be without.
LEMMA DescentExists ==
  ASSUME NEW S, NEW E \in SUBSET S, NEW next \in [S \ E -> S]
  PROVE  \E f : f = [x \in S |-> IF x \in E THEN x ELSE f[next[x]]]
<1> DEFINE Closed(P) == \A y \in P \ E : next[y] \in P
           ends == [x \in S |-> {e \in E : \A P \in SUBSET S : Closed(P) /\ x \in P => e \in P}]
           f    == [x \in S |-> CHOOSE e : e \in ends[x]]
<1>1. ASSUME NEW x \in E PROVE f[x] = x
  <2>1. Closed({x}) /\ {x} \in SUBSET S /\ x \in S
    OBVIOUS
  <2>2. ends[x] = {x}
    BY <2>1
  <2> QED BY <2>1, <2>2
<1>2. ASSUME NEW x \in S \ E PROVE f[x] = f[next[x]]
  <2>1. next[x] \in S
    OBVIOUS
  <2>2. ASSUME NEW e \in ends[x] PROVE e \in ends[next[x]]
    <3>1. e \in E /\ \A P \in SUBSET S : Closed(P) /\ x \in P => e \in P
      BY <2>2
    <3>2. ASSUME NEW P \in SUBSET S, Closed(P), next[x] \in P PROVE e \in P
      <4>1. Closed(P \cup {x}) /\ P \cup {x} \in SUBSET S
        BY <3>2
      <4>2. e \in P \cup {x}
        BY <3>1, <4>1
      <4> QED BY <3>1, <4>2
    <3> QED BY <2>1, <3>1, <3>2
  <2>3. ASSUME NEW e \in ends[next[x]] PROVE e \in ends[x]
    <3>1. e \in E /\ \A P \in SUBSET S : Closed(P) /\ next[x] \in P => e \in P
      BY <2>1, <2>3
    <3>2. ASSUME NEW P \in SUBSET S, Closed(P), x \in P PROVE e \in P
      BY <3>1, <3>2
    <3> QED BY <3>1, <3>2
  <2>4. ends[x] = ends[next[x]]
    <3> HIDE DEF ends
    <3> QED BY <2>2, <2>3
  <2> HIDE DEF ends
  <2> QED BY <2>1, <2>4
<1>3. f = [x \in S |-> IF x \in E THEN x ELSE f[next[x]]]
  <2>1. \A x \in S : f[x] = IF x \in E THEN x ELSE f[next[x]]
    <3> HIDE DEF f
    <3> QED BY <1>1, <1>2
  <2>2. f = [x \in S |-> f[x]]
    OBVIOUS
  <2> HIDE DEF f
  <2> QED BY <2>1, <2>2
<1> QED BY <1>3
\* f follows next through S until an end in E and gives what out has there, and the
\* rank falls on the way.
Descends(S, E, next, out, f, rank) ==
  /\ E \in SUBSET S /\ next \in [S \ E -> S] /\ rank \in [S -> Nat]
  /\ \A x \in S : f[x] = IF x \in E THEN out[x] ELSE f[next[x]]
  /\ \A x \in S \ E : rank[next[x]] < rank[x]

\* f is the descent that gives, at every place, what out has at the end it leads to.
Gives(S, E, next, out, f) == f = [x \in S |-> IF x \in E THEN out[x] ELSE f[next[x]]]

\* A descent that gives something of the end it comes to is a function too.
LEMMA DescentGives ==
  ASSUME NEW S, NEW E, NEW next, NEW out,
         E \in SUBSET S, next \in [S \ E -> S]
  PROVE  \E f : Gives(S, E, next, out, f)
<1>1. PICK g : g = [x \in S |-> IF x \in E THEN x ELSE g[next[x]]]
  BY DescentExists
<1> DEFINE f == [x \in S |-> out[g[x]]]
<1>2. \A x \in S : f[x] = IF x \in E THEN out[x] ELSE f[next[x]]
  <2> TAKE x \in S
  <2>1. g[x] = IF x \in E THEN x ELSE g[next[x]]
    BY <1>1
  <2>2. x \notin E => next[x] \in S
    OBVIOUS
  <2> QED BY <2>1, <2>2
<1>3. f = [x \in S |-> f[x]]
  OBVIOUS
<1> HIDE DEF f
<1> QED BY <1>2, <1>3 DEF Gives

\* Such a descent ends, and ends within every closed set it begins in.
LEMMA DescentStays ==
  ASSUME NEW S, NEW E, NEW next, NEW out, NEW f, NEW rank, Descends(S, E, next, out, f, rank)
  PROVE  \A P \in SUBSET S : (\A x \in P \ E : next[x] \in P)
                                => \A start \in P : \E e \in P \cap E : f[start] = out[e]
<1>0. /\ E \in SUBSET S /\ next \in [S \ E -> S] /\ rank \in [S -> Nat]
      /\ \A x \in S : f[x] = IF x \in E THEN out[x] ELSE f[next[x]]
      /\ \A x \in S \ E : rank[next[x]] < rank[x]
  BY DEF Descends
<1> TAKE P \in SUBSET S
<1> HAVE \A x \in P \ E : next[x] \in P
<1> DEFINE bad == {x \in P : ~\E e \in P \cap E : f[x] = out[e]}
<1>1. SUFFICES ASSUME bad # {} PROVE FALSE
  OBVIOUS
<1>2. PICK x \in bad : \A y \in bad : ~(rank[y] < rank[x])
  <2>1. \A y \in bad : rank[y] \in Nat
    BY <1>0
  <2> HIDE DEF bad
  <2> QED BY <1>1, <2>1, LeastRank
<1>3. x \in S /\ f[x] = IF x \in E THEN out[x] ELSE f[next[x]]
  BY <1>0
<1>4. CASE x \in E
  BY <1>3, <1>4
<1>5. CASE x \notin E
  <2>1. next[x] \in P /\ rank[next[x]] < rank[x]
    BY <1>0, <1>3, <1>5
  <2>2. next[x] \notin bad
    BY <1>2, <2>1
  <2> QED BY <1>2, <1>3, <1>5, <2>1, <2>2
<1> QED BY <1>4, <1>5

-----------------------------------------------------------------------------
(* UpperBoundIndex and LowerBoundIndex return the bounds they are named for. *)

\* The states of a bisection of n elements, where it stops, and how it goes on when the
\* elements of U are those to the left of what it looks for.
Bounds(n)  == (0..n) \X (-1..n - 1)
\* The pairs of bounds at which the bisection ends.
Crossed(n) == {x \in Bounds(n) : x[1] > x[2]}
\* The key that the bisection looks at.
Mid(x)     == x[1] + (x[2] - x[1]) \div 2
\* The half that the bisection goes on with: U are the places of the keys that are on the
\* left of what is searched.
Halve(n, U) == [x \in Bounds(n) \ Crossed(n) |->
                  IF Mid(x) + 1 \in U THEN <<Mid(x) + 1, x[2]>> ELSE <<x[1], Mid(x) - 1>>]

\* A bisection is a function.
LEMMA HalveBounds ==
  ASSUME NEW n \in Nat, NEW U
  PROVE  /\ Crossed(n) \in SUBSET Bounds(n)
         /\ Halve(n, U) \in [Bounds(n) \ Crossed(n) -> Bounds(n)]
         /\ \A x \in Bounds(n) \ Crossed(n) :
               /\ x[1] \in 0..n /\ x[2] \in -1..n - 1 /\ x[1] <= x[2]
               /\ Mid(x) \in 0..n - 1 /\ x[1] <= Mid(x) /\ Mid(x) <= x[2]
<1>1. \A x \in Bounds(n) \ Crossed(n) :
               /\ x[1] \in 0..n /\ x[2] \in -1..n - 1 /\ x[1] <= x[2]
               /\ Mid(x) \in 0..n - 1 /\ x[1] <= Mid(x) /\ Mid(x) <= x[2]
  <2> TAKE x \in Bounds(n) \ Crossed(n)
  <2>1. x[1] \in 0..n /\ x[2] \in -1..n - 1 /\ x[1] <= x[2]
    BY DEF Bounds, Crossed
  <2>2. (x[2] - x[1]) \div 2 \in 0..x[2] - x[1]
    BY <2>1
  <2> QED BY <2>1, <2>2 DEF Mid
<1>2. \A x \in Bounds(n) \ Crossed(n) :
        (IF Mid(x) + 1 \in U THEN <<Mid(x) + 1, x[2]>> ELSE <<x[1], Mid(x) - 1>>) \in Bounds(n)
  BY <1>1 DEF Bounds
<1>3. Crossed(n) \in SUBSET Bounds(n)
  BY DEF Crossed
<1> QED BY <1>1, <1>2, <1>3 DEF Halve

\* f gives where a bisection ends.
Bisects(f, n, U) ==
  /\ \A i, j \in 1..n : i < j /\ j \in U => i \in U
  /\ \A x \in Bounds(n) : f[x] = IF x \in Crossed(n) THEN x[1] ELSE f[Halve(n, U)[x]]

\* When U has no gap a bisection finds how many elements there are in it.
LEMMA HalvingCounts ==
  ASSUME NEW n \in Nat, NEW U, NEW f, Bisects(f, n, U)
  PROVE  f[<<0, n - 1>>] \in 0..n /\ \A i \in 1..n : i \in U <=> i <= f[<<0, n - 1>>]
<1> DEFINE S == Bounds(n)
           E == Crossed(n)
           next == Halve(n, U)
           out == [x \in S |-> x[1]]
           rank == [x \in S |-> IF x \in E THEN 0 ELSE x[2] - x[1] + 1]
           P == {x \in S : /\ x[1] <= x[2] + 1
                           /\ \A i \in 1..n : /\ i <= x[1] => i \in U
                                              /\ i >= x[2] + 2 => i \notin U}
<1>a. \A i, j \in 1..n : i < j /\ j \in U => i \in U
  BY DEF Bisects
<1>1. \A x \in S \ E : /\ next[x] = IF Mid(x) + 1 \in U THEN <<Mid(x) + 1, x[2]>> ELSE <<x[1], Mid(x) - 1>>
                       /\ next[x] \in S
                       /\ x[1] \in 0..n /\ x[2] \in -1..n - 1 /\ x[1] <= x[2]
                       /\ Mid(x) \in 0..n - 1 /\ x[1] <= Mid(x) /\ Mid(x) <= x[2]
  BY HalveBounds DEF Halve
<1>b. \A x \in S \ E : /\ x[1] \in Int /\ x[2] \in Int /\ Mid(x) \in Int
                        /\ 0 <= x[1] /\ x[1] <= x[2] /\ x[2] <= n - 1
                        /\ x[1] <= Mid(x) /\ Mid(x) <= x[2]
  <2> TAKE x \in S \ E
  <2>1. /\ x[1] \in 0..n /\ x[2] \in -1..n - 1 /\ x[1] <= x[2]
        /\ Mid(x) \in 0..n - 1 /\ x[1] <= Mid(x) /\ Mid(x) <= x[2]
    BY HalveBounds
  <2> QED BY <2>1
<1>2. \A x \in S : x[1] \in 0..n /\ x[2] \in -1..n - 1 /\ (x \in E <=> x[1] > x[2])
  BY DEF Bounds, Crossed
<1>3. rank \in [S -> Nat]
  <2> SUFFICES ASSUME NEW x \in S PROVE (IF x \in E THEN 0 ELSE x[2] - x[1] + 1) \in Nat
    OBVIOUS
  <2> QED BY <1>2
<1>4. \A x \in S \ E : rank[next[x]] < rank[x]
  <2> TAKE x \in S \ E
  <2> DEFINE y == next[x]
  <2>1. y \in S /\ (y = <<Mid(x) + 1, x[2]>> \/ y = <<x[1], Mid(x) - 1>>)
    BY <1>1
  <2>2. y[2] - y[1] < x[2] - x[1]
    <3>1. /\ x[1] \in Int /\ x[2] \in Int /\ Mid(x) \in Int
          /\ x[1] <= Mid(x) /\ Mid(x) <= x[2]
      BY <1>b
    <3>2. \/ y[1] = Mid(x) + 1 /\ y[2] = x[2]
          \/ y[1] = x[1] /\ y[2] = Mid(x) - 1
      BY <2>1
    <3> HIDE DEF y
    <3> QED BY <3>1, <3>2
  <2>3. rank[x] = x[2] - x[1] + 1 /\ rank[x] > 0
    <3>1. rank[x] = x[2] - x[1] + 1
      OBVIOUS
    <3>2. x[1] \in Int /\ x[2] \in Int /\ x[1] <= x[2]
      BY <1>b
    <3> HIDE DEF rank
    <3> QED BY <3>1, <3>2
  <2>4. rank[y] = IF y \in E THEN 0 ELSE y[2] - y[1] + 1
    BY <2>1
  <2> HIDE DEF y, rank
  <2>5. x[1] \in Int /\ x[2] \in Int /\ y[1] \in Int /\ y[2] \in Int
    BY <1>2, <2>1
  <2> QED BY <2>2, <2>3, <2>4, <2>5 DEF y
<1>5. Descends(S, E, next, out, f, rank)
  <2>1. \A x \in S : f[x] = IF x \in E THEN out[x] ELSE f[next[x]]
    BY DEF Bisects
  <2>2. E \in SUBSET S /\ next \in [S \ E -> S]
    BY HalveBounds
  <2> HIDE DEF S, E, next, out, rank
  <2> QED BY <1>3, <1>4, <2>1, <2>2 DEF Descends
<1>6. \A x \in P \ E : next[x] \in P
  <2> TAKE x \in P \ E
  <2>0. x \in S \ E
    OBVIOUS
  <2>1. CASE Mid(x) + 1 \in U
    <3> DEFINE y == <<Mid(x) + 1, x[2]>>
    <3>1. next[x] = y /\ y \in S /\ y[1] = Mid(x) + 1 /\ y[2] = x[2]
      BY <1>1, <2>0, <2>1
    <3>2. y[1] <= y[2] + 1 /\ Mid(x) + 1 \in 1..n
      <4>1. /\ x[1] \in Int /\ x[2] \in Int /\ Mid(x) \in Int
            /\ 0 <= x[1] /\ x[1] <= Mid(x) /\ Mid(x) <= x[2] /\ x[2] <= n - 1
        BY <1>b, <2>0
      <4> HIDE DEF y
      <4> QED BY <3>1, <4>1
    <3>3. \A i \in 1..n : i <= y[1] => i \in U
      BY <1>a, <2>1, <3>1, <3>2
    <3>4. \A i \in 1..n : i >= y[2] + 2 => i \notin U
      BY <3>1
    <3> HIDE DEF y
    <3> QED BY <3>1, <3>2, <3>3, <3>4
  <2>2. CASE Mid(x) + 1 \notin U
    <3> DEFINE y == <<x[1], Mid(x) - 1>>
    <3>1. next[x] = y /\ y \in S /\ y[1] = x[1] /\ y[2] = Mid(x) - 1
      BY <1>1, <2>0, <2>2
    <3>2. y[1] <= y[2] + 1 /\ Mid(x) + 1 \in 1..n
      <4>1. /\ x[1] \in Int /\ x[2] \in Int /\ Mid(x) \in Int
            /\ 0 <= x[1] /\ x[1] <= Mid(x) /\ Mid(x) <= x[2] /\ x[2] <= n - 1
        BY <1>b, <2>0
      <4> HIDE DEF y
      <4> QED BY <3>1, <4>1
    <3>3. \A i \in 1..n : i >= y[2] + 2 => i \notin U
      <4> TAKE i \in 1..n
      <4>1. i >= y[2] + 2 => i = Mid(x) + 1 \/ Mid(x) + 1 < i
        <5>1. Mid(x) \in Int
          BY <1>b, <2>0
        <5> HIDE DEF y
        <5> QED BY <3>1, <5>1
      <4> QED BY <1>a, <2>2, <3>2, <4>1
    <3>4. \A i \in 1..n : i <= y[1] => i \in U
      BY <3>1
    <3> HIDE DEF y
    <3> QED BY <3>1, <3>2, <3>3, <3>4
  <2> QED BY <2>1, <2>2
<1>7. <<0, n - 1>> \in P
  <2>1. <<0, n - 1>> \in S
    BY DEF Bounds
  <2> QED BY <2>1
<1>8. \E e \in P \cap E : f[<<0, n - 1>>] = out[e]
  <2>1. P \in SUBSET S
    OBVIOUS
  <2> HIDE DEF P, S, E, next, out, rank
  <2> QED BY <1>5, <1>6, <1>7, <2>1, DescentStays
<1>9. PICK e \in P \cap E : f[<<0, n - 1>>] = out[e]
  BY <1>8
<1>10. /\ out[e] = e[1] /\ e[1] = e[2] + 1 /\ e[1] \in 0..n
       /\ \A i \in 1..n : i \in U <=> i <= e[1]
  BY <1>2
<1> HIDE DEF P, S, E, next, out, rank
<1> QED BY <1>9, <1>10

\* The keys rise.
Ascending(s) == \A i, j \in 1..Len(s) : i < j => s[i] < s[j]

\* What the bisection of FindLeaf returns: up to it the keys are not above key, and past
\* it they are.
THEOREM UpperBoundIsExact ==
  ASSUME NEW s \in Seq(Int), Ascending(s), NEW key \in Int
  PROVE  /\ UpperBoundIndex(s, key) \in 0..Len(s)
         /\ \A i \in 1..Len(s) : s[i] <= key <=> i <= UpperBoundIndex(s, key)
<1> DEFINE n == Len(s)
           S == (0..n) \X (-1..n - 1)
           U == {i \in 1..n : ~(key < s[i])}
           mid(x) == x[1] + (x[2] - x[1]) \div 2
           Turn(g, x) == IF x[1] > x[2] THEN x[1]
                         ELSE IF key < s[mid(x) + 1] THEN g[<<x[1], mid(x) - 1>>]
                         ELSE g[<<mid(x) + 1, x[2]>>]
           f == CHOOSE g : g = [x \in S |-> Turn(g, x)]
<1>1. UpperBoundIndex(s, key) = f[<<0, n - 1>>]
  BY DEF UpperBoundIndex
<1>2. n \in Nat /\ S = Bounds(n) /\ \A i \in 1..n : s[i] \in Int
  BY DEF Bounds
<1>3. ASSUME NEW g, NEW x \in S
      PROVE  Turn(g, x) = IF x \in Crossed(n) THEN x[1] ELSE g[Halve(n, U)[x]]
  <2>1. x \in Crossed(n) <=> x[1] > x[2]
    BY DEF Bounds, Crossed
  <2>2. CASE x[1] > x[2]
    BY <2>1, <2>2
  <2>3. CASE ~(x[1] > x[2])
    <3> DEFINE m == mid(x) + 1
    <3>1. x \in Bounds(n) \ Crossed(n) /\ mid(x) = Mid(x)
      BY <1>2, <2>1, <2>3 DEF Mid
    <3>2. m \in 1..n
      <4>1. Mid(x) \in 0..n - 1
        BY <1>2, <3>1, HalveBounds
      <4> QED BY <1>2, <3>1, <4>1
    <3>3. m \in U <=> ~(key < s[m])
      BY <3>2
    <3>6. /\ Mid(x) \in Int /\ x[2] \in Int /\ x[1] \in Int
      BY <1>2, <3>1, HalveBounds
    <3>4. Halve(n, U)[x] = IF Mid(x) + 1 \in U THEN <<Mid(x) + 1, x[2]>> ELSE <<x[1], Mid(x) - 1>>
      BY <3>1 DEF Halve
    <3>5. Turn(g, x) = IF key < s[m] THEN g[<<x[1], mid(x) - 1>>] ELSE g[<<m, x[2]>>]
      BY <2>3
    <3> HIDE DEF U, Turn, mid
    <3> QED BY <2>1, <2>3, <3>1, <3>3, <3>4, <3>5, <3>6
  <2> QED BY <2>2, <2>3
<1>4. \A x \in Bounds(n) : f[x] = IF x \in Crossed(n) THEN x[1] ELSE f[Halve(n, U)[x]]
  <2> DEFINE out == [x \in Bounds(n) |-> x[1]]
  <2>1. PICK g : g = [x \in Bounds(n) |-> IF x \in Crossed(n) THEN out[x] ELSE g[Halve(n, U)[x]]]
    <3>1. Crossed(n) \in SUBSET Bounds(n) /\ Halve(n, U) \in [Bounds(n) \ Crossed(n) -> Bounds(n)]
      BY <1>2, HalveBounds
    <3> DEFINE B == Bounds(n)
               E == Crossed(n)
               next == Halve(n, U)
    <3> HIDE DEF out, n, U, B, E, next
    <3>2. E \in SUBSET B /\ next \in [B \ E -> B]
      BY <3>1 DEF B, E, next
    <3>3. \E g : Gives(B, E, next, out, g)
      BY <3>2, DescentGives
    <3> QED BY <3>3 DEF B, E, next, Gives
  <2>2. \A x \in S : g[x] = Turn(g, x)
    <3> TAKE x \in S
    <3>1. g[x] = IF x \in Crossed(n) THEN x[1] ELSE g[Halve(n, U)[x]]
      BY <1>2, <2>1
    <3>2. Turn(g, x) = IF x \in Crossed(n) THEN x[1] ELSE g[Halve(n, U)[x]]
      BY <1>3
    <3> HIDE DEF Turn
    <3> QED BY <3>1, <3>2
  <2>3. g = [x \in S |-> g[x]]
    BY <1>2, <2>1
  <2>4. g = [x \in S |-> Turn(g, x)]
    <3> HIDE DEF Turn, S
    <3> QED BY <2>2, <2>3
  <2>5. f = [x \in S |-> Turn(f, x)]
    <3> HIDE DEF Turn, S
    <3> QED BY <2>4
  <2>6. \A x \in S : f[x] = Turn(f, x)
    <3> HIDE DEF f, Turn, S
    <3> QED BY <2>5
  <2> HIDE DEF f, Turn, S
  <2> QED BY <1>2, <1>3, <2>6
<1>5. \A i, j \in 1..n : i < j /\ j \in U => i \in U
  BY <1>2 DEF Ascending
<1>6. f[<<0, n - 1>>] \in 0..n /\ \A i \in 1..n : i \in U <=> i <= f[<<0, n - 1>>]
  <2>1. Bisects(f, n, U)
    <3> HIDE DEF f, U, n
    <3> QED BY <1>4, <1>5 DEF Bisects
  <2> HIDE DEF f, U, n
  <2> QED BY <1>2, <2>1, HalvingCounts
<1>7. \A i \in 1..n : i \in U <=> s[i] <= key
  BY <1>2
<1> HIDE DEF f, U
<1>8. \A i \in 1..n : s[i] <= key <=> i <= f[<<0, n - 1>>]
  BY <1>6, <1>7
<1> QED BY <1>1, <1>6, <1>8

\* The same of the bisection inside a leaf: up to it the keys are below key.
THEOREM LowerBoundIsExact ==
  ASSUME NEW s \in Seq(Int), Ascending(s), NEW key \in Int
  PROVE  /\ LowerBoundIndex(s, key) \in 0..Len(s)
         /\ \A i \in 1..Len(s) : s[i] < key <=> i <= LowerBoundIndex(s, key)
<1> DEFINE n == Len(s)
           S == (0..n) \X (-1..n - 1)
           U == {i \in 1..n : s[i] < key}
           mid(x) == x[1] + (x[2] - x[1]) \div 2
           Turn(g, x) == IF x[1] > x[2] THEN x[1]
                         ELSE IF s[mid(x) + 1] < key THEN g[<<mid(x) + 1, x[2]>>]
                         ELSE g[<<x[1], mid(x) - 1>>]
           f == CHOOSE g : g = [x \in S |-> Turn(g, x)]
<1>1. LowerBoundIndex(s, key) = f[<<0, n - 1>>]
  BY DEF LowerBoundIndex
<1>2. n \in Nat /\ S = Bounds(n) /\ \A i \in 1..n : s[i] \in Int
  BY DEF Bounds
<1>3. ASSUME NEW g, NEW x \in S
      PROVE  Turn(g, x) = IF x \in Crossed(n) THEN x[1] ELSE g[Halve(n, U)[x]]
  <2>1. x \in Crossed(n) <=> x[1] > x[2]
    BY DEF Bounds, Crossed
  <2>2. CASE x[1] > x[2]
    BY <2>1, <2>2
  <2>3. CASE ~(x[1] > x[2])
    <3> DEFINE m == mid(x) + 1
    <3>1. x \in Bounds(n) \ Crossed(n) /\ mid(x) = Mid(x)
      BY <1>2, <2>1, <2>3 DEF Mid
    <3>2. m \in 1..n
      <4>1. Mid(x) \in 0..n - 1
        BY <1>2, <3>1, HalveBounds
      <4> QED BY <1>2, <3>1, <4>1
    <3>3. m \in U <=> s[m] < key
      BY <3>2
    <3>6. /\ Mid(x) \in Int /\ x[2] \in Int /\ x[1] \in Int
      BY <1>2, <3>1, HalveBounds
    <3>4. Halve(n, U)[x] = IF Mid(x) + 1 \in U THEN <<Mid(x) + 1, x[2]>> ELSE <<x[1], Mid(x) - 1>>
      BY <3>1 DEF Halve
    <3>5. Turn(g, x) = IF s[m] < key THEN g[<<m, x[2]>>] ELSE g[<<x[1], mid(x) - 1>>]
      BY <2>3
    <3> HIDE DEF U, Turn, mid
    <3> QED BY <2>1, <2>3, <3>1, <3>3, <3>4, <3>5, <3>6
  <2> QED BY <2>2, <2>3
<1>4. \A x \in Bounds(n) : f[x] = IF x \in Crossed(n) THEN x[1] ELSE f[Halve(n, U)[x]]
  <2> DEFINE out == [x \in Bounds(n) |-> x[1]]
  <2>1. PICK g : g = [x \in Bounds(n) |-> IF x \in Crossed(n) THEN out[x] ELSE g[Halve(n, U)[x]]]
    <3>1. Crossed(n) \in SUBSET Bounds(n) /\ Halve(n, U) \in [Bounds(n) \ Crossed(n) -> Bounds(n)]
      BY <1>2, HalveBounds
    <3> DEFINE B == Bounds(n)
               E == Crossed(n)
               next == Halve(n, U)
    <3> HIDE DEF out, n, U, B, E, next
    <3>2. E \in SUBSET B /\ next \in [B \ E -> B]
      BY <3>1 DEF B, E, next
    <3>3. \E g : Gives(B, E, next, out, g)
      BY <3>2, DescentGives
    <3> QED BY <3>3 DEF B, E, next, Gives
  <2>2. \A x \in S : g[x] = Turn(g, x)
    <3> TAKE x \in S
    <3>1. g[x] = IF x \in Crossed(n) THEN x[1] ELSE g[Halve(n, U)[x]]
      BY <1>2, <2>1
    <3>2. Turn(g, x) = IF x \in Crossed(n) THEN x[1] ELSE g[Halve(n, U)[x]]
      BY <1>3
    <3> HIDE DEF Turn
    <3> QED BY <3>1, <3>2
  <2>3. g = [x \in S |-> g[x]]
    BY <1>2, <2>1
  <2>4. g = [x \in S |-> Turn(g, x)]
    <3> HIDE DEF Turn, S
    <3> QED BY <2>2, <2>3
  <2>5. f = [x \in S |-> Turn(f, x)]
    <3> HIDE DEF Turn, S
    <3> QED BY <2>4
  <2>6. \A x \in S : f[x] = Turn(f, x)
    <3> HIDE DEF f, Turn, S
    <3> QED BY <2>5
  <2> HIDE DEF f, Turn, S
  <2> QED BY <1>2, <1>3, <2>6
<1>5. \A i, j \in 1..n : i < j /\ j \in U => i \in U
  BY <1>2 DEF Ascending
<1>6. f[<<0, n - 1>>] \in 0..n /\ \A i \in 1..n : i \in U <=> i <= f[<<0, n - 1>>]
  <2>1. Bisects(f, n, U)
    <3> HIDE DEF f, U, n
    <3> QED BY <1>4, <1>5 DEF Bisects
  <2> HIDE DEF f, U, n
  <2> QED BY <1>2, <2>1, HalvingCounts
<1>7. \A i \in 1..n : i \in U <=> s[i] < key
  BY <1>2
<1> HIDE DEF f, U
<1>8. \A i \in 1..n : s[i] < key <=> i <= f[<<0, n - 1>>]
  BY <1>6, <1>7
<1> QED BY <1>1, <1>6, <1>8

-----------------------------------------------------------------------------
(* The inductive invariant. *)

\* The fields of a node, as the class definitions give them.
NodeFields ==
    [leaf : BOOLEAN, keys : Seq(Keys), values : Seq(Seq(Records)), children : Seq(Nat),
     parent : Nat, next : Nat, previous : Nat]

\* The nodes that are allocated: finitely many, none at the address Null.
Heap(heap) == /\ DOMAIN heap \in SUBSET (Nat \ {Null}) /\ IsFiniteSet(DOMAIN heap)
              /\ heap \in [DOMAIN heap -> NodeFields]

\* h is the height of every node: leaves have height 0.
KindOf(heap, h, a) ==
    /\ heap[a].leaf <=> h[a] = 0
    /\ heap[a].leaf => /\ heap[a].children = << >>
                       /\ Len(heap[a].values) = Len(heap[a].keys)
                       /\ \A i \in 1..Len(heap[a].keys) : heap[a].values[i] # << >>
    /\ ~heap[a].leaf => /\ Len(heap[a].children) = Len(heap[a].keys) + 1
                        /\ heap[a].values = << >>
                        /\ heap[a].next = Null /\ heap[a].previous = Null
\* Every node is of the kind its height says.
Kinds(heap, h) == h \in [DOMAIN heap -> Nat] /\ \A a \in DOMAIN heap : KindOf(heap, h, a)

\* The keys of a node rise within its interval, and no separator begins it.
InOrder(heap, lo, hi, a) ==
    /\ lo[a] < hi[a]
    /\ \A i, j \in 1..Len(heap[a].keys) : i < j => heap[a].keys[i] < heap[a].keys[j]
    /\ \A i \in 1..Len(heap[a].keys) : /\ lo[a] <= heap[a].keys[i]
                                       /\ heap[a].keys[i] < hi[a]
                                       /\ ~heap[a].leaf => lo[a] < heap[a].keys[i]
\* lo and hi are the ends of the interval of every node, and the keys of each are in order
\* within it.
Ordered(heap, lo, hi) ==
    /\ lo \in [DOMAIN heap -> Int] /\ hi \in [DOMAIN heap -> Int]
    /\ \A a \in DOMAIN heap : InOrder(heap, lo, hi, a)

\* Where the i-th child of a begins and ends.  A half that no parent knows yet is counted
\* with the half on its left.
ChildLow(heap, lo, a, i)  == IF i = 1 THEN lo[a] ELSE heap[a].keys[i - 1]
\* Where the interval of the i-th child of a ends.
ChildHigh(heap, hi, a, i) == IF i = Len(heap[a].keys) + 1 THEN hi[a] ELSE heap[a].keys[i]
\* Where the interval of c ends, the half that left has just given to right included.
End(hi, left, right, c) == IF c = left THEN hi[right] ELSE hi[c]

\* The i-th child of a: a is its parent, it is one lower, and its interval is the part of a's
\* between two separators.
Hangs(heap, h, lo, hi, left, right, a, i) ==
    LET c == heap[a].children[i] IN
    /\ c \in DOMAIN heap /\ heap[c].parent = a /\ h[c] + 1 = h[a]
    /\ lo[c] = ChildLow(heap, lo, a, i)
    /\ End(hi, left, right, c) = ChildHigh(heap, hi, a, i)
\* Every child hangs from its parent.
Down(heap, h, lo, hi, left, right) ==
    \A a \in DOMAIN heap : ~heap[a].leaf =>
        \A i \in 1..Len(heap[a].children) : Hangs(heap, h, lo, hi, left, right, a, i)

\* c is among the children of p.
IsChild(heap, p, c) == /\ p \in DOMAIN heap /\ ~heap[p].leaf
                       /\ \E i \in 1..Len(heap[p].children) : heap[p].children[i] = c
\* Every node is a child of the node it calls its parent; the root has none, and the half of a
\* split that its parent has yet to gain has none either.
Up(heap, top, right) ==
    \A c \in DOMAIN heap : IF c \in {top, right} THEN heap[c].parent = Null
                           ELSE IsChild(heap, heap[c].parent, c)

\* The intervals of two nodes of one height have no key in common.
Apart(heap, h, lo, hi) ==
    \A a, b \in DOMAIN heap : a # b /\ h[a] = h[b] => hi[a] <= lo[b] \/ hi[b] <= lo[a]

\* The root is the highest node, and its interval covers all the others.
Whole(heap, top, h, lo, hi, left, right) ==
    IF top = Null THEN DOMAIN heap = {}
    ELSE /\ top \in DOMAIN heap
         /\ \A a \in DOMAIN heap : /\ h[a] <= h[top]
                                   /\ lo[top] <= lo[a] /\ hi[a] <= End(hi, left, right, top)

\* The neighbours of a leaf in the chain: the interval of each begins where the one before it
\* ends, and they name each other.
Linked(heap, top, lo, hi, left, right, a) ==
    LET n == heap[a].next
        p == heap[a].previous IN
    /\ IF n = Null THEN hi[a] = End(hi, left, right, top)
       ELSE n \in DOMAIN heap /\ heap[n].leaf /\ lo[n] = hi[a] /\ heap[n].previous = a
    /\ IF p = Null THEN lo[a] = lo[top]
       ELSE p \in DOMAIN heap /\ heap[p].leaf /\ hi[p] = lo[a] /\ heap[p].next = a
\* Every leaf is linked to its neighbours.
Chain(heap, top, lo, hi, left, right) ==
    \A a \in DOMAIN heap : heap[a].leaf => Linked(heap, top, lo, hi, left, right, a)

\* The two halves of a split whose parent has yet to gain the right one, if there are such.
Pending(heap, top, h, lo, hi, left, right) ==
    \/ left = Null /\ right = Null
    \/ /\ left \in DOMAIN heap /\ right \in DOMAIN heap /\ left # right /\ right # top
       /\ h[left] = h[right] /\ hi[left] = lo[right]

\* The number of keys that a leaf, or an internal node, has at least below the root.
MinimumOf(leaf) == IF leaf THEN MinLeafKeys ELSE MinInternalKeys
\* The root may have as few as one key, but not when it has just been split.
FilledAt(heap, free, over, short, a) ==
    /\ IF a = over THEN Len(heap[a].keys) = MaxKeys + 1 ELSE Len(heap[a].keys) <= MaxKeys
    /\ LET least == IF a = free THEN 1 ELSE MinimumOf(heap[a].leaf)
       IN  Len(heap[a].keys) >= IF a = short THEN least - 1 ELSE least
\* over is the one node with a key too many, short the one with a key too few, if there are
\* such.
Filled(heap, free, over, short) ==
    /\ over \in {Null} \cup DOMAIN heap /\ short \in {Null} \cup DOMAIN heap
    /\ \A a \in DOMAIN heap : FilledAt(heap, free, over, short, a)

\* The nodes are a B+ tree with root top, but for the half, the key too many or the key too few
\* that a pending helper still has to deal with.
Tree(heap, top, h, lo, hi, left, right, over, short) ==
    /\ Heap(heap)
    /\ Kinds(heap, h)
    /\ Ordered(heap, lo, hi)
    /\ Down(heap, h, lo, hi, left, right)
    /\ Up(heap, top, right)
    /\ Apart(heap, h, lo, hi)
    /\ Whole(heap, top, h, lo, hi, left, right)
    /\ Chain(heap, top, lo, hi, left, right)
    /\ Pending(heap, top, h, lo, hi, left, right)
    /\ Filled(heap, IF left = top THEN Null ELSE top, over, short)

\* What the leaves hold.
Holds(heap, k, l) == \E a \in DOMAIN heap : heap[a].leaf /\ \E i \in 1..Len(heap[a].keys) :
                        heap[a].keys[i] = k /\ heap[a].values[i] = l
\* k is a key of a leaf.
Posted(heap, k) == \E a \in DOMAIN heap : heap[a].leaf /\ \E i \in 1..Len(heap[a].keys) :
                        heap[a].keys[i] = k
\* The keys that the leaves of a heap hold.
KeysOf(heap) == {k \in Keys : Posted(heap, k)}

\* What an operation may have left to do once the tree is at rest: the insertion of Update.
After == {<< >>} \cup {<<InsertLater(k, r)>> : k \in Keys, r \in Records}
\* The helper on top of the stack is the one that deals with what is wrong with the tree, and
\* below it there is at most the insertion of Update.
Stack(heap, calls, lo, left, right, over, short) ==
    \/ calls \in After /\ left = Null /\ right = Null /\ over = Null /\ short = Null
    \/ /\ left = Null /\ right = Null /\ over # Null /\ short = Null
       /\ \E rest \in After :
             calls = <<IF heap[over].leaf THEN SplitLeafOf(over) ELSE SplitInternalOf(over)>> \o rest
    \/ /\ left = Null /\ right = Null /\ over = Null /\ short # Null
       /\ \E rest \in After : calls = <<FixUnderflowOf(short)>> \o rest
    \/ /\ left # Null /\ right # Null /\ over = Null /\ short = Null
       /\ lo[right] \in Keys
       /\ \E rest \in After : calls = <<ParentGains(left, lo[right], right)>> \o rest

\* No leaf is empty.
LeavesHold(heap) == \A a \in DOMAIN heap : heap[a].leaf => Len(heap[a].keys) >= 1

\* The inductive invariant of BPlusTree while it is whole: the tree, the count of its keys, and
\* the stack of the helpers that have still to be called.  An exception that does not tear the
\* tree can leave a half that no parent knows, a key too many or one too few, but no empty leaf.
IInv == /\ size = Cardinality(KeysOf(node)) /\ IsFiniteSet(KeysOf(node))
        /\ \E h, lo, hi, left, right, over, short :
             /\ Tree(node, root, h, lo, hi, left, right, over, short)
             /\ (todo = <<Threw>> /\ LeavesHold(node)) \/ Stack(node, todo, lo, left, right, over, short)

-----------------------------------------------------------------------------
(* Searching: FindLeaf ends at the leaf whose interval has the key. *)

\* The tree with its witnesses, when no half of a split waits for its parent.
Resting(heap, top, h, lo, hi, over, short) == Tree(heap, top, h, lo, hi, Null, Null, over, short)

\* What the fields of a node are.
LEMMA Fields ==
  ASSUME NEW heap, Heap(heap), NEW a \in DOMAIN heap
  PROVE  /\ heap[a].leaf \in BOOLEAN
         /\ heap[a].keys \in Seq(Keys) /\ heap[a].keys \in Seq(Int) /\ Len(heap[a].keys) \in Nat
         /\ \A i \in 1..Len(heap[a].keys) : heap[a].keys[i] \in Keys /\ heap[a].keys[i] \in Int
         /\ heap[a].values \in Seq(Seq(Records)) /\ heap[a].children \in Seq(Nat)
         /\ heap[a].parent \in Nat /\ heap[a].next \in Nat /\ heap[a].previous \in Nat
         /\ a \in Nat \ {Null}
         /\ heap[a] \in NodeFields
<1>1. heap[a] \in NodeFields /\ a \in Nat \ {Null}
  BY DEF Heap
<1>2. Keys \subseteq Int
  BY KeysAssumption
<1>3. heap[a].keys \in Seq(Keys) /\ heap[a].keys \in Seq(Int)
  <2>1. heap[a].keys \in Seq(Keys)
    BY <1>1 DEF NodeFields
  <2> QED BY <1>2, <2>1, SeqMonotonic
<1>4. \A i \in 1..Len(heap[a].keys) : heap[a].keys[i] \in Keys /\ heap[a].keys[i] \in Int
  BY <1>3
<1>5. Len(heap[a].keys) \in Nat
  BY <1>3
<1> QED BY <1>1, <1>3, <1>4, <1>5 DEF NodeFields

\* Two nodes of one height that begin, or end, at the same key are the same.
LEMMA SameNode ==
  ASSUME NEW heap, NEW h, NEW lo, NEW hi, Ordered(heap, lo, hi), Apart(heap, h, lo, hi)
  PROVE  /\ \A a, b \in DOMAIN heap : h[a] = h[b] /\ lo[a] = lo[b] => a = b
         /\ \A a, b \in DOMAIN heap : h[a] = h[b] /\ hi[a] = hi[b] => a = b
         /\ \A a, b \in DOMAIN heap, k \in Int :
               h[a] = h[b] /\ lo[a] <= k /\ k < hi[a] /\ lo[b] <= k /\ k < hi[b] => a = b
<1>1. \A a \in DOMAIN heap : lo[a] \in Int /\ hi[a] \in Int /\ lo[a] < hi[a]
  BY DEF Ordered, InOrder
<1>2. \A a, b \in DOMAIN heap : h[a] = h[b] /\ a # b => hi[a] <= lo[b] \/ hi[b] <= lo[a]
  BY DEF Apart
<1> QED BY <1>1, <1>2

\* The search for a key comes to the leaf whose interval it is in.
LEMMA FindLeafFinds ==
  ASSUME NEW h, NEW lo, NEW hi, NEW over, NEW short,
         Resting(node, root, h, lo, hi, over, short), root # Null,
         NEW key \in Int, lo[root] <= key, key < hi[root]
  PROVE  /\ FindLeaf(key) \in DOMAIN node /\ node[FindLeaf(key)].leaf
         /\ lo[FindLeaf(key)] <= key /\ key < hi[FindLeaf(key)]
<1> DEFINE S == DOMAIN node
           E == {a \in S : node[a].leaf}
           u(a) == UpperBoundIndex(node[a].keys, key) + 1
           next == [a \in S \ E |-> node[a].children[u(a)]]
           out == [a \in S |-> a]
           Turn(f, a) == IF node[a].leaf THEN a ELSE f[node[a].children[u(a)]]
           f == CHOOSE f : f = [a \in S |-> Turn(f, a)]
           P == {a \in S : lo[a] <= key /\ key < hi[a]}
<1>0. /\ Heap(node) /\ Kinds(node, h) /\ Ordered(node, lo, hi) /\ Down(node, h, lo, hi, Null, Null)
      /\ root \in S
  BY DEF Resting, Tree, Whole
<1>1. FindLeaf(key) = f[root]
  BY DEF FindLeaf
<1>2. ASSUME NEW a \in S \ E
      PROVE  /\ u(a) \in 1..Len(node[a].children) /\ u(a) \in 1..Len(node[a].keys) + 1
             /\ \A i \in 1..Len(node[a].keys) : node[a].keys[i] <= key <=> i < u(a)
  <2>1. node[a].keys \in Seq(Int) /\ Ascending(node[a].keys)
    BY <1>0, Fields DEF Ordered, InOrder, Ascending
  <2>2. Len(node[a].children) = Len(node[a].keys) + 1
    BY <1>0 DEF Kinds, KindOf
  <2>3. /\ UpperBoundIndex(node[a].keys, key) \in 0..Len(node[a].keys)
        /\ \A i \in 1..Len(node[a].keys) :
              node[a].keys[i] <= key <=> i <= UpperBoundIndex(node[a].keys, key)
    BY <2>1, UpperBoundIsExact
  <2>4. Len(node[a].keys) \in Nat
    BY <2>1
  <2> QED BY <2>2, <2>3, <2>4
<1>3. \A a \in S \ E : LET c == node[a].children[u(a)] IN
        /\ c \in S /\ h[c] + 1 = h[a] /\ h[c] \in Nat
        /\ lo[c] = ChildLow(node, lo, a, u(a)) /\ hi[c] = ChildHigh(node, hi, a, u(a))
  <2> TAKE a \in S \ E
  <2> DEFINE c == node[a].children[u(a)]
  <2>1. /\ c \in S /\ h[c] + 1 = h[a]
        /\ lo[c] = ChildLow(node, lo, a, u(a))
        /\ End(hi, Null, Null, c) = ChildHigh(node, hi, a, u(a))
    <3> HIDE DEF u
    <3> QED BY <1>0, <1>2 DEF Down, Hangs
  <2> HIDE DEF c
  <2>2. c # Null /\ h[c] \in Nat
    BY <1>0, <2>1, Fields DEF Kinds, KindOf
  <2> QED BY <2>1, <2>2 DEF End, c
<1> HIDE DEF u
<1>4. E \in SUBSET S /\ next \in [S \ E -> S]
  BY <1>3
<1>5. \A a \in S : f[a] = IF a \in E THEN out[a] ELSE f[next[a]]
  <2>1. PICK g : Gives(S, E, next, out, g)
    <3> HIDE DEF S, E, next, out
    <3> QED BY <1>4, DescentGives
  <2>2. g = [a \in S |-> IF a \in E THEN out[a] ELSE g[next[a]]]
    BY <2>1 DEF Gives
  <2>3. \A d, a : a \in S => Turn(d, a) = IF a \in E THEN out[a] ELSE d[next[a]]
    OBVIOUS
  <2> HIDE DEF next, out, E, Turn
  <2>4. g = [a \in S |-> Turn(g, a)]
    BY <2>2, <2>3
  <2>5. f = [a \in S |-> Turn(f, a)]
    BY <2>4
  <2> HIDE DEF f
  <2> QED BY <2>3, <2>5
<1>6. Descends(S, E, next, out, f, h)
  <2>1. h \in [S -> Nat]
    BY <1>0 DEF Kinds, KindOf
  <2>2. \A a \in S \ E : h[next[a]] < h[a]
    <3> TAKE a \in S \ E
    <3>1. /\ next[a] \in S /\ h[next[a]] + 1 = h[a] /\ h[next[a]] \in Nat
      BY <1>3
    <3> QED BY <3>1
  <2> HIDE DEF S, E, next, out, f
  <2> QED BY <1>4, <1>5, <2>1, <2>2 DEF Descends
<1>7. \A a \in P \ E : next[a] \in P
  <2> TAKE a \in P \ E
  <2>1. lo[a] <= key /\ key < hi[a] /\ a \in S \ E
    OBVIOUS
  <2>2. ChildLow(node, lo, a, u(a)) <= key
    <3>1. CASE u(a) = 1
      BY <2>1, <3>1 DEF ChildLow
    <3>2. CASE u(a) # 1
      <4>1. u(a) - 1 \in 1..Len(node[a].keys) /\ u(a) - 1 < u(a)
        BY <1>2, <2>1, <3>2
      <4> QED BY <1>2, <2>1, <3>2, <4>1 DEF ChildLow
    <3> QED BY <3>1, <3>2
  <2>3. key < ChildHigh(node, hi, a, u(a))
    <3>1. CASE u(a) = Len(node[a].keys) + 1
      BY <2>1, <3>1 DEF ChildHigh
    <3>2. CASE u(a) # Len(node[a].keys) + 1
      <4>0. Len(node[a].keys) \in Nat
        BY <1>0, <2>1, Fields
      <4>1. u(a) \in 1..Len(node[a].keys) /\ ~(u(a) < u(a))
        BY <1>2, <2>1, <3>2, <4>0
      <4>2. node[a].keys[u(a)] \in Int
        BY <1>0, <2>1, <4>1, Fields
      <4> QED BY <1>2, <2>1, <3>2, <4>1, <4>2 DEF ChildHigh
    <3> QED BY <3>1, <3>2
  <2>4. /\ next[a] \in S /\ lo[next[a]] = ChildLow(node, lo, a, u(a))
        /\ hi[next[a]] = ChildHigh(node, hi, a, u(a))
    BY <1>3, <2>1
  <2> QED BY <2>2, <2>3, <2>4
<1>8. root \in P /\ P \in SUBSET S
  BY <1>0
<1>9. \E e \in P \cap E : f[root] = out[e]
  <2> HIDE DEF S, E, P, f, next, out
  <2> QED BY <1>6, <1>7, <1>8, DescentStays
<1> HIDE DEF f
<1> QED BY <1>1, <1>9

\* Where the leaf that the search comes to holds the key, or would hold it; and a key is in
\* that leaf or nowhere.
LEMMA SlotFinds ==
  ASSUME NEW h, NEW lo, NEW hi, NEW over, NEW short,
         Resting(node, root, h, lo, hi, over, short), root # Null,
         NEW key \in Int, lo[root] <= key, key < hi[root]
  PROVE  LET leaf == FindLeaf(key)
             s    == node[leaf].keys
         IN  /\ Slot(key) \in 1..Len(s) + 1
             /\ \A i \in 1..Len(s) : s[i] < key <=> i < Slot(key)
             /\ ContainsKey(key) <=> Slot(key) \in 1..Len(s) /\ s[Slot(key)] = key
             /\ ContainsKey(key) <=> Posted(node, key)
             /\ Search(key) = IF ContainsKey(key) THEN node[leaf].values[Slot(key)] ELSE << >>
             /\ \A i \in 1..Len(s) : s[i] = key => i = Slot(key)
<1> DEFINE leaf == FindLeaf(key)
           s == node[leaf].keys
           at == Slot(key)
<1>1. /\ Heap(node) /\ Kinds(node, h) /\ Ordered(node, lo, hi) /\ Apart(node, h, lo, hi)
  BY DEF Resting, Tree
<1>2. leaf \in DOMAIN node /\ node[leaf].leaf /\ lo[leaf] <= key /\ key < hi[leaf]
  BY FindLeafFinds
<1>3. leaf # Null /\ s \in Seq(Int) /\ Len(s) \in Nat /\ \A i \in 1..Len(s) : s[i] \in Int
  BY <1>1, <1>2, Fields
<1> HIDE DEF leaf
<1>4. \A i, j \in 1..Len(s) : i < j => s[i] < s[j]
  BY <1>1, <1>2 DEF Ordered, InOrder
<1>5. at = LowerBoundIndex(s, key) + 1
  BY DEF Slot, Place, leaf
<1>6. at \in 1..Len(s) + 1 /\ \A i \in 1..Len(s) : s[i] < key <=> i < at
  <2>1. Ascending(s)
    BY <1>4 DEF Ascending
  <2> HIDE DEF s
  <2>2. /\ LowerBoundIndex(s, key) \in 0..Len(s)
        /\ \A i \in 1..Len(s) : s[i] < key <=> i <= LowerBoundIndex(s, key)
    BY <1>3, <2>1, LowerBoundIsExact
  <2> HIDE DEF at
  <2> QED BY <1>3, <1>5, <2>2
<1>7. ContainsKey(key) <=> at <= Len(s) /\ ~(key < s[at])
  BY <1>3 DEF ContainsKey, Slot, leaf
<1>8. Search(key) = IF at > Len(s) \/ key < s[at] THEN << >> ELSE node[leaf].values[at]
  BY <1>3 DEF Search, Slot, leaf
<1> HIDE DEF at, s
<1>9. ContainsKey(key) <=> at \in 1..Len(s) /\ s[at] = key
  <2>1. CASE at \in 1..Len(s)
    <3>1. ~(s[at] < key) /\ s[at] \in Int
      BY <1>3, <1>6, <2>1
    <3> QED BY <1>3, <1>7, <2>1, <3>1
  <2>2. CASE at \notin 1..Len(s)
    <3>1. ~(at <= Len(s))
      BY <1>3, <1>6, <2>2
    <3> QED BY <1>7, <2>2, <3>1
  <2> QED BY <2>1, <2>2
<1>10. \A i \in 1..Len(s) : s[i] = key => i = at
  <2> SUFFICES ASSUME NEW i \in 1..Len(s), s[i] = key PROVE i = at
    OBVIOUS
  <2>1. ~(s[i] < key)
    BY <1>3
  <2>2. ~(i < at)
    BY <1>6, <2>1
  <2>3. at < i => s[at] < s[i] /\ ~(s[at] < key)
    <3>1. at < i => at \in 1..Len(s)
      BY <1>3, <1>6
    <3> QED BY <1>3, <1>4, <1>6, <3>1
  <2> QED BY <1>3, <1>6, <2>2, <2>3
<1>11. Posted(node, key) => \E i \in 1..Len(s) : s[i] = key
  <2> SUFFICES ASSUME NEW b \in DOMAIN node, node[b].leaf,
                      NEW i \in 1..Len(node[b].keys), node[b].keys[i] = key
               PROVE  \E j \in 1..Len(s) : s[j] = key
    BY DEF Posted
  <2>1. lo[b] <= node[b].keys[i] /\ node[b].keys[i] < hi[b]
    BY <1>1 DEF Ordered, InOrder
  <2>2. h[b] = h[leaf]
    BY <1>1, <1>2 DEF Kinds, KindOf
  <2>3. b = leaf
    BY <1>1, <1>2, <2>1, <2>2, SameNode
  <2> QED BY <2>3 DEF s
<1>12. ContainsKey(key) => Posted(node, key)
  BY <1>2, <1>9 DEF Posted, s
<1>13. ContainsKey(key) <=> Posted(node, key)
  BY <1>9, <1>10, <1>11, <1>12
<1>14. Search(key) = IF ContainsKey(key) THEN node[leaf].values[at] ELSE << >>
  BY <1>3, <1>6, <1>7, <1>8
<1> QED BY <1>6, <1>9, <1>10, <1>13, <1>14 DEF s, at, leaf

-----------------------------------------------------------------------------
(* The ends of the intervals that no key fixes. *)

\* What the first and the last interval of each level end at is not fixed by any key: it
\* can be moved past whatever key is about to come.
LEMMA Widen ==
  ASSUME NEW heap, NEW top, NEW h, NEW lo, NEW hi, NEW over, NEW short,
         Resting(heap, top, h, lo, hi, over, short), top # Null, NEW k \in Int
  PROVE  \E lo2, hi2 : /\ Resting(heap, top, h, lo2, hi2, over, short)
                       /\ lo2[top] <= k /\ k < hi2[top]
<1> DEFINE S == DOMAIN heap
           least == IF k < lo[top] THEN k ELSE lo[top]
           most  == IF hi[top] < k + 1 THEN k + 1 ELSE hi[top]
           lo2 == [a \in S |-> IF lo[a] = lo[top] THEN least ELSE lo[a]]
           hi2 == [a \in S |-> IF hi[a] = hi[top] THEN most ELSE hi[a]]
<1>1. /\ Heap(heap) /\ Kinds(heap, h) /\ Ordered(heap, lo, hi)
      /\ Down(heap, h, lo, hi, Null, Null) /\ Up(heap, top, Null) /\ Apart(heap, h, lo, hi)
      /\ Whole(heap, top, h, lo, hi, Null, Null) /\ Chain(heap, top, lo, hi, Null, Null)
      /\ Filled(heap, top, over, short)
  BY DEF Resting, Tree
<1>2. \A a \in S : a # Null /\ End(hi, Null, Null, a) = hi[a] /\ End(hi2, Null, Null, a) = hi2[a]
  <2>1. \A a \in S : a # Null
    BY <1>1, Fields
  <2> QED BY <2>1 DEF End
<1>3. /\ top \in S
      /\ \A a \in S : /\ lo[a] \in Int /\ hi[a] \in Int /\ lo[a] < hi[a] /\ h[a] <= h[top]
                      /\ lo[top] <= lo[a] /\ hi[a] <= hi[top]
  BY <1>1, <1>2 DEF Ordered, InOrder, Whole
<1>4. /\ least \in Int /\ most \in Int /\ least <= lo[top] /\ hi[top] <= most
      /\ least <= k /\ k < most
  BY <1>3
<1>5. \A a \in S : /\ lo2[a] \in Int /\ hi2[a] \in Int /\ lo2[a] <= lo[a] /\ hi[a] <= hi2[a]
                   /\ lo[a] = lo[top] => lo2[a] = least
                   /\ lo[a] # lo[top] => lo2[a] = lo[a]
                   /\ hi[a] = hi[top] => hi2[a] = most
                   /\ hi[a] # hi[top] => hi2[a] = hi[a]
  <2> HIDE DEF least, most
  <2> QED BY <1>3, <1>4
<1>6. lo2 \in [S -> Int] /\ hi2 \in [S -> Int]
  <2> HIDE DEF least, most
  <2> QED BY <1>3, <1>4
<1> HIDE DEF lo2, hi2, least, most
<1>7. Ordered(heap, lo2, hi2)
  <2> SUFFICES ASSUME NEW a \in S
               PROVE  /\ lo2[a] < hi2[a]
                      /\ \A i, j \in 1..Len(heap[a].keys) : i < j => heap[a].keys[i] < heap[a].keys[j]
                      /\ \A i \in 1..Len(heap[a].keys) :
                            /\ lo2[a] <= heap[a].keys[i]
                            /\ heap[a].keys[i] < hi2[a]
                            /\ ~heap[a].leaf => lo2[a] < heap[a].keys[i]
    BY <1>6 DEF Ordered, InOrder
  <2>1. lo2[a] < hi2[a]
    BY <1>3, <1>5
  <2>2. \A i, j \in 1..Len(heap[a].keys) : i < j => heap[a].keys[i] < heap[a].keys[j]
    BY <1>1 DEF Ordered, InOrder
  <2>3. ASSUME NEW i \in 1..Len(heap[a].keys)
        PROVE  /\ lo2[a] <= heap[a].keys[i]
               /\ heap[a].keys[i] < hi2[a]
               /\ ~heap[a].leaf => lo2[a] < heap[a].keys[i]
    <3>1. /\ lo[a] <= heap[a].keys[i]
          /\ heap[a].keys[i] < hi[a]
          /\ ~heap[a].leaf => lo[a] < heap[a].keys[i]
      BY <1>1 DEF Ordered, InOrder
    <3>2. heap[a].keys[i] \in Int
      BY <1>1, Fields
    <3> QED BY <1>3, <1>5, <3>1, <3>2
  <2> QED BY <2>1, <2>2, <2>3
<1>8. Down(heap, h, lo2, hi2, Null, Null)
  <2> SUFFICES ASSUME NEW a \in S, ~heap[a].leaf, NEW i \in 1..Len(heap[a].children)
               PROVE  LET c == heap[a].children[i] IN
                      /\ c \in S /\ heap[c].parent = a /\ h[c] + 1 = h[a]
                      /\ lo2[c] = ChildLow(heap, lo2, a, i)
                      /\ End(hi2, Null, Null, c) = ChildHigh(heap, hi2, a, i)
    BY DEF Down, Hangs
  <2> DEFINE c == heap[a].children[i]
  <2>1. /\ c \in S /\ heap[c].parent = a /\ h[c] + 1 = h[a]
        /\ lo[c] = ChildLow(heap, lo, a, i)
        /\ End(hi, Null, Null, c) = ChildHigh(heap, hi, a, i)
    BY <1>1 DEF Down, Hangs
  <2>2. Len(heap[a].children) = Len(heap[a].keys) + 1 /\ Len(heap[a].keys) \in Nat
    BY <1>1, Fields DEF Kinds, KindOf
  <2> HIDE DEF c
  <2>3. lo2[c] = ChildLow(heap, lo2, a, i)
    <3>1. CASE i = 1
      BY <1>5, <2>1, <3>1 DEF ChildLow
    <3>2. CASE i # 1
      <4>1. i - 1 \in 1..Len(heap[a].keys)
        BY <2>2, <3>2
      <4>2. lo[a] < heap[a].keys[i - 1] /\ heap[a].keys[i - 1] \in Int
        BY <1>1, <4>1, Fields DEF Ordered, InOrder
      <4>3. lo[c] = heap[a].keys[i - 1]
        BY <2>1, <3>2 DEF ChildLow
      <4> QED BY <1>3, <1>5, <2>1, <3>2, <4>2, <4>3 DEF ChildLow
    <3> QED BY <3>1, <3>2
  <2>4. End(hi2, Null, Null, c) = ChildHigh(heap, hi2, a, i)
    <3>1. CASE i = Len(heap[a].keys) + 1
      BY <1>2, <1>5, <2>1, <3>1 DEF ChildHigh
    <3>2. CASE i # Len(heap[a].keys) + 1
      <4>1. i \in 1..Len(heap[a].keys)
        BY <2>2, <3>2
      <4>2. heap[a].keys[i] < hi[a] /\ heap[a].keys[i] \in Int
        BY <1>1, <4>1, Fields DEF Ordered, InOrder
      <4>3. hi[c] = heap[a].keys[i]
        BY <1>2, <2>1, <3>2 DEF ChildHigh
      <4> QED BY <1>2, <1>3, <1>5, <2>1, <3>2, <4>2, <4>3 DEF ChildHigh
    <3> QED BY <3>1, <3>2
  <2> QED BY <2>1, <2>3, <2>4 DEF c
<1>9. Apart(heap, h, lo2, hi2)
  <2> SUFFICES ASSUME NEW a \in S, NEW b \in S, a # b, h[a] = h[b]
               PROVE  hi2[a] <= lo2[b] \/ hi2[b] <= lo2[a]
    BY DEF Apart
  <2>1. hi[a] <= lo[b] \/ hi[b] <= lo[a]
    BY <1>1 DEF Apart
  <2>2. /\ lo[a] \in Int /\ hi[a] \in Int /\ lo[a] < hi[a] /\ lo[top] <= lo[a] /\ hi[a] <= hi[top]
        /\ lo[b] \in Int /\ hi[b] \in Int /\ lo[b] < hi[b] /\ lo[top] <= lo[b] /\ hi[b] <= hi[top]
        /\ lo[top] \in Int /\ hi[top] \in Int
    BY <1>3
  <2> QED BY <1>5, <2>1, <2>2
<1>10. Whole(heap, top, h, lo2, hi2, Null, Null)
  <2>1. lo2[top] = least /\ hi2[top] = most
    BY <1>3, <1>5
  <2>2. \A a \in S : least <= lo2[a] /\ hi2[a] <= most
    BY <1>3, <1>4, <1>5
  <2> QED BY <1>2, <1>3, <2>1, <2>2 DEF Whole
<1>11. Chain(heap, top, lo2, hi2, Null, Null)
  <2> SUFFICES ASSUME NEW a \in S, heap[a].leaf
               PROVE  LET n == heap[a].next
                          p == heap[a].previous IN
                      /\ IF n = Null THEN hi2[a] = End(hi2, Null, Null, top)
                         ELSE n \in S /\ heap[n].leaf /\ lo2[n] = hi2[a] /\ heap[n].previous = a
                      /\ IF p = Null THEN lo2[a] = lo2[top]
                         ELSE p \in S /\ heap[p].leaf /\ hi2[p] = lo2[a] /\ heap[p].next = a
    BY DEF Chain, Linked
  <2> DEFINE n == heap[a].next
             p == heap[a].previous
  <2>1. /\ IF n = Null THEN hi[a] = End(hi, Null, Null, top)
           ELSE n \in S /\ heap[n].leaf /\ lo[n] = hi[a] /\ heap[n].previous = a
        /\ IF p = Null THEN lo[a] = lo[top]
           ELSE p \in S /\ heap[p].leaf /\ hi[p] = lo[a] /\ heap[p].next = a
    BY <1>1 DEF Chain, Linked
  <2> HIDE DEF n, p
  <2>2. IF n = Null THEN hi2[a] = End(hi2, Null, Null, top)
        ELSE n \in S /\ heap[n].leaf /\ lo2[n] = hi2[a] /\ heap[n].previous = a
    <3>1. CASE n = Null
      BY <1>2, <1>3, <1>5, <2>1, <3>1
    <3>2. CASE n # Null
      <4>1. n \in S /\ heap[n].leaf /\ lo[n] = hi[a] /\ heap[n].previous = a
        BY <2>1, <3>2
      <4>2. lo[n] # lo[top] /\ hi[a] # hi[top]
        BY <1>3, <4>1
      <4> QED BY <1>5, <3>2, <4>1, <4>2
    <3> QED BY <3>1, <3>2
  <2>3. IF p = Null THEN lo2[a] = lo2[top]
        ELSE p \in S /\ heap[p].leaf /\ hi2[p] = lo2[a] /\ heap[p].next = a
    <3>1. CASE p = Null
      BY <1>3, <1>5, <2>1, <3>1
    <3>2. CASE p # Null
      <4>1. p \in S /\ heap[p].leaf /\ hi[p] = lo[a] /\ heap[p].next = a
        BY <2>1, <3>2
      <4>2. hi[p] # hi[top] /\ lo[a] # lo[top]
        BY <1>3, <4>1
      <4> QED BY <1>5, <3>2, <4>1, <4>2
    <3> QED BY <3>1, <3>2
  <2> QED BY <2>2, <2>3 DEF n, p
<1>12. Resting(heap, top, h, lo2, hi2, over, short)
  BY <1>1, <1>7, <1>8, <1>9, <1>10, <1>11 DEF Resting, Tree, Pending
<1>13. lo2[top] <= k /\ k < hi2[top]
  BY <1>3, <1>4, <1>5
<1> QED BY <1>12, <1>13

-----------------------------------------------------------------------------
(* The tree: children, parents and neighbours. *)

\* The children of a node, from the left: their intervals begin one after another, so no
\* child is there twice.
LEMMA ChildrenApart ==
  ASSUME NEW heap, NEW h, NEW lo, NEW hi, NEW left, NEW right,
         Heap(heap), Kinds(heap, h), Ordered(heap, lo, hi), Down(heap, h, lo, hi, left, right),
         NEW a \in DOMAIN heap, ~heap[a].leaf
  PROVE  /\ Len(heap[a].keys) \in Nat /\ Len(heap[a].children) = Len(heap[a].keys) + 1
         /\ \A i \in 1..Len(heap[a].keys) + 1 : /\ heap[a].children[i] \in DOMAIN heap
                                                /\ heap[heap[a].children[i]].parent = a
                                                /\ h[heap[a].children[i]] + 1 = h[a]
                                                /\ lo[heap[a].children[i]] = ChildLow(heap, lo, a, i)
                                                /\ Hangs(heap, h, lo, hi, left, right, a, i)
         /\ \A i, j \in 1..Len(heap[a].keys) + 1 : i < j => ChildLow(heap, lo, a, i) < ChildLow(heap, lo, a, j)
         /\ \A i, j \in 1..Len(heap[a].keys) + 1 : heap[a].children[i] = heap[a].children[j] => i = j
<1>1. Len(heap[a].keys) \in Nat /\ Len(heap[a].children) = Len(heap[a].keys) + 1
  BY Fields DEF Kinds, KindOf
<1>2. \A i \in 1..Len(heap[a].keys) + 1 : Hangs(heap, h, lo, hi, left, right, a, i)
  BY <1>1 DEF Down
<1>3. \A i \in 1..Len(heap[a].keys) + 1 : /\ heap[a].children[i] \in DOMAIN heap
                                          /\ heap[heap[a].children[i]].parent = a
                                          /\ h[heap[a].children[i]] + 1 = h[a]
                                          /\ lo[heap[a].children[i]] = ChildLow(heap, lo, a, i)
  BY <1>2 DEF Hangs
<1>4. ASSUME NEW i \in 1..Len(heap[a].keys) + 1, NEW j \in 1..Len(heap[a].keys) + 1, i < j
      PROVE  ChildLow(heap, lo, a, i) < ChildLow(heap, lo, a, j)
  <2>1. j # 1 /\ j - 1 \in 1..Len(heap[a].keys)
    BY <1>1, <1>4
  <2>2. lo[a] < heap[a].keys[j - 1]
    BY <2>1 DEF Ordered, InOrder
  <2>3. CASE i = 1
    BY <2>1, <2>2, <2>3 DEF ChildLow
  <2>4. CASE i # 1
    <3>1. i - 1 \in 1..Len(heap[a].keys) /\ i - 1 < j - 1
      BY <1>1, <1>4, <2>4
    <3>2. heap[a].keys[i - 1] < heap[a].keys[j - 1]
      BY <2>1, <3>1 DEF Ordered, InOrder
    <3> QED BY <2>1, <2>4, <3>2 DEF ChildLow
  <2> QED BY <2>3, <2>4
<1>5. ASSUME NEW i \in 1..Len(heap[a].keys) + 1, NEW j \in 1..Len(heap[a].keys) + 1,
             heap[a].children[i] = heap[a].children[j]
      PROVE  i = j
  <2>1. lo[heap[a].children[i]] \in Int
    BY <1>3 DEF Ordered
  <2>2. ChildLow(heap, lo, a, i) = ChildLow(heap, lo, a, j) /\ ChildLow(heap, lo, a, i) \in Int
    BY <1>3, <1>5, <2>1
  <2>3. i < j \/ j < i \/ i = j
    BY <1>1
  <2> QED BY <1>4, <2>2, <2>3
<1> QED BY <1>1, <1>2, <1>3, <1>4, <1>5

\* Where a node stands among the children of its parent, as ChildIndex finds it.
LEMMA ChildIndexFinds ==
  ASSUME NEW h, NEW lo, NEW hi, NEW left, NEW right,
         Heap(node), Kinds(node, h), Ordered(node, lo, hi), Down(node, h, lo, hi, left, right),
         NEW p \in DOMAIN node, ~node[p].leaf,
         NEW i \in 1..Len(node[p].keys) + 1
  PROVE  ChildIndex(p, node[p].children[i]) = i - 1
<1> DEFINE cs == node[p].children
           c  == cs[i]
           I  == {j \in 1..Len(cs) : cs[j] = c}
<1>1. /\ Len(node[p].keys) \in Nat /\ Len(cs) = Len(node[p].keys) + 1
      /\ \A j, k \in 1..Len(node[p].keys) + 1 : cs[j] = cs[k] => j = k
  BY ChildrenApart
<1>2. I = {i}
  BY <1>1
<1> HIDE DEF I, c
<1>3. SelectInSeq(cs, LAMBDA x : x = c) = IF I # {} THEN Min(I) ELSE 0
  BY DEF SelectInSeq, I
<1>4. Min(I) = i
  BY <1>1, <1>2 DEF Min
<1>5. SelectInSeq(cs, LAMBDA x : x = c) = i
  BY <1>2, <1>3, <1>4
<1>6. ChildIndex(p, c) = IF SelectInSeq(cs, LAMBDA x : x = c) = 0 THEN Len(cs)
                         ELSE SelectInSeq(cs, LAMBDA x : x = c) - 1
  BY DEF ChildIndex
<1>7. i # 0
  BY <1>1
<1> QED BY <1>5, <1>6, <1>7 DEF c

-----------------------------------------------------------------------------
(* Changing what one leaf holds. *)

\* The parts of the tree that hold of a heap.
LEMMA Parts ==
  ASSUME NEW heap, NEW top, NEW h, NEW lo, NEW hi, NEW over, NEW short,
         Resting(heap, top, h, lo, hi, over, short)
  PROVE  /\ Heap(heap) /\ Kinds(heap, h) /\ Ordered(heap, lo, hi)
         /\ Down(heap, h, lo, hi, Null, Null) /\ Up(heap, top, Null) /\ Apart(heap, h, lo, hi)
         /\ Whole(heap, top, h, lo, hi, Null, Null) /\ Chain(heap, top, lo, hi, Null, Null)
         /\ Filled(heap, top, over, short)
         /\ \A a \in DOMAIN heap : /\ a \in Nat /\ a # Null /\ End(hi, Null, Null, a) = hi[a]
                                   /\ lo[a] \in Int /\ hi[a] \in Int /\ h[a] \in Nat
                                   /\ lo[a] < hi[a] /\ lo[top] <= lo[a] /\ hi[a] <= hi[top]
                                   /\ h[a] <= h[top]
         /\ DOMAIN heap # {} => top \in DOMAIN heap
<1>1. /\ Heap(heap) /\ Kinds(heap, h) /\ Ordered(heap, lo, hi)
      /\ Down(heap, h, lo, hi, Null, Null) /\ Up(heap, top, Null) /\ Apart(heap, h, lo, hi)
      /\ Whole(heap, top, h, lo, hi, Null, Null) /\ Chain(heap, top, lo, hi, Null, Null)
      /\ Filled(heap, top, over, short)
  BY DEF Resting, Tree
<1>2. \A a \in DOMAIN heap : a \in Nat /\ a # Null
  BY <1>1, Fields
<1>3. \A a \in DOMAIN heap : End(hi, Null, Null, a) = hi[a]
  BY <1>2 DEF End
<1>4. \A a \in DOMAIN heap : lo[a] \in Int /\ hi[a] \in Int /\ h[a] \in Nat /\ lo[a] < hi[a]
  BY <1>1 DEF Kinds, Ordered, InOrder
<1>5. DOMAIN heap # {} => top \in DOMAIN heap
  BY <1>1 DEF Whole
<1>6. \A a \in DOMAIN heap : lo[top] <= lo[a] /\ hi[a] <= hi[top] /\ h[a] <= h[top]
  BY <1>1, <1>3, <1>5 DEF Whole
<1> QED BY <1>1, <1>2, <1>3, <1>4, <1>5, <1>6

\* When a leaf gets other keys and values, in order and within its interval, the rest of the
\* tree is what it was.
LEMMA LeafEdited ==
  ASSUME NEW heap, NEW heap2, NEW top, NEW h, NEW lo, NEW hi,
         Resting(heap, top, h, lo, hi, Null, Null),
         NEW a \in DOMAIN heap, heap[a].leaf,
         Heap(heap2), DOMAIN heap2 = DOMAIN heap,
         \A b \in DOMAIN heap : b # a => heap2[b] = heap[b],
         heap2[a].leaf = heap[a].leaf, heap2[a].children = heap[a].children,
         heap2[a].parent = heap[a].parent, heap2[a].next = heap[a].next,
         heap2[a].previous = heap[a].previous,
         KindOf(heap2, h, a), InOrder(heap2, lo, hi, a),
         NEW over \in {Null, a}, NEW short \in {Null, a}, FilledAt(heap2, top, over, short, a)
  PROVE  Resting(heap2, top, h, lo, hi, over, short)
<1> DEFINE S == DOMAIN heap
<1>1. /\ Kinds(heap, h) /\ Ordered(heap, lo, hi)
      /\ Down(heap, h, lo, hi, Null, Null) /\ Up(heap, top, Null) /\ Apart(heap, h, lo, hi)
      /\ Whole(heap, top, h, lo, hi, Null, Null) /\ Chain(heap, top, lo, hi, Null, Null)
      /\ Filled(heap, top, Null, Null)
      /\ \A b \in S : b # Null
  BY Parts
<1>2. \A b \in S : /\ heap2[b].leaf = heap[b].leaf /\ heap2[b].children = heap[b].children
                   /\ heap2[b].parent = heap[b].parent /\ heap2[b].next = heap[b].next
                   /\ heap2[b].previous = heap[b].previous
  OBVIOUS
<1>3. \A b \in S : ~heap[b].leaf => heap2[b] = heap[b]
  OBVIOUS
<1>4. Kinds(heap2, h)
  <2>1. \A b \in S : b # a => KindOf(heap2, h, b)
    BY <1>1 DEF Kinds, KindOf
  <2> QED BY <1>1, <2>1 DEF Kinds
<1>5. Ordered(heap2, lo, hi)
  <2>1. \A b \in S : b # a => InOrder(heap2, lo, hi, b)
    BY <1>1 DEF Ordered, InOrder
  <2> QED BY <1>1, <2>1 DEF Ordered
<1>6. Down(heap2, h, lo, hi, Null, Null)
  <2> SUFFICES ASSUME NEW b \in S, ~heap[b].leaf, NEW i \in 1..Len(heap[b].children)
               PROVE  Hangs(heap2, h, lo, hi, Null, Null, b, i)
    BY <1>2 DEF Down
  <2>1. Hangs(heap, h, lo, hi, Null, Null, b, i)
    BY <1>1 DEF Down
  <2> QED BY <1>2, <1>3, <2>1 DEF Hangs, ChildLow, ChildHigh
<1>7. Up(heap2, top, Null)
  <2>1. \A p, c : IsChild(heap, p, c) => IsChild(heap2, p, c)
    BY <1>2 DEF IsChild
  <2> QED BY <1>1, <1>2, <2>1 DEF Up
<1>8. Apart(heap2, h, lo, hi) /\ Whole(heap2, top, h, lo, hi, Null, Null)
  BY <1>1 DEF Apart, Whole
<1>9. Chain(heap2, top, lo, hi, Null, Null)
  <2> SUFFICES ASSUME NEW b \in S, heap[b].leaf PROVE Linked(heap2, top, lo, hi, Null, Null, b)
    BY <1>2 DEF Chain
  <2>1. Linked(heap, top, lo, hi, Null, Null, b)
    BY <1>1 DEF Chain
  <2> QED BY <1>2, <2>1 DEF Linked
<1>10. Filled(heap2, top, over, short)
  <2>1. \A b \in S : b # a => FilledAt(heap2, top, over, short, b)
    <3> TAKE b \in S
    <3> HAVE b # a
    <3>1. FilledAt(heap, top, Null, Null, b) /\ b # Null /\ heap2[b] = heap[b]
      BY <1>1 DEF Filled
    <3> QED BY <3>1 DEF FilledAt
  <2> QED BY <2>1 DEF Filled
<1> QED BY <1>4, <1>5, <1>6, <1>7, <1>8, <1>9, <1>10 DEF Resting, Tree, Pending

-----------------------------------------------------------------------------
(* Moving keys from a node to its neighbour. *)

\* Two neighbours below one parent, the i-th child of p and the next.
LEMMA Neighbours ==
  ASSUME NEW heap, NEW top, NEW h, NEW lo, NEW hi, NEW over, NEW short,
         Resting(heap, top, h, lo, hi, over, short),
         NEW p \in DOMAIN heap, ~heap[p].leaf, NEW i \in 1..Len(heap[p].keys),
         NEW l, NEW r, l = heap[p].children[i], r = heap[p].children[i + 1]
  PROVE  /\ l \in DOMAIN heap /\ r \in DOMAIN heap /\ l # r /\ p # l /\ p # r /\ l # top /\ r # top
         /\ heap[l].parent = p /\ heap[r].parent = p /\ h[l] = h[r] /\ h[l] + 1 = h[p]
         /\ lo[l] = ChildLow(heap, lo, p, i) /\ hi[l] = heap[p].keys[i] /\ lo[r] = heap[p].keys[i]
         /\ hi[r] = ChildHigh(heap, hi, p, i + 1)
         /\ heap[l].leaf <=> heap[r].leaf
         /\ heap[l].leaf => heap[l].next = r /\ heap[r].previous = l
<1>1. /\ Heap(heap) /\ Kinds(heap, h) /\ Ordered(heap, lo, hi)
      /\ Down(heap, h, lo, hi, Null, Null) /\ Up(heap, top, Null) /\ Apart(heap, h, lo, hi)
      /\ Chain(heap, top, lo, hi, Null, Null)
      /\ \A b \in DOMAIN heap : /\ b # Null /\ End(hi, Null, Null, b) = hi[b]
                                /\ lo[b] \in Int /\ hi[b] \in Int /\ h[b] \in Nat
                                /\ lo[b] < hi[b] /\ lo[top] <= lo[b] /\ hi[b] <= hi[top]
      /\ top \in DOMAIN heap
  BY Parts
<1>2. /\ Len(heap[p].keys) \in Nat
      /\ \A j \in 1..Len(heap[p].keys) + 1 : Hangs(heap, h, lo, hi, Null, Null, p, j)
      /\ \A j, k \in 1..Len(heap[p].keys) + 1 : heap[p].children[j] = heap[p].children[k] => j = k
  BY <1>1, ChildrenApart
<1>3. i \in 1..Len(heap[p].keys) + 1 /\ i + 1 \in 1..Len(heap[p].keys) + 1
  BY <1>2
<1>4. /\ l \in DOMAIN heap /\ heap[l].parent = p /\ h[l] + 1 = h[p]
      /\ lo[l] = ChildLow(heap, lo, p, i) /\ hi[l] = ChildHigh(heap, hi, p, i)
  BY <1>1, <1>2, <1>3 DEF Hangs
<1>5. /\ r \in DOMAIN heap /\ heap[r].parent = p /\ h[r] + 1 = h[p]
      /\ lo[r] = ChildLow(heap, lo, p, i + 1) /\ hi[r] = ChildHigh(heap, hi, p, i + 1)
  <2>1. Hangs(heap, h, lo, hi, Null, Null, p, i + 1)
    BY <1>2, <1>3
  <2> QED BY <1>1, <2>1 DEF Hangs
<1>6. l # r
  BY <1>2, <1>3
<1>7. hi[l] = heap[p].keys[i] /\ lo[r] = heap[p].keys[i]
  <2>1. i # Len(heap[p].keys) + 1 /\ i + 1 # 1 /\ i + 1 - 1 = i
    BY <1>2
  <2> QED BY <1>4, <1>5, <2>1 DEF ChildLow, ChildHigh
<1>8. h[l] \in Nat /\ h[r] \in Nat /\ h[p] \in Nat
  BY <1>1, <1>4, <1>5
<1>9. h[l] = h[r] /\ p # l /\ p # r
  BY <1>4, <1>5, <1>8, SMTT(20)
<1>10. l # top /\ r # top
  <2>1. heap[top].parent = Null /\ p # Null
    BY <1>1 DEF Up
  <2> QED BY <1>4, <1>5, <2>1
<1>11. heap[l].leaf <=> heap[r].leaf
  BY <1>1, <1>4, <1>5, <1>9 DEF Kinds, KindOf
<1>12. heap[l].leaf => heap[l].next = r /\ heap[r].previous = l
  <2> SUFFICES ASSUME heap[l].leaf PROVE heap[l].next = r /\ heap[r].previous = l
    OBVIOUS
  <2> DEFINE n == heap[l].next
  <2>1. IF n = Null THEN hi[l] = End(hi, Null, Null, top)
        ELSE n \in DOMAIN heap /\ heap[n].leaf /\ lo[n] = hi[l] /\ heap[n].previous = l
    BY <1>1, <1>4 DEF Chain, Linked
  <2>2. hi[l] < hi[top]
    BY <1>1, <1>4, <1>5, <1>7
  <2>3. n # Null
    BY <1>1, <1>4, <2>1, <2>2
  <2>4. n \in DOMAIN heap /\ heap[n].leaf /\ lo[n] = lo[r] /\ heap[n].previous = l
    BY <1>7, <2>1, <2>3
  <2>5. h[n] = 0 /\ h[r] = 0
    BY <1>1, <1>5, <1>11, <2>4 DEF Kinds, KindOf
  <2> HIDE DEF n
  <2>6. n = r
    BY <1>1, <1>5, <2>4, <2>5, SameNode
  <2> QED BY <2>4, <2>6 DEF n
<1> QED BY <1>4, <1>5, <1>6, <1>7, <1>9, <1>10, <1>11, <1>12

\* What moves between two neighbours when one borrows from the other: the separator between
\* them becomes sep, and every node stays where it is in the tree and in the leaf chain.
Shifted(heap, heap2, p, i, l, r, sep) ==
  /\ Heap(heap2) /\ DOMAIN heap2 = DOMAIN heap
  /\ \A b \in DOMAIN heap : /\ heap2[b].leaf = heap[b].leaf /\ heap2[b].next = heap[b].next
                            /\ heap2[b].previous = heap[b].previous
  /\ \A b \in DOMAIN heap : b \notin {p, l, r} =>
        /\ heap2[b].keys = heap[b].keys /\ heap2[b].values = heap[b].values
        /\ heap2[b].children = heap[b].children
  /\ heap2[p].children = heap[p].children /\ heap2[p].values = heap[p].values
  /\ Len(heap2[p].keys) = Len(heap[p].keys)
  /\ \A j \in 1..Len(heap[p].keys) : heap2[p].keys[j] = IF j = i THEN sep ELSE heap[p].keys[j]
  /\ \A c \in DOMAIN heap : IF heap[c].parent \in {l, r} THEN IsChild(heap2, heap2[c].parent, c)
                            ELSE heap2[c].parent = heap[c].parent

\* A node whose keys and children have changed is in order and its children hang from it.
Settled(heap, top, h, lo, hi, a) ==
  /\ KindOf(heap, h, a) /\ InOrder(heap, lo, hi, a) /\ FilledAt(heap, top, Null, Null, a)
  /\ ~heap[a].leaf => \A j \in 1..Len(heap[a].children) : Hangs(heap, h, lo, hi, Null, Null, a, j)

\* One interval has another end.
Replaced(old, new, a, k) == new = [old EXCEPT ![a] = k]

\* Moving keys, and children, between two neighbours keeps the tree, when both have enough of
\* them afterwards: the interval of one shrinks by what that of the other grows.
LEMMA ShiftKeeps ==
  ASSUME NEW heap, NEW heap2, NEW top, NEW h, NEW lo, NEW hi, NEW short,
         Resting(heap, top, h, lo, hi, Null, short),
         NEW p \in DOMAIN heap, ~heap[p].leaf, NEW i \in 1..Len(heap[p].keys),
         NEW l, NEW r, l = heap[p].children[i], r = heap[p].children[i + 1], short \in {l, r},
         NEW sep \in Int, lo[l] < sep, sep < hi[r],
         Shifted(heap, heap2, p, i, l, r, sep),
         NEW lo2, NEW hi2, Replaced(lo, lo2, r, sep), Replaced(hi, hi2, l, sep),
         Settled(heap2, top, h, lo2, hi2, l), Settled(heap2, top, h, lo2, hi2, r)
  PROVE  Resting(heap2, top, h, lo2, hi2, Null, Null)
<1> DEFINE S == DOMAIN heap
<1>1. /\ Heap(heap) /\ Kinds(heap, h) /\ Ordered(heap, lo, hi)
      /\ Down(heap, h, lo, hi, Null, Null) /\ Up(heap, top, Null) /\ Apart(heap, h, lo, hi)
      /\ Whole(heap, top, h, lo, hi, Null, Null) /\ Chain(heap, top, lo, hi, Null, Null)
      /\ Filled(heap, top, Null, short)
      /\ \A b \in S : /\ b # Null /\ End(hi, Null, Null, b) = hi[b]
                      /\ lo[b] \in Int /\ hi[b] \in Int /\ h[b] \in Nat
                      /\ lo[b] < hi[b] /\ lo[top] <= lo[b] /\ hi[b] <= hi[top] /\ h[b] <= h[top]
      /\ top \in S
  BY Parts
<1>2. /\ l \in S /\ r \in S /\ l # r /\ p # l /\ p # r /\ l # top /\ r # top
      /\ heap[l].parent = p /\ heap[r].parent = p /\ h[l] = h[r] /\ h[l] + 1 = h[p]
      /\ lo[l] = ChildLow(heap, lo, p, i) /\ hi[l] = heap[p].keys[i] /\ lo[r] = heap[p].keys[i]
      /\ hi[r] = ChildHigh(heap, hi, p, i + 1)
      /\ heap[l].leaf <=> heap[r].leaf
      /\ heap[l].leaf => heap[l].next = r /\ heap[r].previous = l
  BY Neighbours
<1>3. /\ Heap(heap2) /\ DOMAIN heap2 = S
      /\ \A b \in S : /\ heap2[b].leaf = heap[b].leaf /\ heap2[b].next = heap[b].next
                      /\ heap2[b].previous = heap[b].previous
      /\ \A b \in S : b \notin {p, l, r} =>
            /\ heap2[b].keys = heap[b].keys /\ heap2[b].values = heap[b].values
            /\ heap2[b].children = heap[b].children
      /\ heap2[p].children = heap[p].children /\ heap2[p].values = heap[p].values
      /\ Len(heap2[p].keys) = Len(heap[p].keys)
      /\ \A j \in 1..Len(heap[p].keys) : heap2[p].keys[j] = IF j = i THEN sep ELSE heap[p].keys[j]
      /\ \A c \in S : heap[c].parent \notin {l, r} => heap2[c].parent = heap[c].parent
      /\ \A c \in S : heap[c].parent \in {l, r} => IsChild(heap2, heap2[c].parent, c)
  BY DEF Shifted
<1>4. /\ lo2 \in [S -> Int] /\ hi2 \in [S -> Int]
      /\ lo2[r] = sep /\ hi2[l] = sep
      /\ \A b \in S : (b # r => lo2[b] = lo[b]) /\ (b # l => hi2[b] = hi[b])
  <2>1. lo \in [S -> Int] /\ hi \in [S -> Int]
    BY <1>1 DEF Ordered
  <2> QED BY <1>2, <2>1 DEF Replaced
<1>5. \A b \in S : b # Null /\ End(hi2, Null, Null, b) = hi2[b]
  BY <1>1 DEF End
<1>6. /\ Len(heap[p].keys) \in Nat /\ Len(heap[p].children) = Len(heap[p].keys) + 1
      /\ \A j \in 1..Len(heap[p].keys) + 1 : Hangs(heap, h, lo, hi, Null, Null, p, j)
      /\ \A j, k \in 1..Len(heap[p].keys) + 1 : heap[p].children[j] = heap[p].children[k] => j = k
  BY <1>1, ChildrenApart
<1>7. Kinds(heap2, h)
  <2>1. \A b \in S : b \notin {l, r, p} => KindOf(heap2, h, b)
    <3> TAKE b \in S
    <3> HAVE b \notin {l, r, p}
    <3>1. KindOf(heap, h, b)
      BY <1>1 DEF Kinds
    <3>2. /\ heap2[b].leaf = heap[b].leaf /\ heap2[b].next = heap[b].next
          /\ heap2[b].previous = heap[b].previous /\ heap2[b].keys = heap[b].keys
          /\ heap2[b].values = heap[b].values /\ heap2[b].children = heap[b].children
      BY <1>3
    <3> QED BY <3>1, <3>2 DEF KindOf
  <2>2. KindOf(heap2, h, p)
    <3>1. KindOf(heap, h, p)
      BY <1>1 DEF Kinds
    <3> QED BY <1>3, <3>1 DEF KindOf
  <2>3. KindOf(heap2, h, l) /\ KindOf(heap2, h, r)
    BY DEF Settled
  <2> QED BY <1>1, <1>3, <2>1, <2>2, <2>3 DEF Kinds
<1>8. InOrder(heap2, lo2, hi2, p)
  <2> DEFINE ks == heap[p].keys
             n  == Len(heap[p].keys)
  <2>1. lo2[p] = lo[p] /\ hi2[p] = hi[p] /\ lo[p] < hi[p] /\ lo[p] \in Int /\ hi[p] \in Int
    BY <1>1, <1>2, <1>4
  <2>2. /\ \A j, k \in 1..n : j < k => ks[j] < ks[k]
        /\ \A j \in 1..n : lo[p] < ks[j] /\ ks[j] < hi[p] /\ ks[j] \in Int
    BY <1>1, Fields DEF Ordered, InOrder
  <2>3. \A j \in 1..n : j < i => ks[j] < sep
    <3> TAKE j \in 1..n
    <3> HAVE j < i
    <3>1. i # 1 /\ i - 1 \in 1..n /\ lo[l] = ks[i - 1]
      BY <1>2, <1>6 DEF ChildLow
    <3>2. j = i - 1 \/ j < i - 1
      BY <1>6
    <3>3. ks[j] <= ks[i - 1] /\ ks[i - 1] \in Int /\ ks[j] \in Int
      BY <2>2, <3>1, <3>2
    <3> HIDE DEF ks, n
    <3> QED BY <3>1, <3>3
  <2>4. \A j \in 1..n : i < j => sep < ks[j]
    <3> TAKE j \in 1..n
    <3> HAVE i < j
    <3>1. i + 1 # n + 1 /\ i + 1 \in 1..n
      BY <1>6
    <3>2. hi[r] = ks[i + 1]
      BY <1>2, <3>1 DEF ChildHigh
    <3>3. j = i + 1 \/ i + 1 < j
      BY <1>6
    <3>4. ks[i + 1] <= ks[j] /\ ks[i + 1] \in Int /\ ks[j] \in Int
      BY <2>2, <3>1, <3>3
    <3> HIDE DEF ks, n
    <3> QED BY <3>2, <3>4
  <2>5. lo[p] < sep /\ sep < hi[p]
    <3>1. lo[p] < ks[i] /\ ks[i] < hi[p]
      BY <2>2
    <3>2. lo[p] <= lo[l]
      <4>1. CASE i = 1
        BY <1>2, <4>1, <2>1 DEF ChildLow
      <4>2. CASE i # 1
        <5>1. i - 1 \in 1..n /\ lo[l] = ks[i - 1]
          BY <1>2, <1>6, <4>2 DEF ChildLow
        <5>2. lo[p] < ks[i - 1] /\ ks[i - 1] \in Int
          BY <2>2, <5>1
        <5> HIDE DEF ks, n
        <5> QED BY <2>1, <5>1, <5>2
      <4> QED BY <4>1, <4>2
    <3>3. hi[r] <= hi[p]
      <4>1. CASE i = n
        BY <1>2, <1>6, <4>1, <2>1 DEF ChildHigh
      <4>2. CASE i # n
        <5>1. i + 1 \in 1..n /\ i + 1 # n + 1
          BY <1>6, <4>2
        <5>2. hi[r] = ks[i + 1]
          BY <1>2, <5>1 DEF ChildHigh
        <5>3. ks[i + 1] < hi[p] /\ ks[i + 1] \in Int
          BY <2>2, <5>1
        <5> HIDE DEF ks, n
        <5> QED BY <2>1, <5>2, <5>3
      <4> QED BY <4>1, <4>2
    <3>4. lo[l] \in Int /\ hi[r] \in Int
      BY <1>1, <1>2
    <3> QED BY <2>1, <3>2, <3>3, <3>4
  <2> DEFINE ms == heap2[p].keys
  <2>6. Len(ms) = n /\ n \in Nat /\ \A j \in 1..n : ms[j] = IF j = i THEN sep ELSE ks[j]
    BY <1>3, <1>6
  <2> HIDE DEF ks, ms, n
  <2>7. \A j, k \in 1..n : j < k => ms[j] < ms[k]
    BY <2>2, <2>3, <2>4, <2>6
  <2>8. \A j \in 1..n : lo[p] < ms[j] /\ ms[j] < hi[p] /\ lo[p] <= ms[j]
    BY <2>1, <2>2, <2>5, <2>6
  <2> QED BY <2>1, <2>6, <2>7, <2>8 DEF InOrder, ms
<1>9. Ordered(heap2, lo2, hi2)
  <2>1. \A b \in S : b \notin {l, r, p} => InOrder(heap2, lo2, hi2, b)
    BY <1>1, <1>3, <1>4, ZenonT(40) DEF Ordered, InOrder
  <2>2. InOrder(heap2, lo2, hi2, l) /\ InOrder(heap2, lo2, hi2, r)
    BY DEF Settled
  <2> QED BY <1>3, <1>4, <1>8, <2>1, <2>2 DEF Ordered
<1>10. Down(heap2, h, lo2, hi2, Null, Null)
  <2> SUFFICES ASSUME NEW b \in S, ~heap[b].leaf, NEW j \in 1..Len(heap2[b].children)
               PROVE  Hangs(heap2, h, lo2, hi2, Null, Null, b, j)
    BY <1>3 DEF Down
  <2>1. CASE b \in {l, r}
    BY <1>3, <2>1 DEF Settled
  <2>2. CASE b \notin {l, r} /\ b # p
    <3> DEFINE c == heap[b].children[j]
    <3>1. /\ heap2[b].children = heap[b].children /\ heap2[b].keys = heap[b].keys
          /\ lo2[b] = lo[b] /\ hi2[b] = hi[b]
      BY <1>3, <1>4, <2>2
    <3>2. /\ c \in S /\ heap[c].parent = b /\ h[c] + 1 = h[b]
          /\ lo[c] = ChildLow(heap, lo, b, j) /\ End(hi, Null, Null, c) = ChildHigh(heap, hi, b, j)
      BY <1>1, <3>1 DEF Down, Hangs
    <3> HIDE DEF c
    <3>3. c \notin {l, r} /\ heap2[c].parent = b
      BY <1>2, <1>3, <2>2, <3>2
    <3>4. lo2[c] = lo[c] /\ End(hi2, Null, Null, c) = End(hi, Null, Null, c)
      BY <1>1, <1>4, <1>5, <3>2, <3>3
    <3> QED BY <1>3, <3>1, <3>2, <3>3, <3>4 DEF Hangs, ChildLow, ChildHigh, c
  <2>3. CASE b = p
    <3> DEFINE c == heap[p].children[j]
               n == Len(heap[p].keys)
    <3>1. j \in 1..n + 1 /\ heap2[p].children[j] = c /\ lo2[p] = lo[p] /\ hi2[p] = hi[p]
      BY <1>2, <1>3, <1>4, <1>6, <2>3
    <3>2. /\ c \in S /\ heap[c].parent = p /\ h[c] + 1 = h[p]
          /\ lo[c] = ChildLow(heap, lo, p, j) /\ End(hi, Null, Null, c) = ChildHigh(heap, hi, p, j)
      BY <1>6, <3>1 DEF Hangs
    <3>3. i \in 1..n + 1 /\ i + 1 \in 1..n + 1
      BY <1>6
    <3>4. (c = l => j = i) /\ (c = r => j = i + 1) /\ (j = i => c = l) /\ (j = i + 1 => c = r)
      BY <1>6, <3>1, <3>3
    <3>5. heap2[c].parent = p
      BY <1>2, <1>3, <3>2
    <3>6. lo2[c] = ChildLow(heap2, lo2, p, j)
      <4>1. CASE j = 1
        BY <1>4, <1>6, <3>1, <3>2, <3>4, <4>1, SMTT(20) DEF ChildLow
      <4>2. CASE j # 1
        <5>1. j - 1 \in 1..n /\ lo[c] = heap[p].keys[j - 1]
          BY <1>6, <3>1, <3>2, <4>2 DEF ChildLow
        <5>2. heap2[p].keys[j - 1] = IF j - 1 = i THEN sep ELSE heap[p].keys[j - 1]
          BY <1>3, <5>1
        <5>3. lo2[c] = IF j = i + 1 THEN sep ELSE lo[c]
          BY <1>4, <3>2, <3>4
        <5> HIDE DEF c
        <5> QED BY <3>1, <4>2, <5>1, <5>2, <5>3 DEF ChildLow
      <4> QED BY <4>1, <4>2
    <3>7. End(hi2, Null, Null, c) = ChildHigh(heap2, hi2, p, j)
      <4>0. End(hi2, Null, Null, c) = hi2[c] /\ End(hi, Null, Null, c) = hi[c]
        BY <1>1, <1>5, <3>2
      <4>1. CASE j = n + 1
        <5>1. c # l
          BY <3>4, <4>1, <1>6
        <5> HIDE DEF c
        <5> QED BY <1>3, <1>4, <3>1, <3>2, <4>0, <4>1, <5>1 DEF ChildHigh
      <4>2. CASE j # n + 1
        <5>1. j \in 1..n /\ hi[c] = heap[p].keys[j]
          BY <1>6, <3>1, <3>2, <4>0, <4>2 DEF ChildHigh
        <5>2. heap2[p].keys[j] = IF j = i THEN sep ELSE heap[p].keys[j]
          BY <1>3, <5>1
        <5>3. hi2[c] = IF j = i THEN sep ELSE hi[c]
          BY <1>4, <3>2, <3>4
        <5> HIDE DEF c
        <5> QED BY <1>3, <4>0, <4>2, <5>1, <5>2, <5>3 DEF ChildHigh
      <4> QED BY <4>1, <4>2
    <3> HIDE DEF c
    <3>8. Hangs(heap2, h, lo2, hi2, Null, Null, p, j)
      BY <1>3, <3>1, <3>2, <3>5, <3>6, <3>7 DEF Hangs
    <3> QED BY <2>3, <3>8
  <2> QED BY <2>1, <2>2, <2>3
<1>11. Up(heap2, top, Null)
  <2> SUFFICES ASSUME NEW c \in S
               PROVE  IF c \in {top, Null} THEN heap2[c].parent = Null
                      ELSE IsChild(heap2, heap2[c].parent, c)
    BY <1>3 DEF Up
  <2>1. IF c \in {top, Null} THEN heap[c].parent = Null ELSE IsChild(heap, heap[c].parent, c)
    BY <1>1 DEF Up
  <2>2. CASE c = top
    BY <1>1, <1>2, <1>3, <2>1, <2>2
  <2>3. CASE c # top /\ heap[c].parent \in {l, r}
    BY <1>1, <1>3, <2>3
  <2>4. CASE c # top /\ heap[c].parent \notin {l, r}
    <3>1. IsChild(heap, heap[c].parent, c) /\ heap2[c].parent = heap[c].parent /\ c # Null
      BY <1>1, <1>3, <2>1, <2>4
    <3>2. heap2[heap[c].parent].children = heap[heap[c].parent].children
      BY <1>3, <2>4, <3>1 DEF IsChild
    <3> QED BY <1>3, <2>4, <3>1, <3>2 DEF IsChild
  <2> QED BY <2>2, <2>3, <2>4
<1>12. Apart(heap2, h, lo2, hi2)
  <2> SUFFICES ASSUME NEW a \in S, NEW b \in S, a # b, h[a] = h[b]
               PROVE  hi2[a] <= lo2[b] \/ hi2[b] <= lo2[a]
    BY <1>3 DEF Apart
  <2>1. \A x, y \in S : x # y /\ h[x] = h[y] => hi[x] <= lo[y] \/ hi[y] <= lo[x]
    BY <1>1 DEF Apart
  <2>2. \A x \in S : x \notin {l, r} /\ h[x] = h[l] => hi[x] <= lo[l] \/ hi[r] <= lo[x]
    <3> TAKE x \in S
    <3> HAVE x \notin {l, r} /\ h[x] = h[l]
    <3>1. (hi[x] <= lo[l] \/ hi[l] <= lo[x]) /\ (hi[x] <= lo[r] \/ hi[r] <= lo[x])
      BY <1>2, <2>1
    <3>2. hi[l] = lo[r] /\ \A y \in {l, r, x} : lo[y] \in Int /\ hi[y] \in Int /\ lo[y] < hi[y]
      BY <1>1, <1>2
    <3> QED BY <3>1, <3>2
  <2>3. \A y \in {l, r, a, b} : lo[y] \in Int /\ hi[y] \in Int /\ lo[y] < hi[y]
    BY <1>1, <1>2
  <2>8. /\ lo2[l] = lo[l] /\ hi2[l] = sep /\ lo2[r] = sep /\ hi2[r] = hi[r]
        /\ \A x \in S : x \notin {l, r} => lo2[x] = lo[x] /\ hi2[x] = hi[x]
    BY <1>2, <1>4
  <2>4. CASE a \in {l, r} /\ b \in {l, r}
    BY <2>4, <2>8
  <2>5. CASE a \in {l, r} /\ b \notin {l, r}
    <3>1. hi[b] <= lo[l] \/ hi[r] <= lo[b]
      BY <1>2, <2>2, <2>5
    <3>2. lo2[b] = lo[b] /\ hi2[b] = hi[b]
      BY <2>5, <2>8
    <3>3. \A y \in {l, r, b} : lo[y] \in Int /\ hi[y] \in Int
      BY <2>3, <1>1, <1>2
    <3> QED BY <2>5, <2>8, <3>1, <3>2, <3>3
  <2>6. CASE a \notin {l, r} /\ b \in {l, r}
    <3>1. hi[a] <= lo[l] \/ hi[r] <= lo[a]
      BY <1>2, <2>2, <2>6
    <3>2. lo2[a] = lo[a] /\ hi2[a] = hi[a]
      BY <2>6, <2>8
    <3>3. \A y \in {l, r, a} : lo[y] \in Int /\ hi[y] \in Int
      BY <2>3, <1>1, <1>2
    <3> QED BY <2>6, <2>8, <3>1, <3>2, <3>3
  <2>7. CASE a \notin {l, r} /\ b \notin {l, r}
    BY <1>4, <2>1, <2>7
  <2> QED BY <2>4, <2>5, <2>6, <2>7
<1>13. Whole(heap2, top, h, lo2, hi2, Null, Null)
  <2>1. lo2[top] = lo[top] /\ hi2[top] = hi[top]
    BY <1>1, <1>2, <1>4
  <2>2. \A b \in S : lo[top] <= lo2[b] /\ hi2[b] <= hi[top]
    <3>1. lo[top] <= sep /\ sep <= hi[top]
      BY <1>1, <1>2
    <3> QED BY <1>1, <1>4, <3>1
  <2> QED BY <1>1, <1>3, <1>5, <2>1, <2>2 DEF Whole
<1>14. Chain(heap2, top, lo2, hi2, Null, Null)
  <2> SUFFICES ASSUME NEW a \in S, heap[a].leaf PROVE Linked(heap2, top, lo2, hi2, Null, Null, a)
    BY <1>3 DEF Chain
  <2> DEFINE n == heap[a].next
             q == heap[a].previous
  <2>1. /\ IF n = Null THEN hi[a] = End(hi, Null, Null, top)
           ELSE n \in S /\ heap[n].leaf /\ lo[n] = hi[a] /\ heap[n].previous = a
        /\ IF q = Null THEN lo[a] = lo[top]
           ELSE q \in S /\ heap[q].leaf /\ hi[q] = lo[a] /\ heap[q].next = a
    BY <1>1 DEF Chain, Linked
  <2>0. heap2[a].next = n /\ heap2[a].previous = q
    BY <1>3
  <2> HIDE DEF n, q
  <2>2. IF n = Null THEN hi2[a] = End(hi2, Null, Null, top)
        ELSE n \in S /\ heap2[n].leaf /\ lo2[n] = hi2[a] /\ heap2[n].previous = a
    <3>1. CASE n = Null
      <4>1. a # l
        <5>1. hi[a] = hi[top]
          BY <1>1, <2>1, <3>1
        <5>2. hi[l] < hi[r] /\ hi[r] <= hi[top] /\ hi[l] \in Int /\ hi[r] \in Int /\ hi[top] \in Int
          BY <1>1, <1>2
        <5> QED BY <5>1, <5>2
      <4>2. hi2[a] = hi[a] /\ hi[a] = hi[top] /\ hi2[top] = hi[top]
        BY <1>1, <1>2, <1>4, <2>1, <3>1, <4>1
      <4>3. hi2[a] = End(hi2, Null, Null, top)
        BY <1>1, <1>5, <4>2
      <4> QED BY <3>1, <4>3
    <3>2. CASE n # Null
      <4>1. n = r <=> a = l
        BY <1>2, <1>3, <2>1, <3>2 DEF n
      <4> QED BY <1>2, <1>3, <1>4, <2>1, <3>2, <4>1
    <3> QED BY <3>1, <3>2
  <2>3. IF q = Null THEN lo2[a] = lo2[top]
        ELSE q \in S /\ heap2[q].leaf /\ hi2[q] = lo2[a] /\ heap2[q].next = a
    <3>1. CASE q = Null
      <4>1. a # r
        BY <1>1, <1>2, <2>1, <3>1
      <4> QED BY <1>1, <1>2, <1>4, <2>1, <3>1, <4>1
    <3>2. CASE q # Null
      <4>1. q = l <=> a = r
        BY <1>2, <1>3, <2>1, <3>2 DEF q
      <4> QED BY <1>2, <1>3, <1>4, <2>1, <3>2, <4>1
    <3> QED BY <3>1, <3>2
  <2> QED BY <1>3, <2>0, <2>2, <2>3 DEF Linked
<1>15. Filled(heap2, top, Null, Null)
  <2>1. \A b \in S : b \notin {l, r} => FilledAt(heap2, top, Null, Null, b)
    <3> TAKE b \in S
    <3> HAVE b \notin {l, r}
    <3>1. FilledAt(heap, top, Null, short, b) /\ b # short /\ b # Null
      BY <1>1 DEF Filled
    <3>2. Len(heap2[b].keys) = Len(heap[b].keys) /\ heap2[b].leaf = heap[b].leaf
      BY <1>3
    <3> QED BY <3>1, <3>2 DEF FilledAt
  <2>2. FilledAt(heap2, top, Null, Null, l) /\ FilledAt(heap2, top, Null, Null, r)
    BY DEF Settled
  <2> QED BY <1>3, <2>1, <2>2 DEF Filled
<1> QED BY <1>3, <1>7, <1>9, <1>10, <1>11, <1>12, <1>13, <1>14, <1>15 DEF Resting, Tree, Pending

-----------------------------------------------------------------------------
(* Merging two neighbours. *)

\* What MergeNodes makes of the heap: r is gone, l has what r had as well, their parent p has
\* one key and one child less.
Merged(heap, heap2, p, i, l, r) ==
  /\ Heap(heap2) /\ DOMAIN heap2 = DOMAIN heap \ {r}
  /\ \A b \in DOMAIN heap2 : /\ heap2[b].leaf = heap[b].leaf
                             /\ heap2[b].next = IF b = l THEN heap[r].next ELSE heap[b].next
                             /\ heap2[b].previous = IF b = heap[r].next THEN l ELSE heap[b].previous
  /\ \A b \in DOMAIN heap2 : b \notin {p, l} =>
        /\ heap2[b].keys = heap[b].keys /\ heap2[b].values = heap[b].values
        /\ heap2[b].children = heap[b].children
  /\ heap2[p].values = heap[p].values
  /\ Len(heap2[p].keys) = Len(heap[p].keys) - 1
  /\ Len(heap2[p].children) = Len(heap[p].children) - 1
  /\ \A j \in 1..Len(heap[p].keys) - 1 :
        heap2[p].keys[j] = IF j < i THEN heap[p].keys[j] ELSE heap[p].keys[j + 1]
  /\ \A j \in 1..Len(heap[p].keys) :
        heap2[p].children[j] = IF j < i + 1 THEN heap[p].children[j] ELSE heap[p].children[j + 1]
  /\ \A c \in DOMAIN heap2 : IF heap[c].parent \in {l, r}
                             THEN heap2[c].parent = l /\ IsChild(heap2, l, c)
                             ELSE heap2[c].parent = heap[c].parent

\* The function without what it has at r.
Without(old, new, r) == new = [a \in DOMAIN old \ {r} |-> old[a]]

\* Merging two neighbours keeps the tree, and may leave their parent a key short.
LEMMA MergeKeeps ==
  ASSUME NEW heap, NEW heap2, NEW top, NEW h, NEW lo, NEW hi, NEW short,
         Resting(heap, top, h, lo, hi, Null, short),
         NEW p \in DOMAIN heap, ~heap[p].leaf, NEW i \in 1..Len(heap[p].keys),
         NEW l, NEW r, l = heap[p].children[i], r = heap[p].children[i + 1], short \in {l, r},
         Merged(heap, heap2, p, i, l, r),
         NEW h2, NEW lo2, NEW hi1, NEW hi2,
         Without(h, h2, r), Without(lo, lo2, r), Replaced(hi, hi1, l, hi[r]), Without(hi1, hi2, r),
         Settled(heap2, top, h2, lo2, hi2, l)
  PROVE  Resting(heap2, top, h2, lo2, hi2, Null, p)
<1> DEFINE S == DOMAIN heap
           B == S \ {r}
<1>1. /\ Heap(heap) /\ Kinds(heap, h) /\ Ordered(heap, lo, hi)
      /\ Down(heap, h, lo, hi, Null, Null) /\ Up(heap, top, Null) /\ Apart(heap, h, lo, hi)
      /\ Whole(heap, top, h, lo, hi, Null, Null) /\ Chain(heap, top, lo, hi, Null, Null)
      /\ Filled(heap, top, Null, short)
      /\ \A b \in S : /\ b # Null /\ End(hi, Null, Null, b) = hi[b]
                      /\ lo[b] \in Int /\ hi[b] \in Int /\ h[b] \in Nat
                      /\ lo[b] < hi[b] /\ lo[top] <= lo[b] /\ hi[b] <= hi[top] /\ h[b] <= h[top]
      /\ top \in S
  BY Parts
<1>2. /\ l \in S /\ r \in S /\ l # r /\ p # l /\ p # r /\ l # top /\ r # top
      /\ heap[l].parent = p /\ heap[r].parent = p /\ h[l] = h[r] /\ h[l] + 1 = h[p]
      /\ lo[l] = ChildLow(heap, lo, p, i) /\ hi[l] = heap[p].keys[i] /\ lo[r] = heap[p].keys[i]
      /\ hi[r] = ChildHigh(heap, hi, p, i + 1)
      /\ heap[l].leaf <=> heap[r].leaf
      /\ heap[l].leaf => heap[l].next = r /\ heap[r].previous = l
  BY Neighbours
<1>3. /\ Heap(heap2) /\ DOMAIN heap2 = B
      /\ \A b \in B : /\ heap2[b].leaf = heap[b].leaf
                      /\ heap2[b].next = IF b = l THEN heap[r].next ELSE heap[b].next
                      /\ heap2[b].previous = IF b = heap[r].next THEN l ELSE heap[b].previous
      /\ \A b \in B : b \notin {p, l} =>
            /\ heap2[b].keys = heap[b].keys /\ heap2[b].values = heap[b].values
            /\ heap2[b].children = heap[b].children
      /\ heap2[p].values = heap[p].values
      /\ Len(heap2[p].keys) = Len(heap[p].keys) - 1
      /\ Len(heap2[p].children) = Len(heap[p].children) - 1
      /\ \A j \in 1..Len(heap[p].keys) - 1 :
            heap2[p].keys[j] = IF j < i THEN heap[p].keys[j] ELSE heap[p].keys[j + 1]
      /\ \A j \in 1..Len(heap[p].keys) :
            heap2[p].children[j] = IF j < i + 1 THEN heap[p].children[j] ELSE heap[p].children[j + 1]
      /\ \A c \in B : heap[c].parent \in {l, r} => heap2[c].parent = l /\ IsChild(heap2, l, c)
      /\ \A c \in B : heap[c].parent \notin {l, r} => heap2[c].parent = heap[c].parent
  BY DEF Merged
<1>4. /\ h2 \in [B -> Nat] /\ lo2 \in [B -> Int] /\ hi2 \in [B -> Int]
      /\ \A b \in B : /\ h2[b] = h[b] /\ lo2[b] = lo[b]
                      /\ hi2[b] = IF b = l THEN hi[r] ELSE hi[b]
  <2>1. lo \in [S -> Int] /\ hi \in [S -> Int] /\ h \in [S -> Nat]
    BY <1>1 DEF Ordered, Kinds
  <2>2. h2 = [b \in B |-> h[b]] /\ lo2 = [b \in B |-> lo[b]]
    BY <2>1 DEF Without
  <2>3. hi1 \in [S -> Int] /\ \A b \in S : hi1[b] = IF b = l THEN hi[r] ELSE hi[b]
    BY <1>2, <2>1 DEF Replaced
  <2>4. hi2 = [b \in B |-> hi1[b]]
    BY <2>3 DEF Without
  <2> QED BY <2>1, <2>2, <2>3, <2>4
<1>5. \A b \in S : b # Null /\ End(hi2, Null, Null, b) = hi2[b]
  BY <1>1 DEF End
<1>6. /\ Len(heap[p].keys) \in Nat /\ Len(heap[p].children) = Len(heap[p].keys) + 1
      /\ \A j \in 1..Len(heap[p].keys) + 1 : Hangs(heap, h, lo, hi, Null, Null, p, j)
      /\ \A j, k \in 1..Len(heap[p].keys) + 1 : heap[p].children[j] = heap[p].children[k] => j = k
  BY <1>1, ChildrenApart
<1>7. Kinds(heap2, h2)
  <2>1. \A b \in B : b \notin {l, p} => KindOf(heap2, h2, b)
    <3> TAKE b \in B
    <3> HAVE b \notin {l, p}
    <3>1. KindOf(heap, h, b)
      BY <1>1 DEF Kinds
    <3>2. /\ heap2[b].leaf = heap[b].leaf /\ heap2[b].next = heap[b].next
          /\ heap2[b].keys = heap[b].keys
          /\ heap2[b].values = heap[b].values /\ heap2[b].children = heap[b].children
          /\ h2[b] = h[b]
      BY <1>3, <1>4
    <3>3. ~heap[b].leaf => heap2[b].previous = heap[b].previous
      <4> SUFFICES ASSUME ~heap[b].leaf, b = heap[r].next PROVE FALSE
        BY <1>3
      <4>1. heap[r].leaf
        BY <1>1, <1>2 DEF Kinds, KindOf
      <4>2. heap[r].next # Null
        BY <1>1
      <4>3. heap[heap[r].next].leaf
        BY <1>1, <1>2, <4>1, <4>2 DEF Chain, Linked
      <4> QED BY <4>3
    <3> QED BY <3>1, <3>2, <3>3 DEF KindOf
  <2>2. KindOf(heap2, h2, p)
    <3>1. KindOf(heap, h, p) /\ p \in B
      BY <1>1, <1>2 DEF Kinds
    <3>2. heap2[p].leaf = heap[p].leaf /\ heap2[p].next = heap[p].next /\ h2[p] = h[p]
      BY <1>2, <1>3, <1>4
    <3>3. p # heap[r].next
      <4> SUFFICES ASSUME p = heap[r].next PROVE FALSE
        OBVIOUS
      <4>1. heap[r].leaf
        BY <1>1, <1>2 DEF Kinds, KindOf
      <4>2. heap[r].next # Null
        BY <1>1
      <4>3. Linked(heap, top, lo, hi, Null, Null, r)
        BY <1>1, <1>2, <4>1 DEF Chain
      <4>4. heap[heap[r].next].leaf
        BY <4>2, <4>3 DEF Linked
      <4> QED BY <4>4
    <3>4. heap2[p].previous = heap[p].previous
      BY <1>3, <3>1, <3>3
    <3> QED BY <1>3, <1>6, <3>1, <3>2, <3>4 DEF KindOf
  <2>3. KindOf(heap2, h2, l)
    BY DEF Settled
  <2> QED BY <1>2, <1>3, <1>4, <2>1, <2>2, <2>3 DEF Kinds
<1>8. InOrder(heap2, lo2, hi2, p)
  <2> DEFINE ks == heap[p].keys
             n  == Len(heap[p].keys)
             ms == heap2[p].keys
  <2>1. lo2[p] = lo[p] /\ hi2[p] = hi[p] /\ lo[p] < hi[p]
    BY <1>1, <1>2, <1>4
  <2>2. /\ \A j, k \in 1..n : j < k => ks[j] < ks[k]
        /\ \A j \in 1..n : lo[p] < ks[j] /\ ks[j] < hi[p] /\ lo[p] <= ks[j]
    BY <1>1 DEF Ordered, InOrder
  <2>3. Len(ms) = n - 1 /\ n \in Nat /\ \A j \in 1..n - 1 : ms[j] = IF j < i THEN ks[j] ELSE ks[j + 1]
    BY <1>3, <1>6
  <2> HIDE DEF ks, ms, n
  <2>4. \A j \in 1..n - 1 : j \in 1..n /\ j + 1 \in 1..n
    BY <2>3
  <2>5. \A j, k \in 1..n - 1 : j < k => ms[j] < ms[k]
    BY <2>2, <2>3, <2>4
  <2>6. \A j \in 1..n - 1 : lo[p] < ms[j] /\ ms[j] < hi[p] /\ lo[p] <= ms[j]
    BY <2>2, <2>3, <2>4
  <2> QED BY <2>1, <2>3, <2>5, <2>6 DEF InOrder, ms
<1>9. Ordered(heap2, lo2, hi2)
  <2>1. \A b \in B : b \notin {l, p} => InOrder(heap2, lo2, hi2, b)
    <3> TAKE b \in B
    <3> HAVE b \notin {l, p}
    <3>1. InOrder(heap, lo, hi, b)
      BY <1>1 DEF Ordered
    <3>2. /\ heap2[b].keys = heap[b].keys /\ heap2[b].leaf = heap[b].leaf
          /\ lo2[b] = lo[b] /\ hi2[b] = hi[b]
      BY <1>3, <1>4
    <3> QED BY <3>1, <3>2 DEF InOrder
  <2>2. InOrder(heap2, lo2, hi2, l)
    BY DEF Settled
  <2> QED BY <1>3, <1>4, <1>8, <2>1, <2>2 DEF Ordered
<1>10. Down(heap2, h2, lo2, hi2, Null, Null)
  <2> SUFFICES ASSUME NEW b \in B, ~heap[b].leaf, NEW j \in 1..Len(heap2[b].children)
               PROVE  Hangs(heap2, h2, lo2, hi2, Null, Null, b, j)
    BY <1>3 DEF Down
  <2>1. CASE b = l
    BY <1>3, <2>1 DEF Settled
  <2>2. CASE b # l /\ b # p
    <3> DEFINE c == heap[b].children[j]
    <3>1. /\ heap2[b].children = heap[b].children /\ heap2[b].keys = heap[b].keys
          /\ lo2[b] = lo[b] /\ hi2[b] = hi[b] /\ h2[b] = h[b]
      BY <1>3, <1>4, <2>2
    <3>2. /\ c \in S /\ heap[c].parent = b /\ h[c] + 1 = h[b]
          /\ lo[c] = ChildLow(heap, lo, b, j) /\ End(hi, Null, Null, c) = ChildHigh(heap, hi, b, j)
      BY <1>1, <3>1 DEF Down, Hangs
    <3> HIDE DEF c
    <3>3. c \notin {l, r} /\ c \in B /\ heap2[c].parent = b
      BY <1>2, <1>3, <2>2, <3>2
    <3>4. lo2[c] = lo[c] /\ End(hi2, Null, Null, c) = End(hi, Null, Null, c) /\ h2[c] = h[c]
      <4>1. c \in S /\ c \in B /\ c # l
        BY <3>2, <3>3
      <4>2. End(hi2, Null, Null, c) = hi2[c] /\ End(hi, Null, Null, c) = hi[c]
        BY <1>1, <1>5, <4>1
      <4> QED BY <1>4, <4>1, <4>2
    <3> QED BY <1>3, <3>1, <3>2, <3>3, <3>4 DEF Hangs, ChildLow, ChildHigh, c
  <2>3. CASE b = p
    <3> DEFINE n == Len(heap[p].keys)
               k == IF j < i + 1 THEN j ELSE j + 1
               c == heap[p].children[k]
    <3>1. j \in 1..n /\ heap2[p].children[j] = c /\ lo2[p] = lo[p] /\ hi2[p] = hi[p] /\ h2[p] = h[p]
      <4>1. j \in 1..n
        BY <1>3, <1>6, <2>3
      <4> QED BY <1>2, <1>3, <1>4, <4>1
    <3>2. k \in 1..n + 1 /\ k # i + 1 /\ (k = i <=> j = i)
      BY <1>6, <3>1
    <3>3. i \in 1..n + 1 /\ i + 1 \in 1..n + 1 /\ n \in Nat /\ i \in Int /\ j \in Int
      BY <1>6, <3>1
    <3> HIDE DEF n
    <3>4. /\ c \in S /\ heap[c].parent = p /\ h[c] + 1 = h[p]
          /\ lo[c] = ChildLow(heap, lo, p, k) /\ hi[c] = ChildHigh(heap, hi, p, k)
      <4> HIDE DEF k
      <4>1. Hangs(heap, h, lo, hi, Null, Null, p, k)
        BY <1>6, <3>2 DEF n
      <4> QED BY <1>1, <4>1 DEF Hangs
    <3>5. c # r /\ (c = l <=> j = i)
      <4> HIDE DEF k
      <4>1. c = r => k = i + 1
        BY <1>6, <3>2, <3>3 DEF n
      <4>2. c = l <=> k = i
        BY <1>6, <3>2, <3>3 DEF n
      <4> QED BY <3>2, <4>1, <4>2
    <3>6. heap2[c].parent = p /\ h2[c] = h[c] /\ lo2[c] = lo[c] /\ c \in B
      <4> HIDE DEF c
      <4> QED BY <1>2, <1>3, <1>4, <3>4, <3>5, SMTT(20)
    <3>7. lo2[c] = ChildLow(heap2, lo2, p, j)
      <4>1. CASE j = 1
        <5>1. k = 1
          BY <3>3, <4>1
        <5> HIDE DEF c, k
        <5> QED BY <3>1, <3>4, <3>6, <4>1, <5>1 DEF ChildLow
      <4>2. CASE j # 1
        <5>1. j - 1 \in 1..n - 1 /\ k # 1
          BY <3>1, <3>3, <4>2
        <5>2. heap2[p].keys[j - 1] = IF j - 1 < i THEN heap[p].keys[j - 1] ELSE heap[p].keys[j]
          BY <1>3, <5>1 DEF n
        <5>3. k - 1 = IF j - 1 < i THEN j - 1 ELSE j
          BY <3>3
        <5>4. heap2[p].keys[j - 1] = heap[p].keys[k - 1]
          <6> HIDE DEF k
          <6> QED BY <5>2, <5>3
        <5> HIDE DEF c, k
        <5> QED BY <3>4, <3>6, <4>2, <5>1, <5>4 DEF ChildLow
      <4> QED BY <4>1, <4>2
    <3>8. End(hi2, Null, Null, c) = ChildHigh(heap2, hi2, p, j)
      <4>0. Len(heap2[p].keys) = n - 1
        BY <1>3 DEF n
      <4>1. CASE j = i
        <5>1. c = l /\ hi2[c] = hi[r]
          <6> HIDE DEF c
          <6> QED BY <1>2, <1>4, <3>5, <3>6, <4>1
        <5>2. CASE i = n
          <6>1. hi[r] = hi[p]
            BY <1>2, <5>2, <3>3 DEF ChildHigh, n
          <6>2. j = n - 1 + 1
            BY <3>3, <4>1, <5>2
          <6> HIDE DEF c
          <6> QED BY <1>5, <3>1, <3>4, <4>0, <5>1, <6>1, <6>2 DEF ChildHigh
        <5>3. CASE i # n
          <6>1. i + 1 # n + 1 /\ j \in 1..n - 1 /\ j # n - 1 + 1 /\ ~(j < i)
            BY <3>3, <3>1, <4>1, <5>3
          <6>2. hi[r] = heap[p].keys[i + 1] /\ heap2[p].keys[j] = heap[p].keys[i + 1]
            BY <1>2, <1>3, <4>1, <6>1 DEF ChildHigh, n
          <6> HIDE DEF c
          <6> QED BY <1>5, <3>4, <4>0, <5>1, <6>1, <6>2 DEF ChildHigh
        <5> QED BY <5>2, <5>3
      <4>2. CASE j # i
        <5>1. hi2[c] = hi[c]
          <6> HIDE DEF c
          <6> QED BY <1>4, <3>5, <3>6, <4>2
        <5>2. CASE j = n
          <6>1. k = n + 1 /\ j = n - 1 + 1
            BY <3>1, <3>3, <4>2, <5>2
          <6> HIDE DEF c, k
          <6> QED BY <1>5, <3>1, <3>4, <4>0, <5>1, <6>1 DEF ChildHigh, n
        <5>3. CASE j # n
          <6>1. k # n + 1 /\ j \in 1..n - 1 /\ j # n - 1 + 1
            BY <3>1, <3>3, <5>3
          <6>2. heap2[p].keys[j] = heap[p].keys[k]
            BY <1>3, <4>2, <6>1, <3>3 DEF n
          <6> HIDE DEF c, k
          <6> QED BY <1>5, <3>4, <4>0, <5>1, <6>1, <6>2 DEF ChildHigh, n
        <5> QED BY <5>2, <5>3
      <4> QED BY <4>1, <4>2
    <3> HIDE DEF c
    <3>9. Hangs(heap2, h2, lo2, hi2, Null, Null, p, j)
      BY <1>3, <3>1, <3>4, <3>6, <3>7, <3>8 DEF Hangs
    <3> QED BY <2>3, <3>9
  <2> QED BY <2>1, <2>2, <2>3
<1>11. Up(heap2, top, Null)
  <2> SUFFICES ASSUME NEW c \in B
               PROVE  IF c \in {top, Null} THEN heap2[c].parent = Null
                      ELSE IsChild(heap2, heap2[c].parent, c)
    BY <1>3 DEF Up
  <2>1. IF c \in {top, Null} THEN heap[c].parent = Null ELSE IsChild(heap, heap[c].parent, c)
    BY <1>1 DEF Up
  <2>2. CASE c = top
    BY <1>1, <1>2, <1>3, <2>1, <2>2
  <2>3. CASE c # top /\ heap[c].parent \in {l, r}
    BY <1>1, <1>3, <2>3
  <2>4. CASE c # top /\ heap[c].parent \notin {l, r}
    <3>1. IsChild(heap, heap[c].parent, c) /\ heap2[c].parent = heap[c].parent /\ c # Null
      BY <1>1, <1>3, <2>1, <2>4
    <3>2. CASE heap[c].parent # p
      <4>1. heap2[heap[c].parent].children = heap[heap[c].parent].children
        BY <1>3, <2>4, <3>1, <3>2 DEF IsChild
      <4> QED BY <1>3, <2>4, <3>1, <4>1 DEF IsChild
    <3>3. CASE heap[c].parent = p
      <4> DEFINE n == Len(heap[p].keys)
      <4>1. PICK k \in 1..n + 1 : heap[p].children[k] = c
        BY <1>6, <3>1, <3>3 DEF IsChild
      <4>2. k # i + 1
        BY <4>1
      <4> DEFINE j == IF k < i + 1 THEN k ELSE k - 1
      <4>3. j \in 1..n /\ k = IF j < i + 1 THEN j ELSE j + 1
        BY <1>6, <4>2
      <4> HIDE DEF j
      <4>4. heap2[p].children[j] = c
        BY <1>3, <4>1, <4>3
      <4>5. Len(heap2[p].children) = n /\ p \in B
        BY <1>2, <1>3, <1>6
      <4>6. ~heap2[p].leaf /\ p \in DOMAIN heap2
        BY <1>3, <4>5
      <4>7. IsChild(heap2, p, c)
        BY <4>3, <4>4, <4>5, <4>6 DEF IsChild
      <4> QED BY <1>1, <3>1, <3>3, <4>7, <2>4
    <3> QED BY <3>2, <3>3
  <2> QED BY <2>2, <2>3, <2>4
<1>12. Apart(heap2, h2, lo2, hi2)
  <2> SUFFICES ASSUME NEW a \in B, NEW b \in B, a # b, h[a] = h[b]
               PROVE  hi2[a] <= lo[b] \/ hi2[b] <= lo[a]
    BY <1>3, <1>4 DEF Apart
  <2>1. \A x, y \in S : x # y /\ h[x] = h[y] => hi[x] <= lo[y] \/ hi[y] <= lo[x]
    BY <1>1 DEF Apart
  <2>2. \A x \in S : x \notin {l, r} /\ h[x] = h[l] => hi[x] <= lo[l] \/ hi[r] <= lo[x]
    <3> TAKE x \in S
    <3> HAVE x \notin {l, r} /\ h[x] = h[l]
    <3>1. (hi[x] <= lo[l] \/ hi[l] <= lo[x]) /\ (hi[x] <= lo[r] \/ hi[r] <= lo[x])
      BY <1>2, <2>1
    <3>2. hi[l] = lo[r] /\ \A y \in {l, r, x} : lo[y] \in Int /\ hi[y] \in Int /\ lo[y] < hi[y]
      BY <1>1, <1>2
    <3> QED BY <3>1, <3>2
  <2>3. CASE a = l
    BY <1>2, <1>4, <2>2, <2>3
  <2>4. CASE b = l
    BY <1>2, <1>4, <2>2, <2>4
  <2>5. CASE a # l /\ b # l
    BY <1>4, <2>1, <2>5
  <2> QED BY <2>3, <2>4, <2>5
<1>13. Whole(heap2, top, h2, lo2, hi2, Null, Null)
  <2>1. top \in B /\ top # Null /\ lo2[top] = lo[top] /\ hi2[top] = hi[top] /\ h2[top] = h[top]
    BY <1>1, <1>2, <1>4
  <2>2. \A b \in B : lo[top] <= lo2[b] /\ hi2[b] <= hi[top] /\ h2[b] <= h[top]
    BY <1>1, <1>2, <1>4
  <2> QED BY <1>3, <1>5, <2>1, <2>2 DEF Whole
<1>14. Chain(heap2, top, lo2, hi2, Null, Null)
  <2> SUFFICES ASSUME NEW a \in B, heap[a].leaf PROVE Linked(heap2, top, lo2, hi2, Null, Null, a)
    BY <1>3 DEF Chain
  <2>1. \A x \in S : heap[x].leaf =>
          LET n == heap[x].next
              q == heap[x].previous IN
          /\ IF n = Null THEN hi[x] = hi[top]
             ELSE n \in S /\ heap[n].leaf /\ lo[n] = hi[x] /\ heap[n].previous = x
          /\ IF q = Null THEN lo[x] = lo[top]
             ELSE q \in S /\ heap[q].leaf /\ hi[q] = lo[x] /\ heap[q].next = x
    BY <1>1 DEF Chain, Linked
  <2>2. top \in B /\ End(hi2, Null, Null, top) = hi[top] /\ lo2[top] = lo[top]
    BY <1>1, <1>2, <1>4, <1>5, SMTT(20)
  <2> DEFINE n == heap2[a].next
             q == heap2[a].previous
  <2>3. IF n = Null THEN hi2[a] = hi[top]
        ELSE n \in B /\ heap2[n].leaf /\ lo2[n] = hi2[a] /\ heap2[n].previous = a
    <3>1. CASE a = l
      <4>1. n = heap[r].next /\ hi2[a] = hi[r] /\ heap[r].leaf
        BY <1>2, <1>3, <1>4, <3>1
      <4>2. IF n = Null THEN hi[r] = hi[top]
            ELSE n \in S /\ heap[n].leaf /\ lo[n] = hi[r] /\ heap[n].previous = r
        BY <1>2, <2>1, <4>1
      <4>3. n # Null => n # r
        BY <1>1, <1>2, <4>2
      <4> HIDE DEF n
      <4> QED BY <1>3, <1>4, <3>1, <4>1, <4>2, <4>3, SMTT(20)
    <3>2. CASE a # l
      <4>1. n = heap[a].next /\ hi2[a] = hi[a] /\ a # r
        BY <1>3, <1>4, <3>2
      <4>2. IF n = Null THEN hi[a] = hi[top]
            ELSE n \in S /\ heap[n].leaf /\ lo[n] = hi[a] /\ heap[n].previous = a
        BY <2>1, <4>1
      <4>3. n # Null => n # r
        BY <1>2, <3>2, <4>2
      <4>4. n # Null => n # heap[r].next
        <5> SUFFICES ASSUME n # Null, n = heap[r].next PROVE FALSE
          OBVIOUS
        <5>1. heap[r].leaf
          BY <1>1, <1>2 DEF Kinds, KindOf
        <5>2. heap[n].previous = r
          BY <1>2, <2>1, <5>1
        <5> QED BY <4>1, <4>2, <5>2
      <4> HIDE DEF n
      <4>5. CASE n = Null
        BY <4>1, <4>2, <4>5
      <4>6. CASE n # Null
        <5>1. n \in B /\ heap[n].leaf /\ lo[n] = hi[a] /\ heap[n].previous = a
          BY <4>2, <4>3, <4>6
        <5>2. heap2[n].leaf /\ heap2[n].previous = a /\ lo2[n] = lo[n]
          BY <1>3, <1>4, <4>4, <4>6, <5>1
        <5> QED BY <4>1, <4>6, <5>1, <5>2
      <4> QED BY <4>5, <4>6
    <3> QED BY <3>1, <3>2
  <2>4. IF q = Null THEN lo2[a] = lo[top]
        ELSE q \in B /\ heap2[q].leaf /\ hi2[q] = lo2[a] /\ heap2[q].next = a
    <3>1. CASE a = heap[r].next
      <4>1. heap[r].leaf /\ a # Null
        BY <1>1, <1>2, <3>1 DEF Kinds, KindOf
      <4>2. lo[a] = hi[r]
        BY <1>2, <2>1, <3>1, <4>1
      <4>3. q = l /\ l \in B /\ heap2[l].leaf /\ hi2[l] = hi[r] /\ heap2[l].next = a
        <5>1. l \in B /\ q = l /\ hi2[l] = hi[r]
          <6>1. heap2[a].previous = l
            BY <1>3, <3>1
          <6>2. l \in B
            BY <1>2
          <6>3. hi2[l] = hi[r]
            BY <1>4, <6>2
          <6> QED BY <6>1, <6>2, <6>3
        <5>2. heap2[l].leaf /\ heap2[l].next = a
          BY <1>2, <1>3, <3>1, <4>1, <5>1
        <5> QED BY <5>1, <5>2
      <4>4. l # Null /\ lo2[a] = lo[a]
        BY <1>1, <1>2, <1>4
      <4> QED BY <4>2, <4>3, <4>4
    <3>2. CASE a # heap[r].next
      <4>1. q = heap[a].previous
        BY <1>3, <3>2
      <4>2. IF q = Null THEN lo[a] = lo[top]
            ELSE q \in S /\ heap[q].leaf /\ hi[q] = lo[a] /\ heap[q].next = a
        BY <2>1, <4>1
      <4>3. q # Null => q # r
        BY <3>2, <4>2
      <4>4. q # Null => q # l
        <5> SUFFICES ASSUME q # Null, q = l PROVE FALSE
          OBVIOUS
        <5> QED BY <1>2, <4>2
      <4> HIDE DEF q
      <4> QED BY <1>3, <1>4, <4>2, <4>3, <4>4
    <3> QED BY <3>1, <3>2
  <2> HIDE DEF n, q
  <2> QED BY <1>3, <2>2, <2>3, <2>4 DEF Linked, n, q
<1>15. Filled(heap2, top, Null, p)
  <2>1. \A b \in B : b \notin {l, p} => FilledAt(heap2, top, Null, p, b)
    <3> TAKE b \in B
    <3> HAVE b \notin {l, p}
    <3>1. FilledAt(heap, top, Null, short, b) /\ b # short /\ b # Null
      BY <1>1 DEF Filled
    <3>2. heap2[b].keys = heap[b].keys /\ heap2[b].leaf = heap[b].leaf
      BY <1>3
    <3> QED BY <3>1, <3>2 DEF FilledAt
  <2>2. FilledAt(heap2, top, Null, p, l)
    <3>1. FilledAt(heap2, top, Null, Null, l) /\ l # p /\ l # Null
      BY <1>1, <1>2 DEF Settled
    <3> QED BY <3>1 DEF FilledAt
  <2>3. FilledAt(heap2, top, Null, p, p)
    <3>1. FilledAt(heap, top, Null, short, p) /\ p # short /\ p # Null
      BY <1>1, <1>2 DEF Filled
    <3>2. Len(heap2[p].keys) = Len(heap[p].keys) - 1 /\ Len(heap[p].keys) \in Nat
          /\ heap2[p].leaf = heap[p].leaf
      BY <1>2, <1>3, <1>6
    <3>3. MaxKeys \in Int /\ MinimumOf(heap[p].leaf) \in Int
      BY OrderAssumption DEF MaxKeys, MinimumOf, MinLeafKeys, MinInternalKeys
    <3> QED BY <3>1, <3>2, <3>3 DEF FilledAt
  <2> QED BY <1>2, <1>3, <2>1, <2>2, <2>3 DEF Filled
<1> QED BY <1>3, <1>7, <1>9, <1>10, <1>11, <1>12, <1>13, <1>14, <1>15 DEF Resting, Tree, Pending

-----------------------------------------------------------------------------
(* Splitting a node. *)

\* The function with one place more.
With(old, new, f, x) == new = [a \in DOMAIN old \cup {f} |-> IF a = f THEN x ELSE old[a]]

\* What splitting makes of the heap: the upper part of c is now in f, to the right of c in
\* the leaf chain if they are leaves, and no parent has f yet.
Split(heap, heap2, c, f) ==
  /\ Heap(heap2) /\ DOMAIN heap2 = DOMAIN heap \cup {f}
  /\ \A b \in DOMAIN heap :
        /\ heap2[b].leaf = heap[b].leaf
        /\ heap2[b].next = IF b = c /\ heap[c].leaf THEN f ELSE heap[b].next
        /\ heap2[b].previous = IF b = heap[c].next THEN f ELSE heap[b].previous
  /\ \A b \in DOMAIN heap : b # c =>
        /\ heap2[b].keys = heap[b].keys /\ heap2[b].values = heap[b].values
        /\ heap2[b].children = heap[b].children
  /\ heap2[f].leaf = heap[c].leaf /\ heap2[f].next = heap[c].next /\ heap2[f].parent = Null
  /\ heap2[f].previous = IF heap[c].leaf THEN c ELSE Null
  /\ \A b \in DOMAIN heap : IF heap[b].parent = c THEN IsChild(heap2, heap2[b].parent, b)
                            ELSE heap2[b].parent = heap[b].parent

\* Splitting a node keeps the tree, with the right half pending.
LEMMA SplitKeeps ==
  ASSUME NEW heap, NEW heap2, NEW top, NEW h, NEW lo, NEW hi, NEW c \in DOMAIN heap,
         Resting(heap, top, h, lo, hi, c, Null),
         NEW f \in Nat \ {Null}, f \notin DOMAIN heap,
         NEW sep \in Int, lo[c] < sep, sep < hi[c],
         Split(heap, heap2, c, f),
         NEW h2, NEW lo2, NEW hi1, NEW hi2,
         With(h, h2, f, h[c]), With(lo, lo2, f, sep), With(hi, hi1, f, hi[c]), Replaced(hi1, hi2, c, sep),
         Settled(heap2, Null, h2, lo2, hi2, c), Settled(heap2, Null, h2, lo2, hi2, f)
  PROVE  Tree(heap2, top, h2, lo2, hi2, c, f, Null, Null)
<1> DEFINE S == DOMAIN heap
           B == S \cup {f}
<1>1. /\ Heap(heap) /\ Kinds(heap, h) /\ Ordered(heap, lo, hi)
      /\ Down(heap, h, lo, hi, Null, Null) /\ Up(heap, top, Null) /\ Apart(heap, h, lo, hi)
      /\ Whole(heap, top, h, lo, hi, Null, Null) /\ Chain(heap, top, lo, hi, Null, Null)
      /\ Filled(heap, top, c, Null)
      /\ \A b \in S : /\ b # Null /\ b # f /\ End(hi, Null, Null, b) = hi[b]
                      /\ lo[b] \in Int /\ hi[b] \in Int /\ h[b] \in Nat
                      /\ lo[b] < hi[b] /\ lo[top] <= lo[b] /\ hi[b] <= hi[top] /\ h[b] <= h[top]
      /\ top \in S
  BY Parts
<1>2. /\ Heap(heap2) /\ DOMAIN heap2 = B
      /\ \A b \in S : /\ heap2[b].leaf = heap[b].leaf
                      /\ heap2[b].next = IF b = c /\ heap[c].leaf THEN f ELSE heap[b].next
                      /\ heap2[b].previous = IF b = heap[c].next THEN f ELSE heap[b].previous
      /\ \A b \in S : b # c => /\ heap2[b].keys = heap[b].keys /\ heap2[b].values = heap[b].values
                               /\ heap2[b].children = heap[b].children
      /\ heap2[f].leaf = heap[c].leaf /\ heap2[f].next = heap[c].next /\ heap2[f].parent = Null
      /\ heap2[f].previous = IF heap[c].leaf THEN c ELSE Null
      /\ \A b \in S : heap[b].parent = c => IsChild(heap2, heap2[b].parent, b)
      /\ \A b \in S : heap[b].parent # c => heap2[b].parent = heap[b].parent
  BY DEF Split
<1>3. /\ h2 \in [B -> Nat] /\ lo2 \in [B -> Int] /\ hi2 \in [B -> Int]
      /\ \A b \in S : /\ h2[b] = h[b] /\ lo2[b] = lo[b]
                      /\ hi2[b] = IF b = c THEN sep ELSE hi[b]
      /\ h2[f] = h[c] /\ lo2[f] = sep /\ hi2[f] = hi[c]
  <2>1. lo \in [S -> Int] /\ hi \in [S -> Int] /\ h \in [S -> Nat]
    BY <1>1 DEF Ordered, Kinds
  <2>2. /\ h2 = [b \in B |-> IF b = f THEN h[c] ELSE h[b]]
        /\ lo2 = [b \in B |-> IF b = f THEN sep ELSE lo[b]]
    BY <2>1 DEF With
  <2>3. hi1 = [b \in B |-> IF b = f THEN hi[c] ELSE hi[b]]
    BY <2>1 DEF With
  <2>4. hi2 = [hi1 EXCEPT ![c] = sep]
    BY DEF Replaced
  <2> QED BY <1>1, <2>1, <2>2, <2>3, <2>4
<1>4. \A b \in S : b # c => End(hi2, c, f, b) = hi[b]
  BY <1>3 DEF End
<1>5. End(hi2, c, f, c) = hi[c] /\ End(hi2, c, f, f) = hi[c]
  BY <1>1, <1>3 DEF End
<1>6. Kinds(heap2, h2)
  <2>1. \A b \in S : b # c => KindOf(heap2, h2, b)
    <3> TAKE b \in S
    <3> HAVE b # c
    <3>1. KindOf(heap, h, b)
      BY <1>1 DEF Kinds
    <3>2. /\ heap2[b].leaf = heap[b].leaf /\ heap2[b].next = heap[b].next
          /\ heap2[b].keys = heap[b].keys
          /\ heap2[b].values = heap[b].values /\ heap2[b].children = heap[b].children
          /\ h2[b] = h[b]
      BY <1>2, <1>3
    <3>3. ~heap[b].leaf => heap2[b].previous = heap[b].previous
      <4> SUFFICES ASSUME ~heap[b].leaf, b = heap[c].next PROVE FALSE
        BY <1>2
      <4>1. heap[c].leaf /\ heap[c].next # Null
        BY <1>1 DEF Kinds, KindOf
      <4>2. Linked(heap, top, lo, hi, Null, Null, c)
        BY <1>1, <4>1 DEF Chain
      <4> QED BY <4>1, <4>2 DEF Linked
    <3> QED BY <3>1, <3>2, <3>3 DEF KindOf
  <2>2. KindOf(heap2, h2, c) /\ KindOf(heap2, h2, f)
    BY DEF Settled
  <2> QED BY <1>2, <1>3, <2>1, <2>2 DEF Kinds
<1>7. Ordered(heap2, lo2, hi2)
  <2>1. \A b \in S : b # c => InOrder(heap2, lo2, hi2, b)
    <3> TAKE b \in S
    <3> HAVE b # c
    <3>1. InOrder(heap, lo, hi, b)
      BY <1>1 DEF Ordered
    <3>2. /\ heap2[b].keys = heap[b].keys /\ heap2[b].leaf = heap[b].leaf
          /\ lo2[b] = lo[b] /\ hi2[b] = hi[b]
      BY <1>2, <1>3
    <3> QED BY <3>1, <3>2 DEF InOrder
  <2>2. InOrder(heap2, lo2, hi2, c) /\ InOrder(heap2, lo2, hi2, f)
    BY DEF Settled
  <2> QED BY <1>2, <1>3, <2>1, <2>2 DEF Ordered
<1>8. Down(heap2, h2, lo2, hi2, c, f)
  <2> SUFFICES ASSUME NEW b \in B, ~heap2[b].leaf, NEW j \in 1..Len(heap2[b].children)
               PROVE  Hangs(heap2, h2, lo2, hi2, c, f, b, j)
    BY <1>2 DEF Down
  <2> DEFINE x == heap2[b].children[j]
  <2>1. CASE b \in {c, f}
    <3>1. Hangs(heap2, h2, lo2, hi2, Null, Null, b, j)
      BY <2>1 DEF Settled
    <3>2. x \in B /\ h2[x] + 1 = h[c]
      BY <1>2, <1>3, <2>1, <3>1 DEF Hangs
    <3> HIDE DEF x
    <3>3. x # c /\ x # Null
      BY <1>1, <1>3, <3>2
    <3>4. End(hi2, c, f, x) = End(hi2, Null, Null, x)
      BY <3>3 DEF End
    <3> QED BY <3>1, <3>4 DEF Hangs, x
  <2>2. CASE b \notin {c, f}
    <3>1. /\ b \in S /\ heap2[b].children = heap[b].children /\ heap2[b].keys = heap[b].keys
          /\ lo2[b] = lo[b] /\ hi2[b] = hi[b] /\ h2[b] = h[b] /\ ~heap[b].leaf
      BY <1>2, <1>3, <2>2
    <3>2. /\ x \in S /\ heap[x].parent = b /\ h[x] + 1 = h[b]
          /\ lo[x] = ChildLow(heap, lo, b, j) /\ End(hi, Null, Null, x) = ChildHigh(heap, hi, b, j)
      BY <1>1, <3>1 DEF Down, Hangs
    <3> HIDE DEF x
    <3>3. heap2[x].parent = b /\ x \in B
      BY <1>2, <2>2, <3>2
    <3>4. lo2[x] = lo[x] /\ h2[x] = h[x] /\ End(hi2, c, f, x) = End(hi, Null, Null, x)
      <4>1. End(hi, Null, Null, x) = hi[x]
        BY <1>1, <3>2
      <4>2. End(hi2, c, f, x) = hi[x]
        BY <1>4, <1>5, <3>2
      <4> QED BY <1>3, <3>2, <4>1, <4>2
    <3>5. ChildLow(heap2, lo2, b, j) = ChildLow(heap, lo, b, j)
      BY <3>1 DEF ChildLow
    <3>6. ChildHigh(heap2, hi2, b, j) = ChildHigh(heap, hi, b, j)
      BY <3>1 DEF ChildHigh
    <3> QED BY <1>2, <3>1, <3>2, <3>3, <3>4, <3>5, <3>6 DEF Hangs, x
  <2> QED BY <2>1, <2>2
<1>9. Up(heap2, top, f)
  <2> SUFFICES ASSUME NEW b \in B
               PROVE  IF b \in {top, f} THEN heap2[b].parent = Null
                      ELSE IsChild(heap2, heap2[b].parent, b)
    BY <1>2 DEF Up
  <2>1. CASE b = f
    BY <1>2, <2>1
  <2>2. CASE b # f
    <3>1. b \in S /\ IF b = top THEN heap[b].parent = Null ELSE IsChild(heap, heap[b].parent, b)
      BY <1>1, <2>2 DEF Up
    <3>2. CASE b = top
      BY <1>1, <1>2, <3>1, <3>2
    <3>3. CASE b # top /\ heap[b].parent = c
      BY <1>2, <2>2, <3>1, <3>3
    <3>4. CASE b # top /\ heap[b].parent # c
      <4>1. IsChild(heap, heap[b].parent, b) /\ heap2[b].parent = heap[b].parent
        BY <1>2, <3>1, <3>4
      <4>2. heap2[heap[b].parent].children = heap[heap[b].parent].children
        BY <1>2, <3>4, <4>1 DEF IsChild
      <4>3. IsChild(heap2, heap[b].parent, b)
        BY <1>2, <4>1, <4>2 DEF IsChild
      <4> QED BY <2>2, <3>4, <4>1, <4>3
    <3> QED BY <3>2, <3>3, <3>4
  <2> QED BY <2>1, <2>2
<1>10. Apart(heap2, h2, lo2, hi2)
  <2> SUFFICES ASSUME NEW a \in B, NEW b \in B, a # b, h2[a] = h2[b]
               PROVE  hi2[a] <= lo2[b] \/ hi2[b] <= lo2[a]
    BY <1>2 DEF Apart
  <2>1. \A x, y \in S : x # y /\ h[x] = h[y] => hi[x] <= lo[y] \/ hi[y] <= lo[x]
    BY <1>1 DEF Apart
  <2>2. lo2[c] = lo[c] /\ hi2[c] = sep /\ lo2[f] = sep /\ hi2[f] = hi[c] /\ h2[c] = h[c] /\ h2[f] = h[c]
    BY <1>3
  <2>3. \A x \in S : x # c => lo2[x] = lo[x] /\ hi2[x] = hi[x] /\ h2[x] = h[x]
    BY <1>3
  <2>4. \A x \in S : x # c /\ h[x] = h[c] => hi[x] <= lo[c] \/ hi[c] <= lo[x]
    BY <2>1
  <2>5. /\ lo[c] \in Int /\ hi[c] \in Int
        /\ \A x \in S : lo[x] \in Int /\ hi[x] \in Int
    BY <1>1
  <2>6. CASE a \in {c, f} /\ b \in {c, f}
    BY <2>2, <2>6
  <2>7. CASE a \in {c, f} /\ b \notin {c, f}
    <3>1. b \in S /\ b # c /\ h[b] = h[c]
      BY <2>2, <2>3, <2>7
    <3>2. hi[b] <= lo[c] \/ hi[c] <= lo[b]
      BY <2>4, <3>1
    <3>3. lo2[b] = lo[b] /\ hi2[b] = hi[b] /\ lo[b] \in Int /\ hi[b] \in Int
      BY <2>3, <2>5, <3>1
    <3> QED BY <2>2, <2>5, <2>7, <3>2, <3>3
  <2>8. CASE a \notin {c, f} /\ b \in {c, f}
    <3>1. a \in S /\ a # c /\ h[a] = h[c]
      BY <2>2, <2>3, <2>8
    <3>2. hi[a] <= lo[c] \/ hi[c] <= lo[a]
      BY <2>4, <3>1
    <3>3. lo2[a] = lo[a] /\ hi2[a] = hi[a] /\ lo[a] \in Int /\ hi[a] \in Int
      BY <2>3, <2>5, <3>1
    <3> QED BY <2>2, <2>5, <2>8, <3>2, <3>3
  <2>9. CASE a \notin {c, f} /\ b \notin {c, f}
    BY <2>1, <2>3, <2>9
  <2> QED BY <2>6, <2>7, <2>8, <2>9
<1>11. Whole(heap2, top, h2, lo2, hi2, c, f)
  <2>1. top \in B /\ top # Null /\ lo2[top] = lo[top] /\ End(hi2, c, f, top) = hi[top] /\ h2[top] = h[top]
    BY <1>1, <1>3, <1>4, <1>5
  <2>2. \A b \in S : lo[top] <= lo2[b] /\ hi2[b] <= hi[top] /\ h2[b] <= h[top]
    BY <1>1, <1>3
  <2>3. lo[top] <= lo2[f] /\ hi2[f] <= hi[top] /\ h2[f] <= h[top]
    BY <1>1, <1>3
  <2> QED BY <1>2, <2>1, <2>2, <2>3 DEF Whole
<1>12. Chain(heap2, top, lo2, hi2, c, f)
  <2> SUFFICES ASSUME NEW a \in B, heap2[a].leaf PROVE Linked(heap2, top, lo2, hi2, c, f, a)
    BY <1>2 DEF Chain
  <2>1. \A x \in S : heap[x].leaf =>
          LET n == heap[x].next
              q == heap[x].previous IN
          /\ IF n = Null THEN hi[x] = hi[top]
             ELSE n \in S /\ heap[n].leaf /\ lo[n] = hi[x] /\ heap[n].previous = x
          /\ IF q = Null THEN lo[x] = lo[top]
             ELSE q \in S /\ heap[q].leaf /\ hi[q] = lo[x] /\ heap[q].next = x
    BY <1>1 DEF Chain, Linked
  <2>2. End(hi2, c, f, top) = hi[top] /\ lo2[top] = lo[top] /\ f # Null
    BY <1>1, <1>3, <1>4, <1>5
  <2> DEFINE n == heap2[a].next
             q == heap2[a].previous
             m == heap[c].next
  <2>3. IF n = Null THEN hi2[a] = hi[top]
        ELSE n \in B /\ heap2[n].leaf /\ lo2[n] = hi2[a] /\ heap2[n].previous = a
    <3>1. CASE a = c
      <4>1. heap[c].leaf /\ n = f /\ hi2[a] = sep /\ lo2[f] = sep
        BY <1>2, <1>3, <3>1
      <4>2. heap2[f].leaf /\ heap2[f].previous = a
        BY <1>2, <3>1, <4>1
      <4> QED BY <2>2, <4>1, <4>2
    <3>2. CASE a = f
      <4>1. heap[c].leaf /\ n = m /\ hi2[a] = hi[c]
        BY <1>2, <1>3, <3>2
      <4>2. IF m = Null THEN hi[c] = hi[top]
            ELSE m \in S /\ heap[m].leaf /\ lo[m] = hi[c] /\ heap[m].previous = c
        BY <2>1, <4>1
      <4> HIDE DEF n
      <4>3. m \in S => heap2[m].previous = f /\ heap2[m].leaf = heap[m].leaf /\ lo2[m] = lo[m]
        BY <1>2, <1>3
      <4> HIDE DEF m
      <4> QED BY <3>2, <4>1, <4>2, <4>3
    <3>3. CASE a \notin {c, f}
      <4>1. a \in S /\ heap[a].leaf /\ n = heap[a].next /\ hi2[a] = hi[a]
        BY <1>2, <1>3, <3>3
      <4>2. IF n = Null THEN hi[a] = hi[top]
            ELSE n \in S /\ heap[n].leaf /\ lo[n] = hi[a] /\ heap[n].previous = a
        BY <2>1, <4>1
      <4>3. n # Null => n # m
        <5> SUFFICES ASSUME n # Null, n = m PROVE FALSE
          OBVIOUS
        <5>1. heap[c].leaf
          BY <1>1 DEF Kinds, KindOf
        <5>2. heap[m].previous = c
          BY <2>1, <5>1
        <5> QED BY <3>3, <4>2, <5>2
      <4> HIDE DEF n
      <4>4. n \in S /\ n # m => heap2[n].leaf = heap[n].leaf /\ heap2[n].previous = heap[n].previous /\ lo2[n] = lo[n]
        BY <1>2, <1>3
      <4> HIDE DEF m
      <4> QED BY <4>1, <4>2, <4>3, <4>4
    <3> QED BY <3>1, <3>2, <3>3
  <2>4. IF q = Null THEN lo2[a] = lo[top]
        ELSE q \in B /\ heap2[q].leaf /\ hi2[q] = lo2[a] /\ heap2[q].next = a
    <3>1. CASE a = f
      <4>1. heap[c].leaf /\ q = c /\ lo2[a] = sep /\ hi2[c] = sep /\ c # Null
        BY <1>1, <1>2, <1>3, <3>1
      <4>2. heap2[c].leaf /\ heap2[c].next = a
        BY <1>2, <3>1, <4>1
      <4> QED BY <4>1, <4>2
    <3>2. CASE a # f /\ a = m
      <4>1. a \in S /\ q = f /\ heap[a].leaf /\ lo2[a] = lo[a] /\ a # Null
        BY <1>1, <1>2, <1>3, <3>2
      <4>2. heap[c].leaf
        BY <1>1, <3>2, <4>1 DEF Kinds, KindOf
      <4>3. lo[a] = hi[c]
        BY <2>1, <3>2, <4>1, <4>2
      <4>4. heap2[f].leaf /\ heap2[f].next = a /\ hi2[f] = hi[c]
        BY <1>2, <1>3, <3>2, <4>2
      <4> QED BY <2>2, <4>1, <4>3, <4>4
    <3>3. CASE a # f /\ a # m
      <4>1. a \in S /\ heap[a].leaf /\ q = heap[a].previous /\ lo2[a] = lo[a]
        BY <1>2, <1>3, <3>3
      <4>2. IF q = Null THEN lo[a] = lo[top]
            ELSE q \in S /\ heap[q].leaf /\ hi[q] = lo[a] /\ heap[q].next = a
        BY <2>1, <4>1
      <4>3. q # Null => q # c
        BY <3>3, <4>2
      <4> HIDE DEF q
      <4>4. q \in S /\ q # c => heap2[q].leaf = heap[q].leaf /\ heap2[q].next = heap[q].next /\ hi2[q] = hi[q]
        BY <1>2, <1>3
      <4> QED BY <4>1, <4>2, <4>3, <4>4
    <3> QED BY <3>1, <3>2, <3>3
  <2> HIDE DEF n, q, m
  <2> QED BY <1>2, <2>2, <2>3, <2>4 DEF Linked, n, q
<1>13. Filled(heap2, IF c = top THEN Null ELSE top, Null, Null)
  <2> DEFINE free == IF c = top THEN Null ELSE top
  <2>1. \A b \in S : b # c => FilledAt(heap2, free, Null, Null, b)
    <3> TAKE b \in S
    <3> HAVE b # c
    <3>1. FilledAt(heap, top, c, Null, b) /\ b # Null
      BY <1>1 DEF Filled
    <3>2. heap2[b].keys = heap[b].keys /\ heap2[b].leaf = heap[b].leaf
      BY <1>2
    <3>3. b = top <=> b = free
      BY <3>1
    <3> HIDE DEF free
    <3> QED BY <3>1, <3>2, <3>3 DEF FilledAt
  <2>2. \A b \in {c, f} : FilledAt(heap2, free, Null, Null, b)
    <3> TAKE b \in {c, f}
    <3>1. FilledAt(heap2, Null, Null, Null, b) /\ b # Null
      BY <1>1 DEF Settled
    <3>2. b # free
      BY <1>1
    <3> HIDE DEF free
    <3> QED BY <3>1, <3>2 DEF FilledAt
  <2> HIDE DEF free
  <2>3. \A b \in B : FilledAt(heap2, free, Null, Null, b)
    BY <2>1, <2>2
  <2>4. Filled(heap2, free, Null, Null)
    BY <1>2, <2>3 DEF Filled
  <2> QED BY <2>4 DEF free
<1>14. Pending(heap2, top, h2, lo2, hi2, c, f)
  BY <1>1, <1>2, <1>3 DEF Pending
<1> QED BY <1>2, <1>6, <1>7, <1>8, <1>9, <1>10, <1>11, <1>12, <1>13, <1>14 DEF Tree

-----------------------------------------------------------------------------
(* A new root. *)

\* The parts of a tree with a half that no parent knows yet.
LEMMA PendingParts ==
  ASSUME NEW heap, NEW top, NEW h, NEW lo, NEW hi, NEW l, NEW r,
         Tree(heap, top, h, lo, hi, l, r, Null, Null), r # Null
  PROVE  /\ Heap(heap) /\ Kinds(heap, h) /\ Ordered(heap, lo, hi)
         /\ Down(heap, h, lo, hi, l, r) /\ Up(heap, top, r) /\ Apart(heap, h, lo, hi)
         /\ Whole(heap, top, h, lo, hi, l, r) /\ Chain(heap, top, lo, hi, l, r)
         /\ Filled(heap, IF l = top THEN Null ELSE top, Null, Null)
         /\ l \in DOMAIN heap /\ r \in DOMAIN heap /\ l # r /\ r # top /\ h[l] = h[r] /\ hi[l] = lo[r]
         /\ \A a \in DOMAIN heap : /\ a \in Nat /\ a # Null
                                   /\ lo[a] \in Int /\ hi[a] \in Int /\ h[a] \in Nat
                                   /\ lo[a] < hi[a] /\ lo[top] <= lo[a] /\ hi[a] <= End(hi, l, r, top)
                                   /\ h[a] <= h[top]
                                   /\ End(hi, l, r, a) \in Int
         /\ top \in DOMAIN heap
         /\ heap[l].leaf <=> heap[r].leaf
<1>1. /\ Heap(heap) /\ Kinds(heap, h) /\ Ordered(heap, lo, hi)
      /\ Down(heap, h, lo, hi, l, r) /\ Up(heap, top, r) /\ Apart(heap, h, lo, hi)
      /\ Whole(heap, top, h, lo, hi, l, r) /\ Chain(heap, top, lo, hi, l, r)
      /\ Filled(heap, IF l = top THEN Null ELSE top, Null, Null)
      /\ Pending(heap, top, h, lo, hi, l, r)
  BY DEF Tree
<1>2. l \in DOMAIN heap /\ r \in DOMAIN heap /\ l # r /\ r # top /\ h[l] = h[r] /\ hi[l] = lo[r]
  BY <1>1 DEF Pending
<1>3. \A a \in DOMAIN heap : a \in Nat /\ a # Null
  BY <1>1, Fields
<1>4. \A a \in DOMAIN heap : lo[a] \in Int /\ hi[a] \in Int /\ h[a] \in Nat /\ lo[a] < hi[a]
  BY <1>1 DEF Kinds, Ordered, InOrder
<1>5. top \in DOMAIN heap
  BY <1>1, <1>2 DEF Whole
<1>6. \A a \in DOMAIN heap : lo[top] <= lo[a] /\ hi[a] <= End(hi, l, r, top) /\ h[a] <= h[top]
  BY <1>1, <1>2, <1>5 DEF Whole
<1>7. \A a \in DOMAIN heap : End(hi, l, r, a) \in Int
  BY <1>2, <1>4 DEF End
<1>8. heap[l].leaf <=> heap[r].leaf
  BY <1>1, <1>2 DEF Kinds, KindOf
<1> QED BY <1>1, <1>2, <1>3, <1>4, <1>5, <1>6, <1>7, <1>8

\* What GrowRoot makes of the heap: f is the only parent of the two halves of the old root.
Grown(heap, heap2, l, r, f, sep) ==
  /\ Heap(heap2) /\ DOMAIN heap2 = DOMAIN heap \cup {f}
  /\ \A b \in DOMAIN heap :
        /\ heap2[b].leaf = heap[b].leaf /\ heap2[b].keys = heap[b].keys
        /\ heap2[b].values = heap[b].values /\ heap2[b].children = heap[b].children
        /\ heap2[b].next = heap[b].next /\ heap2[b].previous = heap[b].previous
        /\ heap2[b].parent = IF b \in {l, r} THEN f ELSE heap[b].parent
  /\ heap2[f].leaf = FALSE /\ heap2[f].keys = <<sep>> /\ heap2[f].values = << >>
  /\ heap2[f].children = <<l, r>>
  /\ heap2[f].parent = Null /\ heap2[f].next = Null /\ heap2[f].previous = Null

\* A new root above the two halves of the old one makes the tree whole, one level higher.
LEMMA GrowKeeps ==
  ASSUME NEW heap, NEW heap2, NEW top, NEW h, NEW lo, NEW hi, NEW r,
         Tree(heap, top, h, lo, hi, top, r, Null, Null), r # Null,
         NEW f \in Nat \ {Null}, f \notin DOMAIN heap,
         Grown(heap, heap2, top, r, f, lo[r]),
         NEW h2, NEW lo2, NEW hi2,
         With(h, h2, f, h[top] + 1), With(lo, lo2, f, lo[top]), With(hi, hi2, f, hi[r])
  PROVE  Resting(heap2, f, h2, lo2, hi2, Null, Null)
<1> DEFINE S == DOMAIN heap
           B == S \cup {f}
<1>1. /\ Heap(heap) /\ Kinds(heap, h) /\ Ordered(heap, lo, hi)
      /\ Down(heap, h, lo, hi, top, r) /\ Up(heap, top, r) /\ Apart(heap, h, lo, hi)
      /\ Whole(heap, top, h, lo, hi, top, r) /\ Chain(heap, top, lo, hi, top, r)
      /\ Filled(heap, Null, Null, Null)
      /\ r \in DOMAIN heap /\ r # top /\ h[top] = h[r] /\ hi[top] = lo[r]
      /\ \A a \in DOMAIN heap : /\ a # Null /\ a # f
                                /\ lo[a] \in Int /\ hi[a] \in Int /\ h[a] \in Nat
                                /\ lo[a] < hi[a] /\ lo[top] <= lo[a] /\ hi[a] <= hi[r]
                                /\ h[a] <= h[top]
      /\ top \in DOMAIN heap
      /\ End(hi, top, r, top) = hi[r]
  <2>1. End(hi, top, r, top) = hi[r]
    BY DEF End
  <2> QED BY <2>1, PendingParts
<1>2. /\ Heap(heap2) /\ DOMAIN heap2 = B
      /\ \A b \in S :
            /\ heap2[b].leaf = heap[b].leaf /\ heap2[b].keys = heap[b].keys
            /\ heap2[b].values = heap[b].values /\ heap2[b].children = heap[b].children
            /\ heap2[b].next = heap[b].next /\ heap2[b].previous = heap[b].previous
            /\ heap2[b].parent = IF b \in {top, r} THEN f ELSE heap[b].parent
      /\ heap2[f].leaf = FALSE /\ heap2[f].keys = <<lo[r]>> /\ heap2[f].values = << >>
      /\ heap2[f].children = <<top, r>>
      /\ heap2[f].parent = Null /\ heap2[f].next = Null /\ heap2[f].previous = Null
  BY DEF Grown
<1>3. /\ h2 \in [B -> Nat] /\ lo2 \in [B -> Int] /\ hi2 \in [B -> Int]
      /\ \A b \in S : h2[b] = h[b] /\ lo2[b] = lo[b] /\ hi2[b] = hi[b]
      /\ h2[f] = h[top] + 1 /\ lo2[f] = lo[top] /\ hi2[f] = hi[r]
  <2>1. lo \in [S -> Int] /\ hi \in [S -> Int] /\ h \in [S -> Nat]
    BY <1>1 DEF Ordered, Kinds
  <2>2. /\ h2 = [b \in B |-> IF b = f THEN h[top] + 1 ELSE h[b]]
        /\ lo2 = [b \in B |-> IF b = f THEN lo[top] ELSE lo[b]]
        /\ hi2 = [b \in B |-> IF b = f THEN hi[r] ELSE hi[b]]
    BY <2>1 DEF With
  <2>3. h[top] + 1 \in Nat /\ lo[top] \in Int /\ hi[r] \in Int
    BY <1>1
  <2> QED BY <1>1, <2>1, <2>2, <2>3
<1>4. \A b \in B : b # Null /\ End(hi2, Null, Null, b) = hi2[b]
  BY <1>1 DEF End
<1>5. Kinds(heap2, h2)
  <2>1. \A b \in S : KindOf(heap2, h2, b)
    <3> TAKE b \in S
    <3>1. KindOf(heap, h, b)
      BY <1>1 DEF Kinds
    <3>2. /\ heap2[b].leaf = heap[b].leaf /\ heap2[b].keys = heap[b].keys
          /\ heap2[b].values = heap[b].values /\ heap2[b].children = heap[b].children
          /\ heap2[b].next = heap[b].next /\ heap2[b].previous = heap[b].previous
          /\ h2[b] = h[b]
      BY <1>2, <1>3
    <3> QED BY <3>1, <3>2 DEF KindOf
  <2>2. KindOf(heap2, h2, f)
    <3>1. h2[f] # 0
      BY <1>1, <1>3
    <3>2. Len(heap2[f].children) = Len(heap2[f].keys) + 1
      BY <1>2
    <3> QED BY <1>2, <3>1, <3>2 DEF KindOf
  <2> QED BY <1>2, <1>3, <2>1, <2>2 DEF Kinds
<1>6. Ordered(heap2, lo2, hi2)
  <2>1. \A b \in S : InOrder(heap2, lo2, hi2, b)
    BY <1>1, <1>2, <1>3 DEF Ordered, InOrder
  <2>2. InOrder(heap2, lo2, hi2, f)
    <3>1. /\ lo2[f] = lo[top] /\ hi2[f] = hi[r] /\ lo[top] < lo[r] /\ lo[r] < hi[r] /\ lo[top] < hi[r]
          /\ lo[top] <= lo[r]
      <4>1. lo[top] < hi[top] /\ lo[top] \in Int /\ hi[top] \in Int /\ lo[r] \in Int /\ hi[r] \in Int /\ lo[r] < hi[r]
        BY <1>1
      <4> QED BY <1>1, <1>3, <4>1
    <3>2. Len(heap2[f].keys) = 1 /\ heap2[f].keys[1] = lo[r]
      BY <1>2
    <3>3. \A i \in 1..1 : i = 1
      OBVIOUS
    <3> QED BY <3>1, <3>2, <3>3 DEF InOrder
  <2> QED BY <1>2, <1>3, <2>1, <2>2 DEF Ordered
<1>7. Down(heap2, h2, lo2, hi2, Null, Null)
  <2> SUFFICES ASSUME NEW b \in B, ~heap2[b].leaf, NEW j \in 1..Len(heap2[b].children)
               PROVE  Hangs(heap2, h2, lo2, hi2, Null, Null, b, j)
    BY <1>2 DEF Down
  <2>1. CASE b = f
    <3>0. Len(heap2[f].children) = 2
      BY <1>2
    <3>1. Len(heap2[f].keys) = 1 /\ heap2[f].keys[1] = lo[r] /\ j \in {1, 2}
      <4>1. j \in 1..2
        BY <2>1, <3>0
      <4>2. \A i \in 1..2 : i \in {1, 2}
        OBVIOUS
      <4> QED BY <1>2, <4>1, <4>2
    <3>2. heap2[f].children[1] = top /\ heap2[f].children[2] = r
      BY <1>2
    <3>3. CASE j = 1
      <4>1. /\ top \in B /\ heap2[top].parent = f /\ h2[top] + 1 = h2[f] /\ lo2[top] = lo2[f]
            /\ hi2[top] = lo[r]
        BY <1>1, <1>2, <1>3
      <4>2. ChildLow(heap2, lo2, f, 1) = lo2[f] /\ ChildHigh(heap2, hi2, f, 1) = lo[r]
        BY <3>1 DEF ChildLow, ChildHigh
      <4> QED BY <1>2, <1>4, <2>1, <3>2, <3>3, <4>1, <4>2 DEF Hangs
    <3>4. CASE j = 2
      <4>1. /\ r \in B /\ heap2[r].parent = f /\ h2[r] + 1 = h2[f] /\ lo2[r] = lo[r]
            /\ hi2[r] = hi2[f]
        BY <1>1, <1>2, <1>3
      <4>2. ChildLow(heap2, lo2, f, 2) = lo[r] /\ ChildHigh(heap2, hi2, f, 2) = hi2[f]
        BY <3>1 DEF ChildLow, ChildHigh
      <4> QED BY <1>2, <1>4, <2>1, <3>2, <3>4, <4>1, <4>2 DEF Hangs
    <3> QED BY <3>1, <3>3, <3>4
  <2>2. CASE b # f
    <3> DEFINE x == heap[b].children[j]
    <3>1. /\ b \in S /\ heap2[b].children = heap[b].children /\ heap2[b].keys = heap[b].keys
          /\ lo2[b] = lo[b] /\ hi2[b] = hi[b] /\ h2[b] = h[b] /\ ~heap[b].leaf
      BY <1>2, <1>3, <2>2
    <3>2. /\ x \in S /\ heap[x].parent = b /\ h[x] + 1 = h[b]
          /\ lo[x] = ChildLow(heap, lo, b, j) /\ End(hi, top, r, x) = ChildHigh(heap, hi, b, j)
      BY <1>1, <3>1 DEF Down, Hangs
    <3> HIDE DEF x
    <3>3. x # top /\ x # r
      <4>1. heap[top].parent = Null /\ heap[r].parent = Null
        BY <1>1 DEF Up
      <4> QED BY <1>1, <3>1, <3>2, <4>1
    <3>4. heap2[x].parent = b /\ x \in B /\ lo2[x] = lo[x] /\ h2[x] = h[x] /\ hi2[x] = hi[x]
      BY <1>2, <1>3, <3>2, <3>3
    <3>5. End(hi2, Null, Null, x) = End(hi, top, r, x)
      BY <1>4, <3>3, <3>4 DEF End
    <3>6. ChildLow(heap2, lo2, b, j) = ChildLow(heap, lo, b, j)
      BY <3>1 DEF ChildLow
    <3>7. ChildHigh(heap2, hi2, b, j) = ChildHigh(heap, hi, b, j)
      BY <3>1 DEF ChildHigh
    <3>8. x = heap2[b].children[j]
      BY <3>1 DEF x
    <3> QED BY <1>2, <3>1, <3>2, <3>4, <3>5, <3>6, <3>7, <3>8 DEF Hangs
  <2> QED BY <2>1, <2>2
<1>8. Up(heap2, f, Null)
  <2> SUFFICES ASSUME NEW b \in B
               PROVE  IF b \in {f, Null} THEN heap2[b].parent = Null
                      ELSE IsChild(heap2, heap2[b].parent, b)
    BY <1>2 DEF Up
  <2>1. CASE b = f
    BY <1>2, <2>1
  <2>2. CASE b \in {top, r}
    <3>1. heap2[b].parent = f /\ b \notin {f, Null} /\ f \in B
      BY <1>1, <1>2, <2>2
    <3>2. Len(heap2[f].children) = 2 /\ heap2[f].children[1] = top /\ heap2[f].children[2] = r
      BY <1>2
    <3>3. \E i \in 1..2 : heap2[f].children[i] = b
      BY <2>2, <3>2
    <3> QED BY <1>2, <3>1, <3>2, <3>3 DEF IsChild
  <2>3. CASE b \notin {f, top, r}
    <3>1. b \in S /\ IsChild(heap, heap[b].parent, b)
      BY <1>1, <2>3 DEF Up
    <3>2. heap2[b].parent = heap[b].parent /\ b # Null
      BY <1>1, <1>2, <2>3, <3>1
    <3>3. IsChild(heap2, heap[b].parent, b)
      BY <1>2, <3>1 DEF IsChild
    <3> QED BY <2>3, <3>2, <3>3
  <2> QED BY <2>1, <2>2, <2>3
<1>9. Apart(heap2, h2, lo2, hi2)
  <2> SUFFICES ASSUME NEW a \in B, NEW b \in B, a # b, h2[a] = h2[b]
               PROVE  hi2[a] <= lo2[b] \/ hi2[b] <= lo2[a]
    BY <1>2 DEF Apart
  <2>1. \A x \in S : h2[x] < h2[f]
    BY <1>1, <1>3
  <2>2. a # f /\ b # f
    BY <1>1, <1>3, <2>1
  <2> QED BY <1>1, <1>3, <2>2 DEF Apart
<1>10. Whole(heap2, f, h2, lo2, hi2, Null, Null)
  <2>1. \A b \in S : lo2[f] <= lo2[b] /\ hi2[b] <= hi2[f] /\ h2[b] <= h2[f]
    BY <1>1, <1>3
  <2>2. lo2[f] <= lo2[f] /\ hi2[f] <= hi2[f] /\ h2[f] <= h2[f]
    BY <1>3
  <2> QED BY <1>2, <1>4, <2>1, <2>2 DEF Whole
<1>11. Chain(heap2, f, lo2, hi2, Null, Null)
  <2> SUFFICES ASSUME NEW b \in B, heap2[b].leaf PROVE Linked(heap2, f, lo2, hi2, Null, Null, b)
    BY <1>2 DEF Chain
  <2>1. b \in S /\ heap[b].leaf
    BY <1>2
  <2>2. Linked(heap, top, lo, hi, top, r, b)
    BY <1>1, <2>1 DEF Chain
  <2>3. End(hi2, Null, Null, f) = hi[r] /\ lo2[f] = lo[top]
    BY <1>3, <1>4
  <2>4. \A x \in S : /\ x \in B /\ heap2[x].leaf = heap[x].leaf /\ heap2[x].previous = heap[x].previous
                     /\ heap2[x].next = heap[x].next /\ lo2[x] = lo[x] /\ hi2[x] = hi[x]
    BY <1>2, <1>3
  <2> QED BY <1>1, <1>2, <2>1, <2>2, <2>3, <2>4 DEF Linked
<1>12. Filled(heap2, f, Null, Null)
  <2>1. \A b \in S : FilledAt(heap2, f, Null, Null, b)
    <3> TAKE b \in S
    <3>1. FilledAt(heap, Null, Null, Null, b) /\ b # Null /\ b # f
      BY <1>1 DEF Filled
    <3>2. heap2[b].keys = heap[b].keys /\ heap2[b].leaf = heap[b].leaf
      BY <1>2
    <3> QED BY <3>1, <3>2 DEF FilledAt
  <2>2. FilledAt(heap2, f, Null, Null, f)
    <3>1. Len(heap2[f].keys) = 1
      BY <1>2
    <3>2. 1 <= MaxKeys
      BY OrderAssumption DEF MaxKeys
    <3>3. f # Null
      OBVIOUS
    <3> QED BY <3>1, <3>2, <3>3 DEF FilledAt
  <2> QED BY <1>2, <2>1, <2>2 DEF Filled
<1> QED BY <1>2, <1>5, <1>6, <1>7, <1>8, <1>9, <1>10, <1>11, <1>12 DEF Resting, Tree, Pending

-----------------------------------------------------------------------------
(* A parent that gains a child. *)

\* What InsertIntoParent makes of the heap: p has r as well, next to l, and the key between them.
Attached(heap, heap2, p, i, r, sep) ==
  /\ Heap(heap2) /\ DOMAIN heap2 = DOMAIN heap
  /\ \A b \in DOMAIN heap :
        /\ heap2[b].leaf = heap[b].leaf /\ heap2[b].values = heap[b].values
        /\ heap2[b].next = heap[b].next /\ heap2[b].previous = heap[b].previous
        /\ heap2[b].parent = IF b = r THEN p ELSE heap[b].parent
  /\ \A b \in DOMAIN heap : b # p =>
        heap2[b].keys = heap[b].keys /\ heap2[b].children = heap[b].children
  /\ Len(heap2[p].keys) = Len(heap[p].keys) + 1
  /\ Len(heap2[p].children) = Len(heap[p].children) + 1
  /\ \A j \in 1..Len(heap[p].keys) + 1 :
        heap2[p].keys[j] = IF j < i THEN heap[p].keys[j]
                           ELSE IF j = i THEN sep ELSE heap[p].keys[j - 1]
  /\ \A j \in 1..Len(heap[p].keys) + 2 :
        heap2[p].children[j] = IF j < i + 1 THEN heap[p].children[j]
                               ELSE IF j = i + 1 THEN r ELSE heap[p].children[j - 1]

\* The parent that gains the right half makes the tree whole, and may have a key too many then.
LEMMA AttachKeeps ==
  ASSUME NEW heap, NEW heap2, NEW top, NEW h, NEW lo, NEW hi, NEW l, NEW r,
         Tree(heap, top, h, lo, hi, l, r, Null, Null), r # Null, l # top,
         NEW p \in DOMAIN heap, ~heap[p].leaf, NEW i \in 1..Len(heap[p].keys) + 1,
         heap[p].children[i] = l,
         Attached(heap, heap2, p, i, r, lo[r])
  PROVE  Resting(heap2, top, h, lo, hi, IF Len(heap[p].keys) + 1 > MaxKeys THEN p ELSE Null, Null)
<1> DEFINE S == DOMAIN heap
           n == Len(heap[p].keys)
<1>1. /\ Heap(heap) /\ Kinds(heap, h) /\ Ordered(heap, lo, hi)
      /\ Down(heap, h, lo, hi, l, r) /\ Up(heap, top, r) /\ Apart(heap, h, lo, hi)
      /\ Whole(heap, top, h, lo, hi, l, r) /\ Chain(heap, top, lo, hi, l, r)
      /\ Filled(heap, top, Null, Null)
      /\ l \in S /\ r \in S /\ l # r /\ r # top /\ h[l] = h[r] /\ hi[l] = lo[r]
      /\ \A a \in S : /\ a # Null
                      /\ lo[a] \in Int /\ hi[a] \in Int /\ h[a] \in Nat
                      /\ lo[a] < hi[a] /\ lo[top] <= lo[a] /\ hi[a] <= End(hi, l, r, top)
                      /\ h[a] <= h[top]
      /\ top \in S
  BY PendingParts
<1>2. /\ Heap(heap2) /\ DOMAIN heap2 = S
      /\ \A b \in S :
            /\ heap2[b].leaf = heap[b].leaf /\ heap2[b].values = heap[b].values
            /\ heap2[b].next = heap[b].next /\ heap2[b].previous = heap[b].previous
            /\ heap2[b].parent = IF b = r THEN p ELSE heap[b].parent
      /\ \A b \in S : b # p => heap2[b].keys = heap[b].keys /\ heap2[b].children = heap[b].children
      /\ Len(heap2[p].keys) = n + 1
      /\ Len(heap2[p].children) = Len(heap[p].children) + 1
      /\ \A j \in 1..n + 1 :
            heap2[p].keys[j] = IF j < i THEN heap[p].keys[j]
                               ELSE IF j = i THEN lo[r] ELSE heap[p].keys[j - 1]
      /\ \A j \in 1..n + 2 :
            heap2[p].children[j] = IF j < i + 1 THEN heap[p].children[j]
                                   ELSE IF j = i + 1 THEN r ELSE heap[p].children[j - 1]
  BY DEF Attached
<1>3. /\ n \in Nat /\ Len(heap[p].children) = n + 1
      /\ \A j \in 1..n + 1 : Hangs(heap, h, lo, hi, l, r, p, j)
      /\ \A j, k \in 1..n + 1 : heap[p].children[j] = heap[p].children[k] => j = k
  BY <1>1, ChildrenApart
<1>4. /\ \A b \in S : End(hi, Null, Null, b) = hi[b]
      /\ \A b \in S : b # l => End(hi, l, r, b) = hi[b]
      /\ End(hi, l, r, l) = hi[r]
  BY <1>1 DEF End
<1>5. heap[r].parent = Null /\ heap[l].parent = p /\ p # r /\ p # l /\ h[l] + 1 = h[p]
  <2>1. heap[r].parent = Null
    BY <1>1 DEF Up
  <2>2. heap[l].parent = p /\ h[l] + 1 = h[p]
    BY <1>3 DEF Hangs
  <2> QED BY <1>1, <2>1, <2>2
<1>6. lo[l] = ChildLow(heap, lo, p, i) /\ hi[r] = ChildHigh(heap, hi, p, i)
  BY <1>3, <1>4 DEF Hangs
<1>7. lo[l] < lo[r] /\ lo[r] < hi[r] /\ lo[l] \in Int /\ lo[r] \in Int /\ hi[r] \in Int
  BY <1>1
<1> HIDE DEF n
<1>8. Kinds(heap2, h)
  <2>1. \A b \in S : b # p => KindOf(heap2, h, b)
    <3> TAKE b \in S
    <3> HAVE b # p
    <3>1. KindOf(heap, h, b)
      BY <1>1 DEF Kinds
    <3>2. /\ heap2[b].leaf = heap[b].leaf /\ heap2[b].next = heap[b].next
          /\ heap2[b].previous = heap[b].previous /\ heap2[b].keys = heap[b].keys
          /\ heap2[b].values = heap[b].values /\ heap2[b].children = heap[b].children
      BY <1>2
    <3> QED BY <3>1, <3>2 DEF KindOf
  <2>2. KindOf(heap2, h, p)
    <3>1. KindOf(heap, h, p)
      BY <1>1 DEF Kinds
    <3>2. ~heap2[p].leaf /\ heap2[p].values = heap[p].values /\ heap2[p].next = heap[p].next
          /\ heap2[p].previous = heap[p].previous
      BY <1>2
    <3>3. Len(heap2[p].children) = Len(heap2[p].keys) + 1
      BY <1>2, <1>3
    <3> QED BY <3>1, <3>2, <3>3 DEF KindOf
  <2> QED BY <1>1, <1>2, <2>1, <2>2 DEF Kinds
<1>9. InOrder(heap2, lo, hi, p)
  <2> DEFINE ks == heap[p].keys
             ms == heap2[p].keys
             sep == lo[r]
  <2>1. /\ \A j, k \in 1..n : j < k => ks[j] < ks[k]
        /\ \A j \in 1..n : lo[p] < ks[j] /\ ks[j] < hi[p] /\ ks[j] \in Int
    BY <1>1, Fields DEF Ordered, InOrder, n
  <2>2. lo[p] < hi[p] /\ lo[p] \in Int /\ hi[p] \in Int
    BY <1>1
  <2>3. \A j \in 1..n : j < i => ks[j] < sep
    <3> TAKE j \in 1..n
    <3> HAVE j < i
    <3>1. i # 1 /\ i - 1 \in 1..n /\ (j = i - 1 \/ j < i - 1)
      BY <1>3 DEF n
    <3>2. lo[l] = ks[i - 1]
      BY <1>6, <3>1 DEF ChildLow
    <3>3. ks[j] <= ks[i - 1] /\ ks[i - 1] \in Int /\ ks[j] \in Int
      BY <2>1, <3>1
    <3> HIDE DEF ks
    <3> QED BY <1>7, <3>2, <3>3
  <2>4. \A j \in 1..n : i <= j => sep < ks[j]
    <3> TAKE j \in 1..n
    <3> HAVE i <= j
    <3>1. i # n + 1 /\ i \in 1..n /\ (j = i \/ i < j)
      BY <1>3 DEF n
    <3>2. hi[r] = ks[i]
      BY <1>6, <3>1 DEF ChildHigh, n
    <3>3. ks[i] <= ks[j] /\ ks[i] \in Int /\ ks[j] \in Int
      BY <2>1, <3>1
    <3> HIDE DEF ks
    <3> QED BY <1>7, <3>2, <3>3
  <2>5. lo[p] < sep /\ sep < hi[p]
    <3>1. lo[p] <= lo[l]
      <4>1. CASE i = 1
        BY <1>1, <1>6, <4>1 DEF ChildLow
      <4>2. CASE i # 1
        <5>1. i - 1 \in 1..n
          BY <1>3, <4>2 DEF n
        <5>2. lo[l] = ks[i - 1]
          BY <1>6, <4>2 DEF ChildLow
        <5> QED BY <2>1, <2>2, <5>1, <5>2
      <4> QED BY <4>1, <4>2
    <3>2. hi[r] <= hi[p]
      <4>1. CASE i = n + 1
        BY <1>1, <1>6, <4>1 DEF ChildHigh, n
      <4>2. CASE i # n + 1
        <5>1. i \in 1..n
          BY <1>3, <4>2 DEF n
        <5>2. hi[r] = ks[i]
          BY <1>6, <4>2 DEF ChildHigh, n
        <5> QED BY <2>1, <2>2, <5>1, <5>2
      <4> QED BY <4>1, <4>2
    <3> QED BY <1>7, <2>2, <3>1, <3>2
  <2>6. Len(ms) = n + 1 /\ \A j \in 1..n + 1 : ms[j] = IF j < i THEN ks[j] ELSE IF j = i THEN sep ELSE ks[j - 1]
    BY <1>2
  <2>7. i \in 1..n + 1
    BY DEF n
  <2> HIDE DEF ks, ms, sep
  <2>8. \A j \in 1..n + 1 : /\ j < i => j \in 1..n /\ ms[j] = ks[j]
                            /\ i < j => j - 1 \in 1..n /\ i <= j - 1 /\ ms[j] = ks[j - 1]
                            /\ j = i => ms[j] = sep
    BY <1>3, <2>6, <2>7
  <2>9. \A j, k \in 1..n + 1 : j < k => ms[j] < ms[k]
    <3> TAKE j, k \in 1..n + 1
    <3> HAVE j < k
    <3>0. sep \in Int
      BY <1>7 DEF sep
    <3>1. CASE k < i
      <4>1. j < i
        BY <1>3, <2>7, <3>1
      <4> QED BY <2>1, <2>8, <3>1, <4>1
    <3>2. CASE k = i
      BY <2>3, <2>8, <3>2
    <3>3. CASE i < k /\ j < i
      <4>1. j \in 1..n /\ ms[j] = ks[j] /\ k - 1 \in 1..n /\ i <= k - 1 /\ ms[k] = ks[k - 1]
        BY <2>8, <3>3
      <4>2. ks[j] < sep /\ sep < ks[k - 1] /\ ks[j] \in Int /\ ks[k - 1] \in Int
        BY <2>1, <2>3, <2>4, <3>3, <4>1
      <4> QED BY <3>0, <4>1, <4>2
    <3>4. CASE i < k /\ j = i
      BY <2>4, <2>8, <3>4
    <3>5. CASE i < k /\ i < j
      <4>1. j - 1 \in 1..n /\ ms[j] = ks[j - 1] /\ k - 1 \in 1..n /\ ms[k] = ks[k - 1]
        BY <2>8, <3>5
      <4>2. j - 1 < k - 1
        OBVIOUS
      <4> QED BY <2>1, <4>1, <4>2
    <3> QED BY <2>7, <3>1, <3>2, <3>3, <3>4, <3>5
  <2>10. \A j \in 1..n + 1 : lo[p] < ms[j] /\ ms[j] < hi[p] /\ ms[j] \in Int
    <3> TAKE j \in 1..n + 1
    <3>1. CASE j < i
      BY <2>1, <2>8, <3>1
    <3>2. CASE j = i
      BY <1>7, <2>5, <2>8, <3>2 DEF sep
    <3>3. CASE i < j
      BY <2>1, <2>8, <3>3
    <3> QED BY <2>7, <3>1, <3>2, <3>3
  <2>11. \A j \in 1..n + 1 : lo[p] <= ms[j]
    BY <2>2, <2>10
  <2> QED BY <2>2, <2>6, <2>9, <2>10, <2>11 DEF InOrder, ms
<1>10. Ordered(heap2, lo, hi)
  <2>1. \A b \in S : b # p => InOrder(heap2, lo, hi, b)
    <3> TAKE b \in S
    <3> HAVE b # p
    <3>1. InOrder(heap, lo, hi, b)
      BY <1>1 DEF Ordered
    <3>2. heap2[b].keys = heap[b].keys /\ heap2[b].leaf = heap[b].leaf
      BY <1>2
    <3> QED BY <3>1, <3>2 DEF InOrder
  <2> QED BY <1>1, <1>2, <1>9, <2>1 DEF Ordered
<1>11. Down(heap2, h, lo, hi, Null, Null)
  <2> SUFFICES ASSUME NEW b \in S, ~heap[b].leaf, NEW j \in 1..Len(heap2[b].children)
               PROVE  Hangs(heap2, h, lo, hi, Null, Null, b, j)
    BY <1>2 DEF Down
  <2>1. CASE b # p
    <3> DEFINE x == heap[b].children[j]
    <3>1. heap2[b].children = heap[b].children /\ heap2[b].keys = heap[b].keys
      BY <1>2, <2>1
    <3>2. /\ x \in S /\ heap[x].parent = b /\ h[x] + 1 = h[b]
          /\ lo[x] = ChildLow(heap, lo, b, j) /\ End(hi, l, r, x) = ChildHigh(heap, hi, b, j)
      BY <1>1, <3>1 DEF Down, Hangs
    <3>3. x = heap2[b].children[j]
      BY <3>1
    <3> HIDE DEF x
    <3>4. x # l /\ x # r
      BY <1>1, <1>5, <2>1, <3>2
    <3>5. heap2[x].parent = b /\ End(hi, Null, Null, x) = End(hi, l, r, x)
      BY <1>2, <1>4, <3>2, <3>4
    <3>6. ChildLow(heap2, lo, b, j) = ChildLow(heap, lo, b, j)
      BY <3>1 DEF ChildLow
    <3>7. ChildHigh(heap2, hi, b, j) = ChildHigh(heap, hi, b, j)
      BY <3>1 DEF ChildHigh
    <3> QED BY <1>2, <3>2, <3>3, <3>5, <3>6, <3>7 DEF Hangs
  <2>2. CASE b = p
    <3>0. j \in 1..n + 2 /\ i \in 1..n + 1
      <4>1. Len(heap2[p].children) = n + 2
        BY <1>2, <1>3
      <4> QED BY <2>2, <4>1 DEF n
    <3>1. CASE j = i + 1
      <4>1. heap2[p].children[j] = r
        BY <1>2, <1>3, <3>0, <3>1
      <4>2. heap2[r].parent = p /\ h[r] + 1 = h[p]
        BY <1>1, <1>2, <1>5
      <4>3. ChildLow(heap2, lo, p, j) = lo[r]
        <5>1. j # 1 /\ j - 1 = i
          BY <3>0, <3>1
        <5>2. heap2[p].keys[i] = lo[r]
          BY <1>2, <3>0
        <5> QED BY <5>1, <5>2 DEF ChildLow
      <4>4. ChildHigh(heap2, hi, p, j) = hi[r]
        <5>1. CASE i = n + 1
          <6>1. j = Len(heap2[p].keys) + 1
            BY <1>2, <3>1, <5>1
          <6> QED BY <1>6, <5>1, <6>1 DEF ChildHigh, n
        <5>2. CASE i # n + 1
          <6>1. j # Len(heap2[p].keys) + 1 /\ j \in 1..n + 1 /\ ~(j < i) /\ j # i /\ j - 1 = i
            BY <1>2, <1>3, <3>0, <3>1, <5>2
          <6>2. heap2[p].keys[j] = heap[p].keys[i]
            BY <1>2, <6>1
          <6> QED BY <1>6, <5>2, <6>1, <6>2 DEF ChildHigh, n
        <5> QED BY <5>1, <5>2
      <4> QED BY <1>1, <1>2, <1>4, <2>2, <4>1, <4>2, <4>3, <4>4 DEF Hangs
    <3>2. CASE j # i + 1
      <4> DEFINE k == IF j < i + 1 THEN j ELSE j - 1
                 x == heap[p].children[k]
      <4>1. k \in 1..n + 1 /\ (k = i <=> j = i) /\ heap2[p].children[j] = x
        <5>1. k \in 1..n + 1 /\ (k = i <=> j = i)
          BY <1>3, <3>0, <3>2
        <5>2. heap2[p].children[j] = x
          BY <1>2, <3>0, <3>2
        <5> QED BY <5>1, <5>2
      <4>2. /\ x \in S /\ heap[x].parent = p /\ h[x] + 1 = h[p]
            /\ lo[x] = ChildLow(heap, lo, p, k) /\ End(hi, l, r, x) = ChildHigh(heap, hi, p, k)
        <5> HIDE DEF k
        <5> QED BY <1>3, <4>1 DEF Hangs
      <4>3. x = l <=> k = i
        <5> HIDE DEF k
        <5>1. i \in 1..n + 1
          BY DEF n
        <5> QED BY <1>3, <4>1, <5>1
      <4>4. heap2[x].parent = p
        <5> HIDE DEF x
        <5> QED BY <1>1, <1>2, <1>5, <4>2
      <4>5. lo[x] = ChildLow(heap2, lo, p, j)
        <5>1. CASE j = 1
          <6>1. k = 1
            BY <3>0, <5>1
          <6> HIDE DEF x, k
          <6> QED BY <4>2, <5>1, <6>1 DEF ChildLow
        <5>2. CASE j # 1
          <6>1. j - 1 \in 1..n + 1 /\ k # 1
            BY <1>3, <3>0, <3>2, <5>2
          <6>2. heap2[p].keys[j - 1] = IF j - 1 < i THEN heap[p].keys[j - 1]
                                       ELSE IF j - 1 = i THEN lo[r] ELSE heap[p].keys[j - 1 - 1]
            BY <1>2, <6>1
          <6>3. j - 1 # i /\ (j - 1 < i => k - 1 = j - 1) /\ (~(j - 1 < i) => k - 1 = j - 1 - 1)
            BY <1>3, <3>0, <3>2
          <6>4. heap2[p].keys[j - 1] = heap[p].keys[k - 1]
            <7> HIDE DEF k
            <7> QED BY <6>2, <6>3
          <6> HIDE DEF x, k
          <6> QED BY <4>2, <5>2, <6>1, <6>4 DEF ChildLow
        <5> QED BY <5>1, <5>2
      <4>6. hi[x] = ChildHigh(heap2, hi, p, j)
        <5>0. Len(heap2[p].keys) + 1 = n + 2
          BY <1>2, <1>3
        <5>1. CASE j = i
          <6>1. j # n + 2 /\ j \in 1..n + 1 /\ heap2[p].keys[j] = lo[r]
            BY <1>2, <1>3, <3>0, <5>1
          <6>2. x = l
            <7> HIDE DEF x, k
            <7> QED BY <4>1, <4>3, <5>1
          <6> HIDE DEF x
          <6> QED BY <1>1, <5>0, <6>1, <6>2 DEF ChildHigh
        <5>2. CASE j # i /\ j = n + 2
          <6>1. k = n + 1
            BY <1>3, <3>0, <3>2, <5>2
          <6>2. x # l
            <7> HIDE DEF x, k
            <7> QED BY <4>1, <4>3, <5>2
          <6>3. hi[x] = hi[p]
            <7> HIDE DEF x, k
            <7> QED BY <1>4, <4>2, <6>1, <6>2 DEF ChildHigh, n
          <6> HIDE DEF x
          <6> QED BY <5>0, <5>2, <6>3 DEF ChildHigh
        <5>3. CASE j # i /\ j # n + 2
          <6>1. j \in 1..n + 1 /\ k # n + 1
            BY <1>3, <3>0, <3>2, <5>3
          <6>2. x # l
            <7> HIDE DEF x, k
            <7> QED BY <4>1, <4>3, <5>3
          <6>3. hi[x] = heap[p].keys[k]
            <7> HIDE DEF x, k
            <7> QED BY <1>4, <4>2, <6>1, <6>2 DEF ChildHigh, n
          <6>4. heap2[p].keys[j] = IF j < i THEN heap[p].keys[j]
                                   ELSE IF j = i THEN lo[r] ELSE heap[p].keys[j - 1]
            BY <1>2, <6>1
          <6>5. (j < i => k = j) /\ (~(j < i) => k = j - 1)
            BY <1>3, <3>0, <3>2, <5>3
          <6>6. heap2[p].keys[j] = heap[p].keys[k]
            <7> HIDE DEF k
            <7> QED BY <5>3, <6>4, <6>5
          <6> HIDE DEF x, k
          <6> QED BY <5>0, <5>3, <6>3, <6>6 DEF ChildHigh
        <5> QED BY <5>1, <5>2, <5>3
      <4> HIDE DEF x, k
      <4> QED BY <1>2, <1>4, <2>2, <4>1, <4>2, <4>4, <4>5, <4>6 DEF Hangs
    <3> QED BY <3>1, <3>2
  <2> QED BY <2>1, <2>2
<1>12. Up(heap2, top, Null)
  <2> SUFFICES ASSUME NEW c \in S
               PROVE  IF c \in {top, Null} THEN heap2[c].parent = Null
                      ELSE IsChild(heap2, heap2[c].parent, c)
    BY <1>2 DEF Up
  <2>1. IF c \in {top, r} THEN heap[c].parent = Null ELSE IsChild(heap, heap[c].parent, c)
    BY <1>1 DEF Up
  <2>2. CASE c = top
    BY <1>1, <1>2, <2>1, <2>2
  <2>3. CASE c = r
    <3>1. i + 1 \in 1..n + 2 /\ heap2[p].children[i + 1] = r
      <4>1. i + 1 \in 1..n + 2 /\ ~(i + 1 < i + 1)
        BY <1>3 DEF n
      <4> QED BY <1>2, <4>1
    <3>2. Len(heap2[p].children) = n + 2 /\ ~heap2[p].leaf /\ p \in DOMAIN heap2
      BY <1>2, <1>3
    <3>3. IsChild(heap2, p, r)
      BY <3>1, <3>2 DEF IsChild
    <3> QED BY <1>1, <1>2, <2>3, <3>3
  <2>4. CASE c # top /\ c # r
    <3>1. IsChild(heap, heap[c].parent, c) /\ heap2[c].parent = heap[c].parent /\ c # Null
      BY <1>1, <1>2, <2>1, <2>4
    <3>2. CASE heap[c].parent # p
      <4>1. heap2[heap[c].parent].children = heap[heap[c].parent].children
        BY <1>2, <3>1, <3>2 DEF IsChild
      <4> QED BY <1>2, <2>4, <3>1, <4>1 DEF IsChild
    <3>3. CASE heap[c].parent = p
      <4>1. PICK k \in 1..n + 1 : heap[p].children[k] = c
        BY <1>3, <3>1, <3>3 DEF IsChild
      <4>2. i \in 1..n + 1
        BY DEF n
      <4> DEFINE j == IF k < i + 1 THEN k ELSE k + 1
      <4>3. j \in 1..n + 2 /\ j # i + 1 /\ k = IF j < i + 1 THEN j ELSE j - 1
        BY <1>3, <4>2
      <4> HIDE DEF j
      <4>4. heap2[p].children[j] = c
        BY <1>2, <4>1, <4>3
      <4>5. Len(heap2[p].children) = n + 2
        BY <1>2, <1>3
      <4>6. ~heap2[p].leaf /\ p \in DOMAIN heap2
        BY <1>2
      <4>7. IsChild(heap2, p, c)
        BY <4>3, <4>4, <4>5, <4>6 DEF IsChild
      <4> QED BY <1>1, <3>1, <3>3, <4>7, <2>4
    <3> QED BY <3>2, <3>3
  <2> QED BY <2>2, <2>3, <2>4
<1>13. Apart(heap2, h, lo, hi) /\ Whole(heap2, top, h, lo, hi, Null, Null)
  <2>1. End(hi, l, r, top) = End(hi, Null, Null, top)
    BY <1>1, <1>4
  <2> QED BY <1>1, <1>2, <2>1 DEF Apart, Whole
<1>14. Chain(heap2, top, lo, hi, Null, Null)
  <2> SUFFICES ASSUME NEW b \in S, heap[b].leaf PROVE Linked(heap2, top, lo, hi, Null, Null, b)
    BY <1>2 DEF Chain
  <2>1. Linked(heap, top, lo, hi, l, r, b)
    BY <1>1 DEF Chain
  <2>2. End(hi, l, r, top) = End(hi, Null, Null, top)
    BY <1>1, <1>4
  <2> QED BY <1>2, <2>1, <2>2 DEF Linked
<1>15. Filled(heap2, top, IF n + 1 > MaxKeys THEN p ELSE Null, Null)
  <2> DEFINE over == IF n + 1 > MaxKeys THEN p ELSE Null
  <2>1. \A b \in S : b # p => FilledAt(heap2, top, over, Null, b)
    <3> TAKE b \in S
    <3> HAVE b # p
    <3>1. FilledAt(heap, top, Null, Null, b) /\ b # Null /\ b # over
      BY <1>1 DEF Filled
    <3>2. heap2[b].keys = heap[b].keys /\ heap2[b].leaf = heap[b].leaf
      BY <1>2
    <3> HIDE DEF over
    <3> QED BY <3>1, <3>2 DEF FilledAt
  <2>2. FilledAt(heap2, top, over, Null, p)
    <3>1. FilledAt(heap, top, Null, Null, p) /\ p # Null
      BY <1>1 DEF Filled
    <3>2. Len(heap2[p].keys) = n + 1 /\ n \in Nat /\ heap2[p].leaf = heap[p].leaf
      BY <1>2, <1>3
    <3>3. MaxKeys \in Int /\ MinimumOf(heap[p].leaf) \in Int
      BY OrderAssumption DEF MaxKeys, MinimumOf, MinLeafKeys, MinInternalKeys
    <3>4. n <= MaxKeys /\ n >= IF p = top THEN 1 ELSE MinimumOf(heap[p].leaf)
      BY <3>1 DEF FilledAt, n
    <3>5. p = over => n + 1 = MaxKeys + 1
      BY <3>1, <3>2, <3>3, <3>4
    <3>6. p # over => n + 1 <= MaxKeys
      BY <3>1, <3>2, <3>3, <3>4
    <3> HIDE DEF over
    <3> QED BY <3>1, <3>2, <3>3, <3>4, <3>5, <3>6 DEF FilledAt
  <2>3. over \in {Null} \cup S
    OBVIOUS
  <2> HIDE DEF over
  <2>4. Filled(heap2, top, over, Null)
    BY <1>2, <2>1, <2>2, <2>3 DEF Filled
  <2> QED BY <2>4 DEF over
<1> QED BY <1>2, <1>8, <1>10, <1>11, <1>12, <1>13, <1>14, <1>15 DEF Resting, Tree, Pending, n

-----------------------------------------------------------------------------
(* A root that is given up. *)

\* A node that has enough keys is not short of one.
LEMMA EnoughKeeps ==
  ASSUME NEW heap, NEW top, NEW h, NEW lo, NEW hi, NEW a \in DOMAIN heap,
         Resting(heap, top, h, lo, hi, Null, a),
         Len(heap[a].keys) >= IF a = top THEN 1 ELSE MinimumOf(heap[a].leaf)
  PROVE  Resting(heap, top, h, lo, hi, Null, Null)
<1>1. Filled(heap, top, Null, a) /\ a # Null
  BY Parts
<1>2. \A b \in DOMAIN heap : b # Null
  BY Parts
<1>3. \A b \in DOMAIN heap : FilledAt(heap, top, Null, Null, b)
  <2> TAKE b \in DOMAIN heap
  <2>1. FilledAt(heap, top, Null, a, b) /\ b # Null
    BY <1>1, <1>2 DEF Filled
  <2>2. CASE b = a
    BY <2>1, <2>2 DEF FilledAt
  <2>3. CASE b # a
    BY <2>1, <2>3 DEF FilledAt
  <2> QED BY <2>2, <2>3
<1>4. Filled(heap, top, Null, Null)
  BY <1>3 DEF Filled
<1> QED BY <1>4 DEF Resting, Tree

\* Only the root is as high as the root; when that is a leaf there is nothing else.
LEMMA OnlyRoot ==
  ASSUME NEW heap, NEW top, NEW h, NEW lo, NEW hi, NEW over, NEW short,
         Resting(heap, top, h, lo, hi, over, short), NEW b \in DOMAIN heap, b # top
  PROVE  h[b] < h[top] /\ ~heap[top].leaf
<1>1. /\ Kinds(heap, h) /\ Apart(heap, h, lo, hi) /\ top \in DOMAIN heap
      /\ \A a \in DOMAIN heap : /\ lo[a] \in Int /\ hi[a] \in Int /\ h[a] \in Nat
                                /\ lo[a] < hi[a] /\ lo[top] <= lo[a] /\ hi[a] <= hi[top]
                                /\ h[a] <= h[top]
  BY Parts
<1>2. h[b] # h[top]
  <2> SUFFICES ASSUME h[b] = h[top] PROVE FALSE
    OBVIOUS
  <2>1. hi[b] <= lo[top] \/ hi[top] <= lo[b]
    BY <1>1 DEF Apart
  <2>2. /\ lo[b] \in Int /\ hi[b] \in Int /\ lo[top] \in Int /\ hi[top] \in Int
        /\ lo[b] < hi[b] /\ lo[top] <= lo[b] /\ hi[b] <= hi[top]
    BY <1>1
  <2> QED BY <2>1, <2>2
<1>3. h[b] < h[top] /\ h[b] \in Nat /\ h[top] \in Nat
  BY <1>1, <1>2
<1>4. heap[top].leaf => h[top] = 0
  BY <1>1 DEF Kinds, KindOf
<1> QED BY <1>3, <1>4

\* The tree without a node.
LEMMA NoNodes ==
  ASSUME NEW heap, DOMAIN heap = {}, heap \in [DOMAIN heap -> NodeFields]
  PROVE  \E h, lo, hi : Resting(heap, Null, h, lo, hi, Null, Null)
<1> DEFINE z == [a \in DOMAIN heap |-> 0]
<1>1. Heap(heap)
  BY FS_EmptySet DEF Heap
<1>2. z \in [DOMAIN heap -> Nat] /\ z \in [DOMAIN heap -> Int]
  OBVIOUS
<1> HIDE DEF z
<1>3. Kinds(heap, z) /\ Ordered(heap, z, z)
  BY <1>2 DEF Kinds, Ordered
<1>4. /\ Down(heap, z, z, z, Null, Null) /\ Up(heap, Null, Null) /\ Apart(heap, z, z, z)
      /\ Whole(heap, Null, z, z, z, Null, Null) /\ Chain(heap, Null, z, z, Null, Null)
      /\ Filled(heap, Null, Null, Null)
  BY DEF Down, Up, Apart, Whole, Chain, Filled
<1>5. Resting(heap, Null, z, z, z, Null, Null)
  BY <1>1, <1>3, <1>4 DEF Resting, Tree, Pending
<1> QED BY <1>5

\* What ShrinkRoot makes of the heap when the root has one child, c.
Promoted(heap, heap2, top, c) ==
  /\ Heap(heap2) /\ DOMAIN heap2 = DOMAIN heap \ {top}
  /\ \A b \in DOMAIN heap2 :
        /\ heap2[b].leaf = heap[b].leaf /\ heap2[b].keys = heap[b].keys
        /\ heap2[b].values = heap[b].values /\ heap2[b].children = heap[b].children
        /\ heap2[b].next = heap[b].next /\ heap2[b].previous = heap[b].previous
        /\ heap2[b].parent = IF b = c THEN Null ELSE heap[b].parent

\* The children of a node hang from it.
LEMMA ChildrenHang ==
  ASSUME NEW heap, NEW h, NEW lo, NEW hi,
         Heap(heap), Kinds(heap, h), Ordered(heap, lo, hi), Down(heap, h, lo, hi, Null, Null)
  PROVE  \A a \in DOMAIN heap : ~heap[a].leaf =>
            /\ Len(heap[a].children) = Len(heap[a].keys) + 1
            /\ \A i \in 1..Len(heap[a].keys) + 1 : Hangs(heap, h, lo, hi, Null, Null, a, i)
BY ChildrenApart

\* Deleting a root without keys keeps the tree: its only child is the root, one level lower.
LEMMA ShrinkKeeps ==
  ASSUME NEW heap, NEW heap2, NEW top, NEW h, NEW lo, NEW hi, NEW c,
         Resting(heap, top, h, lo, hi, Null, top), top \in DOMAIN heap,
         ~heap[top].leaf, Len(heap[top].keys) = 0, c = heap[top].children[1],
         Promoted(heap, heap2, top, c),
         NEW h2, NEW lo2, NEW hi2,
         Without(h, h2, top), Without(lo, lo2, top), Without(hi, hi2, top)
  PROVE  Resting(heap2, c, h2, lo2, hi2, Null, Null)
<1> DEFINE S == DOMAIN heap
           B == S \ {top}
<1>1. /\ Heap(heap) /\ Kinds(heap, h) /\ Ordered(heap, lo, hi)
      /\ Down(heap, h, lo, hi, Null, Null) /\ Up(heap, top, Null) /\ Apart(heap, h, lo, hi)
      /\ Chain(heap, top, lo, hi, Null, Null)
      /\ Filled(heap, top, Null, top)
      /\ \A b \in S : /\ b # Null /\ End(hi, Null, Null, b) = hi[b]
                      /\ lo[b] \in Int /\ hi[b] \in Int /\ h[b] \in Nat
                      /\ lo[b] < hi[b] /\ lo[top] <= lo[b] /\ hi[b] <= hi[top] /\ h[b] <= h[top]
  BY Parts
<1>2. /\ Heap(heap2) /\ DOMAIN heap2 = B
      /\ \A b \in B :
            /\ heap2[b].leaf = heap[b].leaf /\ heap2[b].keys = heap[b].keys
            /\ heap2[b].values = heap[b].values /\ heap2[b].children = heap[b].children
            /\ heap2[b].next = heap[b].next /\ heap2[b].previous = heap[b].previous
            /\ heap2[b].parent = IF b = c THEN Null ELSE heap[b].parent
  BY DEF Promoted
<1>3. /\ h2 \in [B -> Nat] /\ lo2 \in [B -> Int] /\ hi2 \in [B -> Int]
      /\ \A b \in B : h2[b] = h[b] /\ lo2[b] = lo[b] /\ hi2[b] = hi[b]
  <2>1. lo \in [S -> Int] /\ hi \in [S -> Int] /\ h \in [S -> Nat]
    BY <1>1 DEF Ordered, Kinds
  <2>2. h2 = [b \in B |-> h[b]] /\ lo2 = [b \in B |-> lo[b]] /\ hi2 = [b \in B |-> hi[b]]
    BY <2>1 DEF Without
  <2> QED BY <2>1, <2>2
<1>4. /\ Len(heap[top].children) = 1 /\ Hangs(heap, h, lo, hi, Null, Null, top, 1)
  <2>1. /\ Len(heap[top].children) = Len(heap[top].keys) + 1
        /\ \A i \in 1..Len(heap[top].keys) + 1 : Hangs(heap, h, lo, hi, Null, Null, top, i)
    BY <1>1, ChildrenHang
  <2>2. Len(heap[top].keys) = 0 /\ 1 \in 1..0 + 1
    OBVIOUS
  <2> QED BY <2>1, <2>2
<1>5. c \in S /\ heap[c].parent = top /\ h[c] + 1 = h[top] /\ lo[c] = lo[top] /\ hi[c] = hi[top] /\ c # top
  <2>1. c \in S /\ heap[c].parent = top /\ h[c] + 1 = h[top] /\ lo[c] = lo[top]
    BY <1>4 DEF Hangs, ChildLow
  <2>2. hi[c] = hi[top]
    BY <1>1, <1>4, <2>1 DEF Hangs, ChildHigh
  <2>3. c # top
    BY <1>1, <2>1
  <2> QED BY <2>1, <2>2, <2>3
<1>6. \A b \in B : b # Null /\ End(hi2, Null, Null, b) = hi[b]
  BY <1>1, <1>3 DEF End
<1>7. Kinds(heap2, h2)
  <2>1. \A b \in B : KindOf(heap2, h2, b)
    <3> TAKE b \in B
    <3>1. KindOf(heap, h, b)
      BY <1>1 DEF Kinds
    <3>2. /\ heap2[b].leaf = heap[b].leaf /\ heap2[b].keys = heap[b].keys
          /\ heap2[b].values = heap[b].values /\ heap2[b].children = heap[b].children
          /\ heap2[b].next = heap[b].next /\ heap2[b].previous = heap[b].previous
          /\ h2[b] = h[b]
      BY <1>2, <1>3
    <3> QED BY <3>1, <3>2 DEF KindOf
  <2> QED BY <1>2, <1>3, <2>1 DEF Kinds
<1>8. Ordered(heap2, lo2, hi2)
  <2>1. \A b \in B : InOrder(heap2, lo2, hi2, b)
    <3> TAKE b \in B
    <3>1. InOrder(heap, lo, hi, b)
      BY <1>1 DEF Ordered
    <3>2. heap2[b].keys = heap[b].keys /\ heap2[b].leaf = heap[b].leaf /\ lo2[b] = lo[b] /\ hi2[b] = hi[b]
      BY <1>2, <1>3
    <3> QED BY <3>1, <3>2 DEF InOrder
  <2> QED BY <1>2, <1>3, <2>1 DEF Ordered
<1>9. Down(heap2, h2, lo2, hi2, Null, Null)
  <2> SUFFICES ASSUME NEW b \in B, ~heap2[b].leaf, NEW j \in 1..Len(heap2[b].children)
               PROVE  Hangs(heap2, h2, lo2, hi2, Null, Null, b, j)
    BY <1>2 DEF Down
  <2> DEFINE x == heap[b].children[j]
  <2>1. /\ heap2[b].children = heap[b].children /\ heap2[b].keys = heap[b].keys
        /\ lo2[b] = lo[b] /\ hi2[b] = hi[b] /\ h2[b] = h[b] /\ ~heap[b].leaf
    BY <1>2, <1>3
  <2>2. /\ x \in S /\ heap[x].parent = b /\ h[x] + 1 = h[b]
        /\ lo[x] = ChildLow(heap, lo, b, j) /\ End(hi, Null, Null, x) = ChildHigh(heap, hi, b, j)
    BY <1>1, <2>1 DEF Down, Hangs
  <2>3. x = heap2[b].children[j]
    BY <2>1
  <2> HIDE DEF x
  <2>4. x # top /\ x # c
    BY <1>1, <1>5, <2>2 DEF Up
  <2>5. x \in B /\ heap2[x].parent = b /\ lo2[x] = lo[x] /\ h2[x] = h[x]
    BY <1>2, <1>3, <2>2, <2>4
  <2>6. End(hi2, Null, Null, x) = End(hi, Null, Null, x)
    BY <1>1, <1>6, <2>5
  <2>7. ChildLow(heap2, lo2, b, j) = ChildLow(heap, lo, b, j)
    BY <2>1 DEF ChildLow
  <2>8. ChildHigh(heap2, hi2, b, j) = ChildHigh(heap, hi, b, j)
    BY <2>1 DEF ChildHigh
  <2> QED BY <1>2, <2>1, <2>2, <2>3, <2>5, <2>6, <2>7, <2>8 DEF Hangs
<1>10. Up(heap2, c, Null)
  <2> SUFFICES ASSUME NEW b \in B
               PROVE  IF b \in {c, Null} THEN heap2[b].parent = Null
                      ELSE IsChild(heap2, heap2[b].parent, b)
    BY <1>2 DEF Up
  <2>1. CASE b = c
    BY <1>2, <2>1
  <2>2. CASE b # c
    <3>1. IsChild(heap, heap[b].parent, b) /\ heap2[b].parent = heap[b].parent /\ b # Null
      BY <1>1, <1>2, <2>2 DEF Up
    <3>2. heap[b].parent # top
      <4> SUFFICES ASSUME heap[b].parent = top PROVE FALSE
        OBVIOUS
      <4>1. \E i \in 1..1 : heap[top].children[i] = b
        BY <1>4, <3>1 DEF IsChild
      <4>2. heap[top].children[1] = b
        BY <4>1
      <4> QED BY <2>2, <4>2
    <3>3. IsChild(heap2, heap[b].parent, b)
      BY <1>2, <3>1, <3>2 DEF IsChild
    <3> QED BY <2>2, <3>1, <3>3
  <2> QED BY <2>1, <2>2
<1>11. Apart(heap2, h2, lo2, hi2)
  BY <1>1, <1>2, <1>3 DEF Apart
<1>12. Whole(heap2, c, h2, lo2, hi2, Null, Null)
  <2>1. \A b \in B : h[b] <= h[c]
    <3> TAKE b \in B
    <3>1. h[b] < h[top]
      BY OnlyRoot
    <3>2. h[b] \in Nat /\ h[c] \in Nat
      BY <1>1, <1>5
    <3> QED BY <1>5, <3>1, <3>2
  <2>2. c \in B /\ c # Null
    BY <1>1, <1>5
  <2>3. \A b \in B : h2[b] <= h2[c] /\ lo2[c] <= lo2[b] /\ hi2[b] <= hi2[c]
    BY <1>1, <1>3, <1>5, <2>1, <2>2
  <2>4. End(hi2, Null, Null, c) = hi2[c]
    BY <2>2 DEF End
  <2> QED BY <1>2, <2>2, <2>3, <2>4 DEF Whole
<1>13. Chain(heap2, c, lo2, hi2, Null, Null)
  <2> SUFFICES ASSUME NEW b \in B, heap[b].leaf PROVE Linked(heap2, c, lo2, hi2, Null, Null, b)
    BY <1>2 DEF Chain
  <2>1. Linked(heap, top, lo, hi, Null, Null, b)
    BY <1>1 DEF Chain
  <2>2. End(hi2, Null, Null, c) = hi[top] /\ lo2[c] = lo[top] /\ End(hi, Null, Null, top) = hi[top]
    BY <1>1, <1>3, <1>5, <1>6
  <2>3. \A x \in S : heap[x].leaf => x \in B
    OBVIOUS
  <2>4. \A x \in B : /\ heap2[x].leaf = heap[x].leaf /\ heap2[x].previous = heap[x].previous
                     /\ heap2[x].next = heap[x].next /\ lo2[x] = lo[x] /\ hi2[x] = hi[x]
    BY <1>2, <1>3
  <2> QED BY <1>2, <2>1, <2>2, <2>3, <2>4 DEF Linked
<1>14. Filled(heap2, c, Null, Null)
  <2>1. \A b \in B : FilledAt(heap2, c, Null, Null, b)
    <3> TAKE b \in B
    <3>1. FilledAt(heap, top, Null, top, b) /\ b # Null
      BY <1>1 DEF Filled
    <3>2. heap2[b].keys = heap[b].keys /\ heap2[b].leaf = heap[b].leaf
      BY <1>2
    <3>3. MinimumOf(heap[b].leaf) >= 1 /\ MinimumOf(heap[b].leaf) \in Int
      BY OrderAssumption DEF MinimumOf, MinLeafKeys, MinInternalKeys
    <3>4. Len(heap[b].keys) <= MaxKeys /\ Len(heap[b].keys) >= MinimumOf(heap[b].leaf)
      BY <3>1 DEF FilledAt
    <3>5. Len(heap[b].keys) \in Nat
      BY <1>1, Fields
    <3>6. Len(heap[b].keys) >= 1
      BY <3>3, <3>4, <3>5
    <3> QED BY <3>1, <3>2, <3>4, <3>6 DEF FilledAt
  <2> QED BY <1>2, <2>1 DEF Filled
<1> QED BY <1>2, <1>7, <1>8, <1>9, <1>10, <1>11, <1>12, <1>13, <1>14 DEF Resting, Tree, Pending

-----------------------------------------------------------------------------
(* What is below the root. *)

\* f gives, at every place of S, the places at and below it.
Gathers(S, kids, f) ==
  f = [x \in {Null} \cup S |-> IF x = Null THEN {} ELSE {x} \cup UNION {f[c] : c \in kids[x]}]

\* There is such a function, whatever kids is.
LEMMA GatherExists ==
  ASSUME NEW S, Null \notin S, NEW kids \in [S -> SUBSET S]
  PROVE  \E f : Gathers(S, kids, f)
<1> DEFINE Closed(P) == \A y \in P : kids[y] \subseteq P
           f == [x \in {Null} \cup S |-> IF x = Null THEN {}
                   ELSE {y \in S : \A P \in SUBSET S : Closed(P) /\ x \in P => y \in P}]
<1>1. \A x \in S : \A y : y \in f[x] <=>
                     y \in S /\ \A P \in SUBSET S : Closed(P) /\ x \in P => y \in P
  OBVIOUS
<1>2. f[Null] = {} /\ f = [x \in {Null} \cup S |-> f[x]]
  OBVIOUS
<1> HIDE DEF f
<1>3. ASSUME NEW x \in S
      PROVE  f[x] = {x} \cup UNION {f[c] : c \in kids[x]}
  <2> DEFINE R == {x} \cup UNION {f[c] : c \in kids[x]}
  <2>1. kids[x] \subseteq S
    OBVIOUS
  <2>2. \A c \in S : c \in f[c] /\ f[c] \subseteq S /\ Closed(f[c])
    <3> TAKE c \in S
    <3>1. c \in f[c] /\ f[c] \subseteq S
      BY <1>1
    <3>2. ASSUME NEW y \in f[c], NEW z \in kids[y] PROVE z \in f[c]
      <4>1. y \in S /\ z \in S
        BY <3>1, <3>2
      <4>2. ASSUME NEW P \in SUBSET S, Closed(P), c \in P PROVE z \in P
        <5>1. y \in P
          BY <1>1, <3>2, <4>2
        <5> QED BY <3>2, <4>2, <5>1
      <4> QED BY <1>1, <4>1, <4>2
    <3> QED BY <3>1, <3>2
  <2>3. R \in SUBSET S /\ x \in R
    BY <2>1, <2>2
  <2>4. Closed(R)
    <3> SUFFICES ASSUME NEW y \in R, NEW z \in kids[y] PROVE z \in R
      OBVIOUS
    <3>1. CASE y = x
      <4>1. z \in kids[x] /\ z \in f[z]
        BY <2>1, <2>2, <3>1
      <4> QED BY <4>1
    <3>2. CASE y # x
      <4>1. PICK c \in kids[x] : y \in f[c]
        BY <3>2
      <4>2. z \in f[c]
        BY <2>1, <2>2, <4>1
      <4> QED BY <4>2
    <3> QED BY <3>1, <3>2
  <2>5. \A y \in f[x] : y \in R
    <3> HIDE DEF R
    <3> QED BY <1>1, <2>3, <2>4
  <2>6. \A y \in R : y \in f[x]
    <3> TAKE y \in R
    <3>1. CASE y = x
      BY <2>2, <3>1
    <3>2. CASE y # x
      <4>1. PICK c \in kids[x] : y \in f[c]
        BY <3>2
      <4>2. c \in S /\ y \in S
        BY <2>1, <2>2, <4>1
      <4>3. ASSUME NEW P \in SUBSET S, Closed(P), x \in P PROVE y \in P
        <5>1. c \in P
          BY <4>1, <4>3
        <5> QED BY <1>1, <4>1, <4>2, <4>3, <5>1
      <4> QED BY <1>1, <4>2, <4>3
    <3> QED BY <3>1, <3>2
  <2>7. f[x] = R
    <3> HIDE DEF R
    <3> QED BY <2>5, <2>6
  <2> QED BY <2>7
<1>4. \A x \in {Null} \cup S : f[x] = IF x = Null THEN {} ELSE {x} \cup UNION {f[c] : c \in kids[x]}
  BY <1>2, <1>3
<1>5. Gathers(S, kids, f)
  BY <1>2, <1>4 DEF Gathers
<1> QED BY <1>5

\* Where a rank falls from a place to what is below it, every such function gives the same:
\* places of S, the place itself among them, and with each of them what is below it.
LEMMA GatherGives ==
  ASSUME NEW S, Null \notin S, NEW kids \in [S -> SUBSET S], NEW f, Gathers(S, kids, f),
         NEW rank, \A x \in S : rank[x] \in Nat /\ \A c \in kids[x] : rank[c] < rank[x]
  PROVE  /\ f[Null] = {}
         /\ \A x \in S : x \in f[x] /\ f[x] \subseteq S /\ \A y \in f[x] : kids[y] \subseteq f[x]
<1>1. f[Null] = {} /\ \A x \in S : f[x] = {x} \cup UNION {f[c] : c \in kids[x]}
  <2>1. f = [x \in {Null} \cup S |-> IF x = Null THEN {} ELSE {x} \cup UNION {f[c] : c \in kids[x]}]
    BY DEF Gathers
  <2>2. \A x \in {Null} \cup S : f[x] = IF x = Null THEN {} ELSE {x} \cup UNION {f[c] : c \in kids[x]}
    BY <2>1
  <2> QED BY <2>2
<1> DEFINE Good(x) == x \in f[x] /\ f[x] \subseteq S /\ \A y \in f[x] : kids[y] \subseteq f[x]
           T == {x \in S : ~Good(x)}
<1>2. ASSUME NEW x \in S, \A c \in kids[x] : Good(c) PROVE Good(x)
  <2>1. kids[x] \subseteq S /\ x \in f[x]
    BY <1>1
  <2>2. \A c \in kids[x] : f[c] \subseteq f[x]
    BY <1>1
  <2>3. f[x] \subseteq S
    BY <1>1, <1>2
  <2>4. ASSUME NEW y \in f[x], NEW z \in kids[y] PROVE z \in f[x]
    <3>1. CASE y = x
      BY <1>2, <2>2, <2>4, <3>1
    <3>2. CASE y # x
      <4>1. PICK c \in kids[x] : y \in f[c]
        BY <1>1, <3>2
      <4> QED BY <1>2, <2>2, <2>4, <4>1
    <3> QED BY <3>1, <3>2
  <2> QED BY <2>1, <2>3, <2>4
<1>3. T = {}
  <2> SUFFICES ASSUME T # {} PROVE FALSE
    OBVIOUS
  <2>1. \A x \in T : rank[x] \in Nat
    OBVIOUS
  <2> HIDE DEF Good
  <2>2. PICK x \in T : \A y \in T : ~(rank[y] < rank[x])
    <3> HIDE DEF T
    <3> QED BY <2>1, LeastRank
  <2>3. \A c \in kids[x] : c \in S /\ rank[c] < rank[x]
    OBVIOUS
  <2>4. \A c \in kids[x] : Good(c)
    BY <2>2, <2>3
  <2> QED BY <1>2, <2>2, <2>4
<1> QED BY <1>1, <1>3

\* The nodes at and below the root are nodes of the heap, and every one of them unless
\* a half is pending.
LEMMA BelowRoot ==
  ASSUME NEW h, NEW lo, NEW hi, NEW left, NEW right, NEW over, NEW short,
         Tree(node, root, h, lo, hi, left, right, over, short)
  PROVE  /\ Below(root) \subseteq DOMAIN node
         /\ right = Null => Below(root) = DOMAIN node
<1> DEFINE S == DOMAIN node
           kids == [x \in S |-> ToSet(node[x].children)]
           Turn(f, x) == IF x = Null THEN {} ELSE {x} \cup UNION {f[c] : c \in ToSet(node[x].children)}
           f == CHOOSE f : f = [x \in {Null} \cup S |-> Turn(f, x)]
<1>1. /\ Heap(node) /\ Kinds(node, h) /\ Down(node, h, lo, hi, left, right) /\ Up(node, root, right)
      /\ Whole(node, root, h, lo, hi, left, right)
  BY DEF Tree
<1>2. Null \notin S /\ \A x \in S : h[x] \in Nat
  BY <1>1 DEF Heap, Kinds
<1>3. Below(root) = f[root]
  BY DEF Below
<1>4. \A x \in S : \A c : c \in kids[x] <=> \E i \in 1..Len(node[x].children) : node[x].children[i] = c
  <2> SUFFICES ASSUME NEW x \in S, NEW c
               PROVE  c \in kids[x] <=> \E i \in 1..Len(node[x].children) : node[x].children[i] = c
    OBVIOUS
  <2>1. node[x].children \in Seq(Nat)
    BY <1>1, Fields
  <2>2. kids[x] = {node[x].children[i] : i \in 1..Len(node[x].children)}
    BY <2>1 DEF ToSet
  <2> QED BY <2>2
<1>5. \A x \in S : \A c \in kids[x] : c \in S /\ h[c] < h[x] /\ ~node[x].leaf
  <2> TAKE x \in S
  <2> TAKE c \in kids[x]
  <2>1. PICK i \in 1..Len(node[x].children) : node[x].children[i] = c
    BY <1>4
  <2>2. ~node[x].leaf
    <3> SUFFICES ASSUME node[x].leaf PROVE FALSE
      OBVIOUS
    <3>1. node[x].children = << >>
      BY <1>1 DEF Kinds, KindOf
    <3> QED BY <2>1, <3>1
  <2>3. Hangs(node, h, lo, hi, left, right, x, i)
    BY <1>1, <2>1, <2>2 DEF Down
  <2>4. c \in S /\ h[c] + 1 = h[x]
    BY <2>1, <2>3 DEF Hangs
  <2> QED BY <1>2, <2>2, <2>4
<1>6. kids \in [S -> SUBSET S]
  <2>1. \A x \in S : kids[x] \in SUBSET S
    BY <1>5
  <2> QED BY <2>1
<1>7. \A d, x : x \in {Null} \cup S =>
          Turn(d, x) = IF x = Null THEN {} ELSE {x} \cup UNION {d[c] : c \in kids[x]}
  BY <1>2
<1> HIDE DEF kids, Turn
<1>8. Gathers(S, kids, f)
  <2>1. PICK g : Gathers(S, kids, g)
    <3> HIDE DEF S
    <3> QED BY <1>2, <1>6, GatherExists
  <2>2. g = [x \in {Null} \cup S |-> Turn(g, x)]
    BY <1>7, <2>1 DEF Gathers
  <2>3. f = [x \in {Null} \cup S |-> Turn(f, x)]
    BY <2>2
  <2> HIDE DEF f
  <2> QED BY <1>7, <2>3 DEF Gathers
<1> HIDE DEF f
<1>9. /\ f[Null] = {}
      /\ \A x \in S : x \in f[x] /\ f[x] \subseteq S /\ \A y \in f[x] : kids[y] \subseteq f[x]
  <2>1. \A x \in S : h[x] \in Nat /\ \A c \in kids[x] : h[c] < h[x]
    BY <1>2, <1>5
  <2> HIDE DEF S
  <2> QED BY <1>2, <1>6, <1>8, <2>1, GatherGives
<1>10. CASE root = Null
  BY <1>1, <1>3, <1>9, <1>10 DEF Whole
<1>11. CASE root # Null
  <2>1. root \in S /\ \A a \in S : h[a] <= h[root]
    BY <1>1, <1>11 DEF Whole
  <2>2. f[root] \subseteq S /\ root \in f[root] /\ \A y \in f[root] : kids[y] \subseteq f[root]
    BY <1>9, <2>1
  <2>3. ASSUME right = Null PROVE f[root] = S
    <3> DEFINE T == S \ f[root]
               rank == [x \in S |-> h[root] - h[x]]
    <3> SUFFICES ASSUME T # {} PROVE FALSE
      BY <2>2
    <3>1. \A x \in T : rank[x] \in Nat
      BY <1>2, <2>1
    <3>2. PICK x \in T : \A y \in T : ~(rank[y] < rank[x])
      <4> HIDE DEF T, rank
      <4> QED BY <3>1, LeastRank
    <3>3. x \in S /\ x # root /\ x # Null
      BY <1>2, <2>2
    <3> DEFINE p == node[x].parent
    <3>4. IsChild(node, p, x)
      BY <1>1, <2>3, <3>3 DEF Up
    <3>5. p \in S /\ x \in kids[p]
      BY <1>4, <3>4 DEF IsChild
    <3>6. h[x] < h[p] /\ h[x] \in Nat /\ h[p] \in Nat /\ h[root] \in Nat
      BY <1>2, <1>5, <2>1, <3>3, <3>5
    <3> HIDE DEF p
    <3>7. rank[p] < rank[x]
      BY <3>3, <3>5, <3>6
    <3>8. p \in f[root]
      BY <3>2, <3>5, <3>7
    <3> QED BY <2>2, <3>5, <3>8
  <2> QED BY <1>3, <2>2, <2>3
<1> QED BY <1>10, <1>11

-----------------------------------------------------------------------------
(* What the invariant implies. *)

\* What a caller's operation may have left to do.
LEMMA Afterwards ==
  ASSUME NEW rest \in After
  PROVE  /\ Len(rest) \in {0, 1} /\ << >> \o rest = rest
         /\ ToSet(rest) \subseteq {InsertLater(k, r) : k \in Keys, r \in Records}
         /\ rest # << >> => Head(rest).call = "Insert" /\ Tail(rest) = << >>
         /\ \E T : rest \in Seq(T)
<1>1. CASE rest = << >>
  <2>1. Len(rest) = 0 /\ ToSet(rest) = {} /\ << >> \o rest = rest /\ rest \in Seq({})
    BY <1>1 DEF ToSet
  <2> QED BY <1>1, <2>1
<1>2. CASE rest # << >>
  <2>1. PICK k \in Keys, r \in Records : rest = <<InsertLater(k, r)>>
    BY <1>2 DEF After
  <2> DEFINE d == InsertLater(k, r)
  <2>2. d.call = "Insert" /\ d \in {InsertLater(q, s) : q \in Keys, s \in Records}
    BY DEF InsertLater
  <2>3. rest = <<d>>
    BY <2>1
  <2> HIDE DEF d
  <2>4. rest \in Seq({d}) /\ << >> \o rest = rest
    BY <2>3
  <2>5. ToSet(<<d>>) = {d}
    BY DEF ToSet
  <2>6. Len(<<d>>) = 1 /\ Head(<<d>>) = d
    OBVIOUS
  <2>7. Tail(<<d>>) = << >>
    OBVIOUS
  <2> QED BY <2>2, <2>3, <2>4, <2>5, <2>6, <2>7
<1> QED BY <1>1, <1>2

\* A call on top of the stack, and what is below it.
LEMMA OnTop ==
  ASSUME NEW rest \in After, NEW c
  PROVE  /\ <<c>> \o rest # << >> /\ Head(<<c>> \o rest) = c /\ Tail(<<c>> \o rest) = rest
         /\ Len(<<c>> \o rest) \in {1, 2}
         /\ ToSet(<<c>> \o rest) = {c} \cup ToSet(rest)
<1> DEFINE s == <<c>> \o rest
<1>1. PICK T : rest \in Seq(T)
  BY Afterwards
<1> DEFINE U == T \cup {c}
<1>2. rest \in Seq(U) /\ c \in U /\ Len(rest) \in {0, 1}
  <2>1. rest \in Seq(U)
    BY <1>1, SeqMonotonic
  <2> QED BY <2>1, Afterwards
<1> HIDE DEF U
<1>3. /\ s \in Seq(U) /\ Len(s) = Len(rest) + 1
      /\ \A i \in 1..Len(rest) + 1 : s[i] = IF i = 1 THEN c ELSE rest[i - 1]
  BY <1>2, ConsElements
<1> HIDE DEF s
<1>4. s # << >> /\ Head(s) = c /\ Len(s) \in {1, 2}
  BY <1>2, <1>3
<1>5. Tail(s) = rest
  <2>1. Tail(s) \in Seq(U) /\ Len(Tail(s)) = Len(rest) /\ \A i \in 1..Len(rest) : Tail(s)[i] = s[i + 1]
    BY <1>3, EndsElements
  <2>2. \A i \in 1..Len(rest) : Tail(s)[i] = rest[i]
    BY <1>2, <1>3, <2>1
  <2> QED BY <1>2, <2>1, <2>2, SeqEqual
<1>6. ToSet(s) = {c} \cup ToSet(rest)
  <2>1. ToSet(s) = {s[i] : i \in 1..Len(s)} /\ ToSet(rest) = {rest[i] : i \in 1..Len(rest)}
    BY <1>2, <1>3 DEF ToSet
  <2>2. CASE Len(rest) = 0
    <3>1. \A i \in 1..Len(s) : i = 1
      BY <1>3, <2>2
    <3> QED BY <1>3, <2>1, <2>2, <3>1
  <2>3. CASE Len(rest) = 1
    <3>1. s[1] = c /\ s[2] = rest[1] /\ Len(s) = 2
      BY <1>3, <2>3
    <3>2. ToSet(rest) = {rest[1]}
      BY <2>1, <2>3
    <3>3. ToSet(s) = {s[1], s[2]}
      <4>1. \A i \in 1..2 : i \in {1, 2}
        OBVIOUS
      <4> QED BY <2>1, <3>1, <4>1
    <3> QED BY <3>1, <3>2, <3>3
  <2> QED BY <1>2, <2>2, <2>3
<1> QED BY <1>4, <1>5, <1>6 DEF s

\* When no operation is under way, nothing is pending.
LEMMA AtRest ==
  ASSUME NEW lo, NEW left, NEW right, NEW over, NEW short, Stack(node, todo, lo, left, right, over, short),
         todo \in After
  PROVE  left = Null /\ right = Null /\ over = Null /\ short = Null
<1>1. ASSUME NEW rest \in After, NEW c, c.call # "Insert", todo = <<c>> \o rest PROVE FALSE
  <2>1. todo # << >> /\ Head(todo) = c
    BY <1>1, OnTop
  <2>2. Head(todo).call = "Insert"
    BY <2>1, Afterwards
  <2> QED BY <1>1, <2>1, <2>2
<1>2. \A a : SplitLeafOf(a).call # "Insert" /\ SplitInternalOf(a).call # "Insert" /\ FixUnderflowOf(a).call # "Insert"
  BY DEF SplitLeafOf, SplitInternalOf, FixUnderflowOf
<1>3. \A a, k, b : ParentGains(a, k, b).call # "Insert"
  BY DEF ParentGains
<1>4. CASE \E rest \in After : todo = <<IF node[over].leaf THEN SplitLeafOf(over) ELSE SplitInternalOf(over)>> \o rest
  <2> DEFINE c == IF node[over].leaf THEN SplitLeafOf(over) ELSE SplitInternalOf(over)
  <2>1. c.call # "Insert" /\ \E rest \in After : todo = <<c>> \o rest
    BY <1>2, <1>4
  <2> HIDE DEF c
  <2> QED BY <1>1, <2>1
<1>5. CASE \E rest \in After : todo = <<FixUnderflowOf(short)>> \o rest
  <2> DEFINE c == FixUnderflowOf(short)
  <2>1. c.call # "Insert" /\ \E rest \in After : todo = <<c>> \o rest
    BY <1>2, <1>5
  <2> HIDE DEF c
  <2> QED BY <1>1, <2>1
<1>6. CASE \E rest \in After : todo = <<ParentGains(left, lo[right], right)>> \o rest
  <2> DEFINE c == ParentGains(left, lo[right], right)
  <2>1. c.call # "Insert" /\ \E rest \in After : todo = <<c>> \o rest
    BY <1>3, <1>6
  <2> HIDE DEF c
  <2> QED BY <1>1, <2>1
<1> QED BY <1>4, <1>5, <1>6 DEF Stack

\* In a tree without a pending half every node is below the root.
LEMMA NothingLeaksAtRest == IInv => NothingLeaks
<1> SUFFICES ASSUME IInv, Idle PROVE DOMAIN node = Below(root)
  BY DEF NothingLeaks
<1>1. PICK h, lo, hi, left, right, over, short :
         /\ Tree(node, root, h, lo, hi, left, right, over, short)
         /\ todo = <<Threw>> \/ Stack(node, todo, lo, left, right, over, short)
  BY DEF IInv
<1>2. todo = << >> /\ todo \in After
  BY DEF Idle, After
<1>3. Stack(node, todo, lo, left, right, over, short)
  BY <1>1, <1>2
<1>4. right = Null
  BY <1>2, <1>3, AtRest
<1> QED BY <1>1, <1>4, BelowRoot

\* The node over, or short of, its bound is the one that the helper on top of the stack is
\* called for.
LEMMA DebtIsDue == IInv => OneNodeInDebt
<1> SUFFICES ASSUME IInv, todo # <<Threw>>, NEW a \in Below(root)
             PROVE  /\ Len(node[a].keys) > MaxKeys =>
                          /\ Len(node[a].keys) = MaxKeys + 1
                          /\ todo # << >> /\ Head(todo) \in {SplitLeafOf(a), SplitInternalOf(a)}
                    /\ a # root /\ Len(node[a].keys) < Minimum(a) =>
                          /\ Len(node[a].keys) = Minimum(a) - 1
                          /\ todo # << >> /\ Head(todo) = FixUnderflowOf(a)
  BY DEF OneNodeInDebt
<1>1. PICK h, lo, hi, left, right, over, short :
         /\ Tree(node, root, h, lo, hi, left, right, over, short)
         /\ Stack(node, todo, lo, left, right, over, short)
  BY DEF IInv
<1> DEFINE free == IF left = root THEN Null ELSE root
<1>2. a \in DOMAIN node
  BY <1>1, BelowRoot
<1>3. Filled(node, free, over, short) /\ Heap(node)
  BY <1>1 DEF Tree
<1>4. FilledAt(node, free, over, short, a)
  BY <1>2, <1>3 DEF Filled
<1>5. Minimum(a) = MinimumOf(node[a].leaf) /\ Minimum(a) \in Int /\ MaxKeys \in Int
  BY OrderAssumption DEF Minimum, MinimumOf, MinLeafKeys, MinInternalKeys, MaxKeys
<1>6. Len(node[a].keys) \in Nat /\ a # Null
  BY <1>2, <1>3, Fields
<1>7. a # root => a # free
  BY <1>6
<1> HIDE DEF free
<1>8. Len(node[a].keys) > MaxKeys => a = over /\ Len(node[a].keys) = MaxKeys + 1
  BY <1>4, <1>5, <1>6 DEF FilledAt
<1>9. a # root /\ Len(node[a].keys) < Minimum(a) => a = short /\ Len(node[a].keys) = Minimum(a) - 1
  BY <1>4, <1>5, <1>6, <1>7 DEF FilledAt
<1>10. a = over => todo # << >> /\ Head(todo) \in {SplitLeafOf(a), SplitInternalOf(a)}
  <2> SUFFICES ASSUME a = over PROVE todo # << >> /\ Head(todo) \in {SplitLeafOf(a), SplitInternalOf(a)}
    OBVIOUS
  <2> DEFINE c == IF node[over].leaf THEN SplitLeafOf(over) ELSE SplitInternalOf(over)
  <2>1. \E rest \in After : todo = <<c>> \o rest
    BY <1>1, <1>6 DEF Stack
  <2>2. c \in {SplitLeafOf(a), SplitInternalOf(a)}
    OBVIOUS
  <2> HIDE DEF c
  <2> QED BY <2>1, <2>2, OnTop
<1>11. a = short => todo # << >> /\ Head(todo) = FixUnderflowOf(a)
  <2> SUFFICES ASSUME a = short PROVE todo # << >> /\ Head(todo) = FixUnderflowOf(a)
    OBVIOUS
  <2>1. \E rest \in After : todo = <<FixUnderflowOf(short)>> \o rest
    BY <1>1, <1>6 DEF Stack
  <2> QED BY <2>1, OnTop
<1> QED BY <1>8, <1>9, <1>10, <1>11

\* The types are part of the invariant.
LEMMA TypesHold == IInv => TypeOK
<1> SUFFICES ASSUME IInv PROVE TypeOK
  OBVIOUS
<1>1. PICK h, lo, hi, left, right, over, short :
         /\ Tree(node, root, h, lo, hi, left, right, over, short)
         /\ todo = <<Threw>> \/ Stack(node, todo, lo, left, right, over, short)
  BY DEF IInv
<1>2. /\ Heap(node) /\ Kinds(node, h) /\ Down(node, h, lo, hi, left, right) /\ Up(node, root, right)
      /\ Whole(node, root, h, lo, hi, left, right) /\ Chain(node, root, lo, hi, left, right)
      /\ Pending(node, root, h, lo, hi, left, right)
      /\ Filled(node, IF left = root THEN Null ELSE root, over, short)
  BY <1>1 DEF Tree
<1>3. root \in {Null} \cup DOMAIN node
  BY <1>2 DEF Whole
<1>4. size \in Nat
  BY FS_CardinalityType DEF IInv
<1>5. ASSUME NEW a \in DOMAIN node
      PROVE  /\ a \in Nat \ {Null} /\ node[a].leaf \in BOOLEAN /\ ToSet(node[a].keys) \subseteq Keys
             /\ node[a].values \in Seq(Seq(Records)) /\ ToSet(node[a].children) \subseteq DOMAIN node
             /\ {node[a].parent, node[a].next, node[a].previous} \subseteq {Null} \cup DOMAIN node
  <2>1. /\ a \in Nat \ {Null} /\ node[a].leaf \in BOOLEAN /\ node[a].values \in Seq(Seq(Records))
        /\ node[a].keys \in Seq(Keys) /\ node[a].children \in Seq(Nat)
    BY <1>2, Fields
  <2>2. ToSet(node[a].keys) \subseteq Keys
    BY <2>1 DEF ToSet
  <2>3. \A i \in 1..Len(node[a].children) : node[a].children[i] \in DOMAIN node
    <3> TAKE i \in 1..Len(node[a].children)
    <3>1. ~node[a].leaf
      <4> SUFFICES ASSUME node[a].leaf PROVE FALSE
        OBVIOUS
      <4>1. node[a].children = << >>
        BY <1>2 DEF Kinds, KindOf
      <4> QED BY <4>1
    <3> QED BY <1>2, <3>1 DEF Down, Hangs
  <2>4. ToSet(node[a].children) \subseteq DOMAIN node
    <3> DEFINE cs == node[a].children
    <3>1. cs \in Seq(Nat) /\ \A i \in 1..Len(cs) : cs[i] \in DOMAIN node
      BY <2>1, <2>3
    <3> HIDE DEF cs
    <3>2. DOMAIN cs = 1..Len(cs)
      BY <3>1
    <3>3. ToSet(cs) = {cs[i] : i \in 1..Len(cs)}
      BY <3>2 DEF ToSet
    <3>4. ToSet(cs) \subseteq DOMAIN node
      BY <3>1, <3>3
    <3> QED BY <3>4 DEF cs
  <2>5. node[a].parent \in {Null} \cup DOMAIN node
    BY <1>2 DEF Up, IsChild
  <2>6. node[a].next \in {Null} \cup DOMAIN node /\ node[a].previous \in {Null} \cup DOMAIN node
    <3>1. CASE node[a].leaf
      BY <1>2, <3>1 DEF Chain, Linked
    <3>2. CASE ~node[a].leaf
      BY <1>2, <3>2 DEF Kinds, KindOf
    <3> QED BY <3>1, <3>2
  <2> QED BY <2>1, <2>2, <2>4, <2>5, <2>6
<1>6. Len(todo) <= 2 /\ ToSet(todo) \subseteq Calls
  <2>1. \A k \in Keys, r \in Records : InsertLater(k, r) \in Calls
    BY DEF Calls, InsertLater
  <2>2. {InsertLater(k, r) : k \in Keys, r \in Records} \subseteq Calls
    BY <2>1
  <2>20. \A rest \in After : ToSet(rest) \subseteq Calls
    <3> TAKE rest \in After
    <3>1. ToSet(rest) \subseteq {InsertLater(k, r) : k \in Keys, r \in Records}
      BY Afterwards
    <3> QED BY <2>2, <3>1
  <2>3. ASSUME NEW rest \in After, NEW c \in Calls, todo = <<c>> \o rest PROVE Len(todo) <= 2 /\ ToSet(todo) \subseteq Calls
    <3>1. Len(todo) \in {1, 2} /\ ToSet(todo) = {c} \cup ToSet(rest)
      <4>1. Len(<<c>> \o rest) \in {1, 2} /\ ToSet(<<c>> \o rest) = {c} \cup ToSet(rest)
        BY OnTop
      <4> QED BY <2>3, <4>1
    <3>2. ToSet(rest) \subseteq Calls
      BY <2>20
    <3>3. ToSet(todo) \subseteq Calls
      BY <3>1, <3>2, Zenon
    <3>4. Len(todo) \in {1, 2}
      BY <3>1
    <3>5. Len(todo) <= 2
      <4> DEFINE n == Len(todo)
      <4>1. n \in {1, 2}
        BY <3>4
      <4> HIDE DEF n
      <4>2. n <= 2
        BY <4>1
      <4> QED BY <4>2 DEF n
    <3> QED BY <3>3, <3>5
  <2>4. CASE todo = <<Threw>>
    <3>1. ToSet(todo) = {Threw} /\ Len(todo) = 1
      BY <2>4 DEF ToSet
    <3> QED BY <3>1 DEF Calls
  <2>5. CASE todo \in After
    <3>1. Len(todo) \in {0, 1} /\ ToSet(todo) \subseteq {InsertLater(k, r) : k \in Keys, r \in Records}
      BY <2>5, Afterwards
    <3> QED BY <2>2, <3>1
  <2>6. \A a \in DOMAIN node : /\ SplitLeafOf(a) \in Calls /\ SplitInternalOf(a) \in Calls
                               /\ FixUnderflowOf(a) \in Calls
    BY DEF SplitLeafOf, SplitInternalOf, FixUnderflowOf, Calls
  <2>7. \A a, b \in DOMAIN node, k \in Keys : ParentGains(a, k, b) \in Calls
    BY DEF ParentGains, Calls
  <2>8. CASE over # Null /\ \E rest \in After :
               todo = <<IF node[over].leaf THEN SplitLeafOf(over) ELSE SplitInternalOf(over)>> \o rest
    <3> DEFINE c == IF node[over].leaf THEN SplitLeafOf(over) ELSE SplitInternalOf(over)
    <3>1. over \in DOMAIN node
      BY <1>2, <2>8 DEF Filled
    <3>2. c \in Calls /\ \E rest \in After : todo = <<c>> \o rest
      BY <2>6, <2>8, <3>1
    <3> HIDE DEF c
    <3> QED BY <2>3, <3>2
  <2>9. CASE short # Null /\ \E rest \in After : todo = <<FixUnderflowOf(short)>> \o rest
    <3>1. short \in DOMAIN node
      BY <1>2, <2>9 DEF Filled
    <3> QED BY <2>3, <2>6, <2>9, <3>1
  <2>10. CASE left # Null /\ right # Null /\ lo[right] \in Keys
              /\ \E rest \in After : todo = <<ParentGains(left, lo[right], right)>> \o rest
    <3>1. left \in DOMAIN node /\ right \in DOMAIN node
      BY <1>2, <2>10 DEF Pending
    <3> QED BY <2>3, <2>7, <2>10, <3>1
  <2> QED BY <1>1, <2>4, <2>5, <2>8, <2>9, <2>10 DEF Stack
<1> QED BY <1>3, <1>4, <1>5, <1>6 DEF TypeOK

-----------------------------------------------------------------------------
(* What the call on top of the stack tells of the tree. *)

\* The four shapes of the stack, told apart by the call on top.
LEMMA CallOnTop ==
  ASSUME IInv, todo # << >>, Head(todo).call \in {"SplitLeaf", "SplitInternal", "InsertIntoParent", "FixUnderflow"}
  PROVE  /\ Rest \in After
         /\ \E h, lo, hi, left, right, over, short :
              /\ Tree(node, root, h, lo, hi, left, right, over, short)
              /\ \/ /\ left = Null /\ right = Null /\ over # Null /\ short = Null
                    /\ Head(todo) = IF node[over].leaf THEN SplitLeafOf(over) ELSE SplitInternalOf(over)
                 \/ /\ left = Null /\ right = Null /\ over = Null /\ short # Null
                    /\ Head(todo) = FixUnderflowOf(short)
                 \/ /\ left # Null /\ right # Null /\ over = Null /\ short = Null
                    /\ lo[right] \in Keys
                    /\ Head(todo) = ParentGains(left, lo[right], right)
<1>1. PICK h, lo, hi, left, right, over, short :
         /\ Tree(node, root, h, lo, hi, left, right, over, short)
         /\ todo = <<Threw>> \/ Stack(node, todo, lo, left, right, over, short)
  BY DEF IInv
<1>2. todo # <<Threw>>
  BY DEF Threw
<1>3. todo \notin After
  <2> SUFFICES ASSUME todo \in After PROVE FALSE
    OBVIOUS
  <2>1. Head(todo).call = "Insert"
    BY Afterwards
  <2> QED BY <2>1
<1>4. ASSUME NEW c, NEW rest \in After, todo = <<c>> \o rest PROVE Head(todo) = c /\ Rest \in After
  <2>1. Head(<<c>> \o rest) = c /\ Tail(<<c>> \o rest) = rest
    BY OnTop
  <2> QED BY <1>4, <2>1 DEF Rest
<1>5. CASE /\ left = Null /\ right = Null /\ over # Null /\ short = Null
           /\ \E rest \in After :
                todo = <<IF node[over].leaf THEN SplitLeafOf(over) ELSE SplitInternalOf(over)>> \o rest
  <2> DEFINE c == IF node[over].leaf THEN SplitLeafOf(over) ELSE SplitInternalOf(over)
  <2>1. \E rest \in After : todo = <<c>> \o rest
    BY <1>5
  <2> HIDE DEF c
  <2>2. Head(todo) = c /\ Rest \in After
    BY <1>4, <2>1
  <2> QED BY <1>1, <1>5, <2>2 DEF c
<1>6. CASE /\ left = Null /\ right = Null /\ over = Null /\ short # Null
           /\ \E rest \in After : todo = <<FixUnderflowOf(short)>> \o rest
  <2>2. Head(todo) = FixUnderflowOf(short) /\ Rest \in After
    BY <1>4, <1>6
  <2> QED BY <1>1, <1>6, <2>2
<1>7. CASE /\ left # Null /\ right # Null /\ over = Null /\ short = Null
           /\ lo[right] \in Keys
           /\ \E rest \in After : todo = <<ParentGains(left, lo[right], right)>> \o rest
  <2>2. Head(todo) = ParentGains(left, lo[right], right) /\ Rest \in After
    BY <1>4, <1>7
  <2> QED BY <1>1, <1>7, <2>2
<1> QED BY <1>1, <1>2, <1>3, <1>5, <1>6, <1>7 DEF Stack

\* The parts of the four calls.
LEMMA CallNames ==
  \A a, k, b : /\ SplitLeafOf(a).call = "SplitLeaf" /\ SplitLeafOf(a).node = a
               /\ SplitInternalOf(a).call = "SplitInternal" /\ SplitInternalOf(a).node = a
               /\ FixUnderflowOf(a).call = "FixUnderflow" /\ FixUnderflowOf(a).node = a
               /\ ParentGains(a, k, b).call = "InsertIntoParent" /\ ParentGains(a, k, b).node = a
               /\ ParentGains(a, k, b).key = k /\ ParentGains(a, k, b).right = b
BY DEF SplitLeafOf, SplitInternalOf, FixUnderflowOf, ParentGains

\* SplitLeaf is called on a leaf with one key too many.
LEMMA WhenSplitLeaf ==
  ASSUME IInv, Called("SplitLeaf")
  PROVE  Rest \in After /\ Callee \in DOMAIN node /\ node[Callee].leaf
         /\ \E h, lo, hi : Resting(node, root, h, lo, hi, Callee, Null)
<1>1. todo # << >> /\ Head(todo).call = "SplitLeaf"
  BY DEF Called
<1>2. /\ Rest \in After
      /\ \E h, lo, hi, left, right, over, short :
           /\ Tree(node, root, h, lo, hi, left, right, over, short)
           /\ left = Null /\ right = Null /\ over # Null /\ short = Null
           /\ Head(todo) = IF node[over].leaf THEN SplitLeafOf(over) ELSE SplitInternalOf(over)
  BY <1>1, CallOnTop, CallNames
<1>3. PICK h, lo, hi, over : /\ Tree(node, root, h, lo, hi, Null, Null, over, Null) /\ over # Null
                             /\ Head(todo) = IF node[over].leaf THEN SplitLeafOf(over) ELSE SplitInternalOf(over)
  BY <1>2
<1>4. node[over].leaf /\ Callee = over
  BY <1>1, <1>3, CallNames DEF Callee
<1>5. over \in DOMAIN node
  BY <1>3 DEF Tree, Filled
<1>6. Resting(node, root, h, lo, hi, Callee, Null)
  BY <1>3, <1>4 DEF Resting
<1> QED BY <1>2, <1>4, <1>5, <1>6

\* SplitInternal is called on an internal node with one key too many.
LEMMA WhenSplitInternal ==
  ASSUME IInv, Called("SplitInternal")
  PROVE  Rest \in After /\ Callee \in DOMAIN node /\ ~node[Callee].leaf
         /\ \E h, lo, hi : Resting(node, root, h, lo, hi, Callee, Null)
<1>1. todo # << >> /\ Head(todo).call = "SplitInternal"
  BY DEF Called
<1>2. /\ Rest \in After
      /\ \E h, lo, hi, left, right, over, short :
           /\ Tree(node, root, h, lo, hi, left, right, over, short)
           /\ left = Null /\ right = Null /\ over # Null /\ short = Null
           /\ Head(todo) = IF node[over].leaf THEN SplitLeafOf(over) ELSE SplitInternalOf(over)
  BY <1>1, CallOnTop, CallNames
<1>3. PICK h, lo, hi, over : /\ Tree(node, root, h, lo, hi, Null, Null, over, Null) /\ over # Null
                             /\ Head(todo) = IF node[over].leaf THEN SplitLeafOf(over) ELSE SplitInternalOf(over)
  BY <1>2
<1>4. ~node[over].leaf /\ Callee = over
  BY <1>1, <1>3, CallNames DEF Callee
<1>5. over \in DOMAIN node
  BY <1>3 DEF Tree, Filled
<1>6. Resting(node, root, h, lo, hi, Callee, Null)
  BY <1>3, <1>4 DEF Resting
<1> QED BY <1>2, <1>4, <1>5, <1>6

\* InsertIntoParent is called on the two halves of a node, with the key that begins the right
\* one's interval.
LEMMA WhenInsertIntoParent ==
  ASSUME IInv, Called("InsertIntoParent")
  PROVE  /\ Rest \in After /\ Head(todo).right # Null /\ Head(todo).key \in Keys
         /\ \E h, lo, hi : /\ Tree(node, root, h, lo, hi, Callee, Head(todo).right, Null, Null)
                           /\ Head(todo).key = lo[Head(todo).right]
<1>1. todo # << >> /\ Head(todo).call = "InsertIntoParent"
  BY DEF Called
<1>2. /\ Rest \in After
      /\ \E h, lo, hi, left, right, over, short :
           /\ Tree(node, root, h, lo, hi, left, right, over, short)
           /\ left # Null /\ right # Null /\ over = Null /\ short = Null /\ lo[right] \in Keys
           /\ Head(todo) = ParentGains(left, lo[right], right)
  BY <1>1, CallOnTop, CallNames
<1>3. PICK h, lo, hi, left, right : /\ Tree(node, root, h, lo, hi, left, right, Null, Null)
                                    /\ right # Null /\ lo[right] \in Keys
                                    /\ Head(todo) = ParentGains(left, lo[right], right)
  BY <1>2
<1>4. Callee = left /\ Head(todo).right = right /\ Head(todo).key = lo[right]
  BY <1>3, CallNames DEF Callee
<1> QED BY <1>2, <1>3, <1>4

\* FixUnderflow is called on a node that may be a key short.
LEMMA WhenFixUnderflow ==
  ASSUME IInv, Called("FixUnderflow")
  PROVE  Rest \in After /\ Callee \in DOMAIN node
         /\ \E h, lo, hi : Resting(node, root, h, lo, hi, Null, Callee)
<1>1. todo # << >> /\ Head(todo).call = "FixUnderflow"
  BY DEF Called
<1>2. /\ Rest \in After
      /\ \E h, lo, hi, left, right, over, short :
           /\ Tree(node, root, h, lo, hi, left, right, over, short)
           /\ left = Null /\ right = Null /\ over = Null /\ short # Null
           /\ Head(todo) = FixUnderflowOf(short)
  BY <1>1, CallOnTop, CallNames
<1>3. PICK h, lo, hi, short : /\ Tree(node, root, h, lo, hi, Null, Null, Null, short) /\ short # Null
                              /\ Head(todo) = FixUnderflowOf(short)
  BY <1>2
<1>4. Callee = short
  BY <1>3, CallNames DEF Callee
<1>5. short \in DOMAIN node
  BY <1>3 DEF Tree, Filled
<1>6. Resting(node, root, h, lo, hi, Null, Callee)
  BY <1>3, <1>4 DEF Resting
<1> QED BY <1>2, <1>4, <1>5, <1>6

\* Between two helpers the tree is at rest.
LEMMA WhenResting ==
  ASSUME IInv, todo \in After
  PROVE  \E h, lo, hi : Resting(node, root, h, lo, hi, Null, Null)
<1>1. PICK h, lo, hi, left, right, over, short :
         /\ Tree(node, root, h, lo, hi, left, right, over, short)
         /\ todo = <<Threw>> \/ Stack(node, todo, lo, left, right, over, short)
  BY DEF IInv
<1>2. todo # <<Threw>>
  <2> SUFFICES ASSUME todo = <<Threw>> PROVE FALSE
    OBVIOUS
  <2>1. Head(todo).call = "Threw" /\ todo # << >>
    BY DEF Threw
  <2>2. Head(todo).call = "Insert"
    BY <2>1, Afterwards
  <2> QED BY <2>1, <2>2
<1>3. left = Null /\ right = Null /\ over = Null /\ short = Null
  BY <1>1, <1>2, AtRest
<1> QED BY <1>1, <1>3 DEF Resting

\* The insertion of Update finds the tree at rest.
LEMMA WhenInsert ==
  ASSUME IInv, Called("Insert")
  PROVE  todo \in After /\ Rest \in After /\ Head(todo).key \in Keys /\ Head(todo).record \in Records
<1>1. todo # << >> /\ Head(todo).call = "Insert"
  BY DEF Called
<1>2. PICK h, lo, hi, left, right, over, short :
         /\ Tree(node, root, h, lo, hi, left, right, over, short)
         /\ todo = <<Threw>> \/ Stack(node, todo, lo, left, right, over, short)
  BY DEF IInv
<1>3. todo # <<Threw>>
  BY <1>1 DEF Threw
<1>4. ASSUME NEW c, NEW rest \in After, todo = <<c>> \o rest PROVE Head(todo) = c
  <2>1. Head(<<c>> \o rest) = c
    BY OnTop
  <2> QED BY <1>4, <2>1
<1>5. ~\E rest \in After : todo = <<IF node[over].leaf THEN SplitLeafOf(over) ELSE SplitInternalOf(over)>> \o rest
  <2> DEFINE c == IF node[over].leaf THEN SplitLeafOf(over) ELSE SplitInternalOf(over)
  <2>1. c.call # "Insert"
    BY CallNames
  <2> HIDE DEF c
  <2>2. ~\E rest \in After : todo = <<c>> \o rest
    BY <1>1, <1>4, <2>1
  <2> QED BY <2>2 DEF c
<1>6. ~\E rest \in After : todo = <<FixUnderflowOf(short)>> \o rest
  BY <1>1, <1>4, CallNames
<1>7. ~\E rest \in After : todo = <<ParentGains(left, lo[right], right)>> \o rest
  BY <1>1, <1>4, CallNames
<1>8. todo \in After
  BY <1>2, <1>3, <1>5, <1>6, <1>7 DEF Stack
<1>9. PICK k \in Keys, r \in Records : todo = <<InsertLater(k, r)>>
  BY <1>1, <1>8 DEF After
<1>10. Head(todo) = InsertLater(k, r) /\ Rest = << >>
  BY <1>9 DEF Rest
<1> QED BY <1>8, <1>10 DEF InsertLater, After

-----------------------------------------------------------------------------
(* The posting lists that the leaves hold. *)

\* Two heaps whose leaves hold the same posting lists.
SamePostings(heap, heap2) == \A k, l : Holds(heap2, k, l) <=> Holds(heap, k, l)

\* The keys are those of the posting lists.
LEMMA SameKeys ==
  ASSUME NEW heap, NEW heap2, SamePostings(heap, heap2)
  PROVE  KeysOf(heap2) = KeysOf(heap)
<1>1. \A k : Posted(heap, k) <=> \E l : Holds(heap, k, l)
  BY DEF Posted, Holds
<1>2. \A k : Posted(heap2, k) <=> \E l : Holds(heap2, k, l)
  BY DEF Posted, Holds
<1>3. \A k : Posted(heap, k) <=> Posted(heap2, k)
  BY <1>1, <1>2 DEF SamePostings
<1> QED BY <1>3 DEF KeysOf

\* They do when their leaves are the same.
LEMMA SameLeaves ==
  ASSUME NEW heap, NEW heap2,
         \A b \in DOMAIN heap : heap[b].leaf => /\ b \in DOMAIN heap2 /\ heap2[b].leaf
                                                /\ heap2[b].keys = heap[b].keys
                                                /\ heap2[b].values = heap[b].values,
         \A b \in DOMAIN heap2 : heap2[b].leaf => b \in DOMAIN heap /\ heap[b].leaf
  PROVE  SamePostings(heap, heap2)
<1>1. \A b : (b \in DOMAIN heap /\ heap[b].leaf) <=> (b \in DOMAIN heap2 /\ heap2[b].leaf)
  OBVIOUS
<1>2. \A b \in DOMAIN heap2 : heap2[b].leaf => heap2[b].keys = heap[b].keys /\ heap2[b].values = heap[b].values
  OBVIOUS
<1> QED BY <1>1, <1>2 DEF SamePostings, Holds

\* The posting list beside the i-th key of a node.
HoldsAt(heap, a, k, l) == \E i \in 1..Len(heap[a].keys) : heap[a].keys[i] = k /\ heap[a].values[i] = l

\* What two leaves hold together is the same in both heaps, and the others have not changed.
\* Either of the two may be missing before or after.
OthersSame(heap, heap2, l, r) ==
    \A b : b \notin {l, r} => /\ b \in DOMAIN heap2 <=> b \in DOMAIN heap
                              /\ b \in DOMAIN heap => /\ heap2[b].leaf = heap[b].leaf
                                                      /\ heap[b].leaf => /\ heap2[b].keys = heap[b].keys
                                                                         /\ heap2[b].values = heap[b].values
\* Those of l and r that are on the heap are leaves.
BothLeaves(heap, l, r) == \A b \in {l, r} : b \in DOMAIN heap => heap[b].leaf
\* One of l and r has the list x at the key k.
HoldTogether(heap, l, r, k, x) == \E b \in {l, r} : b \in DOMAIN heap /\ HoldsAt(heap, b, k, x)
\* l and r hold the same posting lists on both heaps, between them.
SameTogether(heap, heap2, l, r) ==
    \A k, x : HoldTogether(heap2, l, r, k, x) <=> HoldTogether(heap, l, r, k, x)

\* Then they hold the same posting lists.
LEMMA SamePair ==
  ASSUME NEW heap, NEW heap2, NEW l, NEW r, OthersSame(heap, heap2, l, r),
         BothLeaves(heap, l, r), BothLeaves(heap2, l, r), SameTogether(heap, heap2, l, r)
  PROVE  SamePostings(heap, heap2)
<1> SUFFICES ASSUME NEW k, NEW x PROVE Holds(heap2, k, x) <=> Holds(heap, k, x)
  BY DEF SamePostings
<1>1. Holds(heap, k, x) <=> \E b \in DOMAIN heap : heap[b].leaf /\ HoldsAt(heap, b, k, x)
  BY DEF Holds, HoldsAt
<1>2. Holds(heap2, k, x) <=> \E b \in DOMAIN heap2 : heap2[b].leaf /\ HoldsAt(heap2, b, k, x)
  BY DEF Holds, HoldsAt
<1>3. \A b : b \notin {l, r} => (b \in DOMAIN heap2 /\ heap2[b].leaf /\ HoldsAt(heap2, b, k, x)
                                   <=> b \in DOMAIN heap /\ heap[b].leaf /\ HoldsAt(heap, b, k, x))
  BY DEF HoldsAt, OthersSame
<1> DEFINE H(b)  == b \in DOMAIN heap /\ heap[b].leaf /\ HoldsAt(heap, b, k, x)
           H2(b) == b \in DOMAIN heap2 /\ heap2[b].leaf /\ HoldsAt(heap2, b, k, x)
<1>4. (\E b \in {l, r} : H2(b)) <=> (\E b \in {l, r} : H(b))
  BY DEF BothLeaves, SameTogether, HoldTogether
<1>5. (\E b : H2(b)) <=> (\E b : H(b))
  BY <1>3, <1>4
<1> QED BY <1>1, <1>2, <1>5

-----------------------------------------------------------------------------
(* The step of SplitLeaf. *)

\* The number of keys a leaf, or an internal node, may have below the root.
LeafFits(n)     == n \in MinLeafKeys..MaxKeys
InternalFits(n) == n \in MinInternalKeys..MaxKeys

\* A leaf that is one key over its bound splits into two leaves that are both
\* within their bounds (SplitLeaf's splitPoint, whatever m_Order is).
THEOREM LeafSplitFits ==
    /\ LeafFits(LeafSplitPoint(MaxKeys + 1))
    /\ LeafFits(MaxKeys + 1 - LeafSplitPoint(MaxKeys + 1))
BY OrderAssumption DEF LeafFits, LeafSplitPoint, MaxKeys, MinLeafKeys

\* The same of an internal node, which gives one key to its parent.
THEOREM InternalSplitFits ==
    /\ InternalFits(InternalSplitPoint(MaxKeys + 1))
    /\ InternalFits(MaxKeys + 1 - InternalSplitPoint(MaxKeys + 1) - 1)
BY OrderAssumption DEF InternalFits, InternalSplitPoint, MaxKeys, MinInternalKeys

\* A node one key short and a sibling without a key to spare fit into one node;
\* internal nodes take the separator between them as well (MergeNodes).
THEOREM MergeFits ==
    /\ LeafFits((MinLeafKeys - 1) + MinLeafKeys)
    /\ InternalFits((MinInternalKeys - 1) + 1 + MinInternalKeys)
BY OrderAssumption DEF LeafFits, InternalFits, MaxKeys, MinLeafKeys, MinInternalKeys

\* new returns an address at which no node is.
LEMMA FreshIsFree ==
    ASSUME IsFiniteSet(DOMAIN node)
    PROVE  Fresh \in Nat \ {Null} /\ Fresh \notin DOMAIN node
<1> DEFINE n == Cardinality(DOMAIN node)
<1>1. n \in Nat
  BY FS_CardinalityType
<1>2. IsFiniteSet(1..n + 1) /\ Cardinality(1..n + 1) = n + 1
  BY <1>1, FS_Interval
<1>3. ~(1..n + 1 \subseteq DOMAIN node)
  BY <1>1, <1>2, FS_Subset
<1>4. \E a \in 1..n + 1 : a \notin DOMAIN node
  BY <1>3
<1> QED
  BY <1>1, <1>4 DEF Fresh, Null

\* Bounds of the constants.
LEMMA Bounds0 ==
  /\ MaxKeys \in Nat /\ MaxKeys >= 2 /\ MinLeafKeys \in Nat /\ MinLeafKeys >= 1
  /\ MinInternalKeys \in Nat /\ MinInternalKeys >= 1
  /\ MinimumOf(TRUE) = MinLeafKeys /\ MinimumOf(FALSE) = MinInternalKeys
BY OrderAssumption DEF MaxKeys, MinLeafKeys, MinInternalKeys, MinimumOf

\* A function from finitely many addresses to nodes is a heap.
LEMMA HeapOf ==
  ASSUME NEW heap, heap = [a \in DOMAIN heap |-> heap[a]], DOMAIN heap \subseteq Nat \ {Null},
         IsFiniteSet(DOMAIN heap), \A a \in DOMAIN heap : heap[a] \in NodeFields
  PROVE  Heap(heap)
BY DEF Heap

\* In and out of a chain of leaves.
LEMMA NextIsOther ==
  ASSUME NEW heap, NEW top, NEW h, NEW lo, NEW hi, NEW over, NEW short,
         Resting(heap, top, h, lo, hi, over, short), NEW c \in DOMAIN heap, heap[c].leaf
  PROVE  heap[c].next # c /\ heap[c].previous # c /\ \A b \in DOMAIN heap : heap[b].parent # c
<1>1. /\ Chain(heap, top, lo, hi, Null, Null) /\ Up(heap, top, Null)
      /\ c # Null /\ lo[c] \in Int /\ hi[c] \in Int /\ lo[c] < hi[c]
  BY Parts
<1>2. Linked(heap, top, lo, hi, Null, Null, c)
  BY <1>1 DEF Chain
<1>3. heap[c].next # c /\ heap[c].previous # c
  BY <1>1, <1>2 DEF Linked
<1>4. \A b \in DOMAIN heap : heap[b].parent # c
  BY <1>1 DEF Up, IsChild
<1> QED BY <1>3, <1>4

\* What SplitLeaf makes of the fields of every node.
LEMMA SplitLeafFields ==
  ASSUME Heap(node), Callee \in DOMAIN node, node[Callee].next # Callee, SplitLeaf
  PROVE  LET c == Callee
             f == Fresh
             n == LeafSplitPoint(Len(node[c].keys))
         IN  /\ DOMAIN node' = DOMAIN node \cup {f}
             /\ node' = [b \in DOMAIN node' |-> node'[b]]
             /\ \A b \in DOMAIN node : b # c =>
                   /\ node'[b].leaf = node[b].leaf /\ node'[b].keys = node[b].keys
                   /\ node'[b].values = node[b].values /\ node'[b].children = node[b].children
                   /\ node'[b].parent = node[b].parent /\ node'[b].next = node[b].next
                   /\ node'[b].previous = IF b = node[c].next THEN f ELSE node[b].previous
                   /\ node'[b] \in NodeFields
             /\ node'[c].leaf = node[c].leaf /\ node'[c].keys = SubSeq(node[c].keys, 1, n)
             /\ node'[c].values = SubSeq(node[c].values, 1, n) /\ node'[c].children = node[c].children
             /\ node'[c].parent = node[c].parent /\ node'[c].next = f
             /\ node'[c].previous = node[c].previous
             /\ node'[f].leaf = TRUE /\ node'[f].keys = Drop(node[c].keys, n)
             /\ node'[f].values = Drop(node[c].values, n) /\ node'[f].children = << >>
             /\ node'[f].parent = Null /\ node'[f].next = node[c].next /\ node'[f].previous = c
             /\ n \in 0..Len(node[c].keys) /\ Len(node[c].values) = Len(node[c].keys) =>
                   node'[c] \in NodeFields /\ node'[f] \in NodeFields
<1> DEFINE c == Callee
           f == Fresh
           old   == node[Callee]
           n     == LeafSplitPoint(Len(old.keys))
           right == [NewLeaf EXCEPT !.keys = Drop(old.keys, n), !.values = Drop(old.values, n),
                                    !.next = old.next, !.previous = Callee]
           left  == [old EXCEPT !.keys = SubSeq(@, 1, n), !.values = SubSeq(@, 1, n),
                                !.next = Fresh]
           heap  == [a \in DOMAIN node |->
                        CASE a = Callee   -> left
                          [] a = old.next -> [node[a] EXCEPT !.previous = Fresh]
                          [] OTHER        -> node[a]]
<1>1. node' = Allocate(right, heap)
  BY DEF SplitLeaf
<1>2. f \notin DOMAIN node /\ f \in Nat
  BY FreshIsFree DEF Heap
<1>3. \A b \in DOMAIN node : node[b] \in NodeFields
  BY DEF Heap
<1>4. heap[c] = left /\ \A b \in DOMAIN node : b # c =>
            heap[b] = IF b = old.next THEN [node[b] EXCEPT !.previous = f] ELSE node[b]
  OBVIOUS
<1>5. /\ right.leaf = TRUE /\ right.keys = Drop(old.keys, n) /\ right.values = Drop(old.values, n)
      /\ right.children = << >> /\ right.parent = Null /\ right.next = old.next /\ right.previous = c
  BY DEF NewLeaf
<1>6. /\ left.leaf = old.leaf /\ left.keys = SubSeq(old.keys, 1, n)
      /\ left.values = SubSeq(old.values, 1, n) /\ left.children = old.children
      /\ left.parent = old.parent /\ left.next = f /\ left.previous = old.previous
  <2>1. old \in NodeFields
    BY <1>3
  <2> HIDE DEF n, old
  <2> QED BY <2>1 DEF NodeFields
<1>7. ASSUME n \in 0..Len(node[c].keys), Len(node[c].values) = Len(node[c].keys)
      PROVE  left \in NodeFields /\ right \in NodeFields
  <2>1. old \in NodeFields /\ c \in Nat
    BY <1>3 DEF Heap
  <2>2. old.keys \in Seq(Keys) /\ old.values \in Seq(Seq(Records)) /\ old.next \in Nat
    BY <2>1 DEF NodeFields
  <2>3. SubSeq(old.keys, 1, n) \in Seq(Keys) /\ Drop(old.keys, n) \in Seq(Keys)
    <3> HIDE DEF n, old
    <3> QED BY <1>7, <2>2, CutElements DEF old
  <2>4. SubSeq(old.values, 1, n) \in Seq(Seq(Records)) /\ Drop(old.values, n) \in Seq(Seq(Records))
    <3> HIDE DEF n, old
    <3> QED BY <1>7, <2>2, CutElements DEF old
  <2> DEFINE ks == SubSeq(old.keys, 1, n)
             vs == SubSeq(old.values, 1, n)
             kd == Drop(old.keys, n)
             vd == Drop(old.values, n)
  <2>5. ks \in Seq(Keys) /\ vs \in Seq(Seq(Records)) /\ kd \in Seq(Keys) /\ vd \in Seq(Seq(Records))
    BY <2>3, <2>4
  <2>6. left = [old EXCEPT !.keys = ks, !.values = vs, !.next = f]
    OBVIOUS
  <2>7. right = [NewLeaf EXCEPT !.keys = kd, !.values = vd, !.next = old.next, !.previous = c]
    OBVIOUS
  <2>8. NewLeaf \in [leaf : BOOLEAN, keys : Seq(Keys), values : Seq(Seq(Records)), children : Seq(Nat),
                     parent : Nat, next : Nat, previous : Nat]
    BY DEF NewLeaf, Null
  <2> HIDE DEF left, right, ks, vs, kd, vd, old
  <2>9. left \in NodeFields
    BY <1>2, <2>1, <2>5, <2>6 DEF NodeFields
  <2>10. right \in NodeFields
    BY <1>2, <2>1, <2>2, <2>5, <2>7, <2>8 DEF NodeFields
  <2> QED BY <2>9, <2>10
<1> HIDE DEF right, left
<1>8. DOMAIN heap = DOMAIN node
  OBVIOUS
<1> HIDE DEF heap
<1>16. node' = [b \in DOMAIN node' |-> node'[b]]
  BY <1>1 DEF Allocate
<1>9. /\ DOMAIN node' = DOMAIN node \cup {f} /\ node'[f] = right
      /\ \A b \in DOMAIN node : node'[b] = heap[b]
  BY <1>1, <1>2, <1>8 DEF Allocate
<1>10. \A b \in DOMAIN node : b # c =>
            node'[b] = IF b = old.next THEN [node[b] EXCEPT !.previous = f] ELSE node[b]
  BY <1>4, <1>9
<1>11. \A b \in DOMAIN node : b # c =>
                   /\ node'[b].leaf = node[b].leaf /\ node'[b].keys = node[b].keys
                   /\ node'[b].values = node[b].values /\ node'[b].children = node[b].children
                   /\ node'[b].parent = node[b].parent /\ node'[b].next = node[b].next
                   /\ node'[b].previous = IF b = node[c].next THEN f ELSE node[b].previous
                   /\ node'[b] \in NodeFields
  <2> TAKE b \in DOMAIN node
  <2> HAVE b # c
  <2>1. node[b] \in NodeFields
    BY <1>3
  <2>2. CASE b = old.next
    <3>1. node'[b] = [node[b] EXCEPT !.previous = f]
      BY <1>10, <2>2
    <3> QED BY <1>2, <2>1, <2>2, <3>1 DEF NodeFields
  <2>3. CASE b # old.next
    <3>1. node'[b] = node[b]
      BY <1>10, <2>3
    <3> QED BY <2>1, <2>3, <3>1 DEF NodeFields
  <2> QED BY <2>2, <2>3
<1>12. node'[c] = left
  BY <1>4, <1>9
<1> HIDE DEF n, f, c
<1>13. /\ node'[c].leaf = old.leaf /\ node'[c].keys = SubSeq(old.keys, 1, n)
       /\ node'[c].values = SubSeq(old.values, 1, n) /\ node'[c].children = old.children
       /\ node'[c].parent = old.parent /\ node'[c].next = f /\ node'[c].previous = old.previous
  BY <1>6, <1>12
<1>14. /\ node'[f].leaf = TRUE /\ node'[f].keys = Drop(old.keys, n)
       /\ node'[f].values = Drop(old.values, n) /\ node'[f].children = << >>
       /\ node'[f].parent = Null /\ node'[f].next = old.next /\ node'[f].previous = c
  BY <1>5, <1>9
<1>15. n \in 0..Len(node[c].keys) /\ Len(node[c].values) = Len(node[c].keys) =>
                   node'[c] \in NodeFields /\ node'[f] \in NodeFields
  BY <1>7, <1>9, <1>12
<1> QED BY <1>9, <1>11, <1>13, <1>14, <1>15, <1>16 DEF c, f, n

\* SplitLeaf keeps the invariant and every posting list.
LEMMA SplitLeafStep ==
  ASSUME IInv, SplitLeaf
  PROVE  IInv' /\ SamePostings(node, node')
<1> DEFINE c == Callee
           f == Fresh
           ks == node[c].keys
           vs == node[c].values
           m == Len(ks)
           n == LeafSplitPoint(m)
<1>1. Rest \in After /\ c \in DOMAIN node /\ node[c].leaf /\ Called("SplitLeaf")
  BY WhenSplitLeaf DEF SplitLeaf
<1>2. PICK h, lo, hi : Resting(node, root, h, lo, hi, c, Null)
  BY WhenSplitLeaf DEF SplitLeaf
<1>3. /\ Heap(node) /\ Kinds(node, h) /\ Ordered(node, lo, hi) /\ Filled(node, root, c, Null)
      /\ c # Null /\ lo[c] \in Int /\ hi[c] \in Int /\ h[c] \in Nat
      /\ root # Null
  BY <1>1, <1>2, Parts
<1>4. m = MaxKeys + 1
  BY <1>1, <1>3 DEF Filled, FilledAt
<1>5. /\ n \in 1..m /\ m - n \in 1..m /\ n \in 0..m /\ m \in Nat
      /\ n <= MaxKeys /\ n >= MinLeafKeys /\ m - n <= MaxKeys /\ m - n >= MinLeafKeys
  BY <1>4, LeafSplitFits, Bounds0 DEF LeafFits
<1>6. /\ node[c].children = << >> /\ Len(vs) = m /\ h[c] = 0
      /\ \A i \in 1..m : vs[i] # << >>
  BY <1>1, <1>3 DEF Kinds, KindOf
<1>7. /\ ks \in Seq(Keys) /\ vs \in Seq(Seq(Records))
      /\ \A i \in 1..m : ks[i] \in Int /\ ks[i] \in Keys
  BY <1>1, <1>3, Fields
<1>8. /\ lo[c] < hi[c]
      /\ \A i, j \in 1..m : i < j => ks[i] < ks[j]
      /\ \A i \in 1..m : lo[c] <= ks[i] /\ ks[i] < hi[c]
  BY <1>1, <1>3 DEF Ordered, InOrder
<1>9. node[c].next # c /\ node[c].previous # c /\ \A b \in DOMAIN node : node[b].parent # c
  BY <1>1, <1>2, NextIsOther
<1>10. f \in Nat \ {Null} /\ f \notin DOMAIN node /\ IsFiniteSet(DOMAIN node)
  BY <1>3, FreshIsFree DEF Heap
<1>11. /\ DOMAIN node' = DOMAIN node \cup {f}
       /\ node' = [b \in DOMAIN node' |-> node'[b]]
       /\ \A b \in DOMAIN node : b # c =>
                   /\ node'[b].leaf = node[b].leaf /\ node'[b].keys = node[b].keys
                   /\ node'[b].values = node[b].values /\ node'[b].children = node[b].children
                   /\ node'[b].parent = node[b].parent /\ node'[b].next = node[b].next
                   /\ node'[b].previous = IF b = node[c].next THEN f ELSE node[b].previous
                   /\ node'[b] \in NodeFields
       /\ node'[c].leaf = node[c].leaf /\ node'[c].keys = SubSeq(ks, 1, n)
       /\ node'[c].values = SubSeq(vs, 1, n) /\ node'[c].children = node[c].children
       /\ node'[c].parent = node[c].parent /\ node'[c].next = f
       /\ node'[c].previous = node[c].previous
       /\ node'[f].leaf = TRUE /\ node'[f].keys = Drop(ks, n)
       /\ node'[f].values = Drop(vs, n) /\ node'[f].children = << >>
       /\ node'[f].parent = Null /\ node'[f].next = node[c].next /\ node'[f].previous = c
       /\ n \in 0..m /\ Len(vs) = m => node'[c] \in NodeFields /\ node'[f] \in NodeFields
  BY <1>1, <1>3, <1>9, SplitLeafFields
<1> HIDE DEF n, m, ks, vs, f, c
<1>12. /\ Len(SubSeq(ks, 1, n)) = n /\ \A i \in 1..n : SubSeq(ks, 1, n)[i] = ks[i]
       /\ Len(Drop(ks, n)) = m - n /\ \A i \in 1..m - n : Drop(ks, n)[i] = ks[n + i]
  BY <1>5, <1>7, CutElements DEF m
<1>13. /\ Len(SubSeq(vs, 1, n)) = n /\ \A i \in 1..n : SubSeq(vs, 1, n)[i] = vs[i]
       /\ Len(Drop(vs, n)) = m - n /\ \A i \in 1..m - n : Drop(vs, n)[i] = vs[n + i]
  <2>1. n \in 0..Len(vs) /\ vs \in Seq(Seq(Records))
    BY <1>5, <1>6, <1>7
  <2>2. /\ Len(SubSeq(vs, 1, n)) = n /\ \A i \in 1..n : SubSeq(vs, 1, n)[i] = vs[i]
        /\ Len(Drop(vs, n)) = Len(vs) - n /\ \A i \in 1..Len(vs) - n : Drop(vs, n)[i] = vs[n + i]
    BY <2>1, CutElements
  <2> QED BY <1>6, <2>2
<1>14. Heap(node')
  <2>1. \A a \in DOMAIN node' : node'[a] \in NodeFields
    BY <1>5, <1>6, <1>11
  <2>2. IsFiniteSet(DOMAIN node') /\ DOMAIN node' \subseteq Nat \ {Null}
    BY <1>3, <1>10, <1>11, FS_AddElement DEF Heap
  <2> QED BY <1>11, <2>1, <2>2, HeapOf
<1> DEFINE sep == ks[n + 1]
<1>15. /\ n + 1 \in 1..m /\ sep \in Keys /\ sep \in Int /\ lo[c] < sep /\ sep < hi[c]
       /\ sep = node'[f].keys[1] /\ sep = Drop(ks, n)[1]
  <2>1. n + 1 \in 1..m /\ 1 \in 1..m /\ 1 < n + 1 /\ 1 \in 1..m - n
    BY <1>5
  <2>2. ks[1] < sep /\ lo[c] <= ks[1] /\ ks[1] \in Int /\ sep \in Int /\ sep < hi[c] /\ sep \in Keys
    BY <1>7, <1>8, <2>1
  <2>3. Drop(ks, n)[1] = sep
    BY <1>12, <2>1
  <2> HIDE DEF sep
  <2> QED BY <1>3, <1>11, <2>1, <2>2, <2>3
<1> HIDE DEF sep
<1>16. Split(node, node', c, f)
  <2>1. \A b \in DOMAIN node : node'[b].leaf = node[b].leaf
    BY <1>1, <1>11
  <2>2. \A b \in DOMAIN node : node'[b].next = IF b = c /\ node[c].leaf THEN f ELSE node[b].next
    BY <1>1, <1>11
  <2>3. \A b \in DOMAIN node : node'[b].previous = IF b = node[c].next THEN f ELSE node[b].previous
    BY <1>9, <1>11
  <2>4. \A b \in DOMAIN node : node[b].parent # c /\ node'[b].parent = node[b].parent
    BY <1>9, <1>11
  <2> QED BY <1>1, <1>11, <1>14, <2>1, <2>2, <2>3, <2>4 DEF Split
<1> DEFINE h2 == [a \in DOMAIN h \cup {f} |-> IF a = f THEN h[c] ELSE h[a]]
           lo2 == [a \in DOMAIN lo \cup {f} |-> IF a = f THEN sep ELSE lo[a]]
           hi1 == [a \in DOMAIN hi \cup {f} |-> IF a = f THEN hi[c] ELSE hi[a]]
           hi2 == [hi1 EXCEPT ![c] = sep]
<1>17. With(h, h2, f, h[c]) /\ With(lo, lo2, f, sep) /\ With(hi, hi1, f, hi[c]) /\ Replaced(hi1, hi2, c, sep)
  BY DEF With, Replaced
<1>18. /\ h2[c] = h[c] /\ h2[f] = h[c] /\ lo2[c] = lo[c] /\ lo2[f] = sep /\ hi2[c] = sep /\ hi2[f] = hi[c]
  <2>1. DOMAIN h = DOMAIN node /\ DOMAIN lo = DOMAIN node /\ DOMAIN hi = DOMAIN node
    BY <1>3 DEF Kinds, Ordered
  <2> QED BY <1>1, <1>10, <2>1
<1> HIDE DEF h2, lo2, hi1, hi2
<1>19. Settled(node', Null, h2, lo2, hi2, c)
  <2>1. Len(node'[c].keys) = n /\ Len(node'[c].values) = n
        /\ \A i \in 1..n : node'[c].keys[i] = ks[i] /\ node'[c].values[i] = vs[i] /\ i \in 1..m
    BY <1>5, <1>11, <1>12, <1>13
  <2>2. KindOf(node', h2, c)
    <3>1. node'[c].leaf /\ node'[c].children = << >> /\ h2[c] = 0
      BY <1>1, <1>6, <1>11, <1>18
    <3>2. \A i \in 1..n : node'[c].values[i] # << >>
      BY <1>6, <2>1
    <3> QED BY <2>1, <3>1, <3>2 DEF KindOf
  <2>3. \A i \in 1..n : ks[i] < sep
    BY <1>5, <1>8, <1>15 DEF sep
  <2>4. InOrder(node', lo2, hi2, c)
    <3>1. node'[c].leaf /\ lo2[c] = lo[c] /\ hi2[c] = sep
      BY <1>1, <1>11, <1>18
    <3>2. \A i, j \in 1..n : i < j => ks[i] < ks[j]
      BY <1>8, <2>1
    <3>3. \A i \in 1..n : lo[c] <= ks[i]
      BY <1>8, <2>1
    <3> QED BY <1>15, <2>1, <2>3, <3>1, <3>2, <3>3 DEF InOrder
  <2>5. FilledAt(node', Null, Null, Null, c)
    BY <1>1, <1>3, <1>5, <1>11, <2>1, Bounds0 DEF FilledAt
  <2> QED BY <1>1, <1>11, <2>2, <2>4, <2>5 DEF Settled
<1>20. Settled(node', Null, h2, lo2, hi2, f)
  <2>1. Len(node'[f].keys) = m - n /\ Len(node'[f].values) = m - n
        /\ \A i \in 1..m - n : node'[f].keys[i] = ks[n + i] /\ node'[f].values[i] = vs[n + i] /\ n + i \in 1..m
    BY <1>5, <1>11, <1>12, <1>13
  <2>2. KindOf(node', h2, f)
    BY <1>1, <1>6, <1>11, <1>18, <2>1 DEF KindOf
  <2>3. \A i, j \in 1..m - n : i < j => ks[n + i] < ks[n + j]
    <3> TAKE i, j \in 1..m - n
    <3> HAVE i < j
    <3>1. n + i \in 1..m /\ n + j \in 1..m /\ n + i < n + j
      BY <1>5
    <3> QED BY <1>8, <3>1
  <2>4. \A i \in 1..m - n : sep <= ks[n + i] /\ ks[n + i] < hi[c]
    <3> TAKE i \in 1..m - n
    <3>1. n + i \in 1..m /\ n + 1 \in 1..m /\ (n + i = n + 1 \/ n + 1 < n + i)
      BY <1>5
    <3> QED BY <1>7, <1>8, <3>1 DEF sep
  <2>5. InOrder(node', lo2, hi2, f)
    BY <1>11, <1>15, <1>18, <2>1, <2>3, <2>4 DEF InOrder
  <2>6. FilledAt(node', Null, Null, Null, f)
    BY <1>5, <1>10, <1>11, <2>1, Bounds0, ZenonT(40) DEF FilledAt
  <2> QED BY <1>11, <2>2, <2>5, <2>6 DEF Settled
<1>21. Tree(node', root, h2, lo2, hi2, c, f, Null, Null)
  BY <1>1, <1>2, <1>10, <1>15, <1>16, <1>17, <1>19, <1>20, SplitKeeps
<1>22. SamePostings(node, node')
  <2>1. OthersSame(node, node', c, f)
    BY <1>11 DEF OthersSame
  <2>2. BothLeaves(node, c, f) /\ BothLeaves(node', c, f)
    BY <1>1, <1>10, <1>11 DEF BothLeaves
  <2>4. SameTogether(node, node', c, f)
    <3> SUFFICES ASSUME NEW k, NEW x
                 PROVE  HoldTogether(node', c, f, k, x) <=> HoldTogether(node, c, f, k, x)
      BY DEF SameTogether
    <3>1. HoldsAt(node, c, k, x) <=> \E i \in 1..m : ks[i] = k /\ vs[i] = x
      BY DEF HoldsAt, m, ks, vs
    <3>2. HoldsAt(node', c, k, x) <=> \E i \in 1..n : ks[i] = k /\ vs[i] = x
      <4>1. node'[c].keys = SubSeq(ks, 1, n) /\ node'[c].values = SubSeq(vs, 1, n)
        BY <1>11
      <4> QED BY <1>12, <1>13, <4>1 DEF HoldsAt
    <3>3. HoldsAt(node', f, k, x) <=> \E i \in 1..m - n : ks[n + i] = k /\ vs[n + i] = x
      <4>1. node'[f].keys = Drop(ks, n) /\ node'[f].values = Drop(vs, n)
        BY <1>11
      <4> QED BY <1>12, <1>13, <4>1 DEF HoldsAt
    <3>4. (\E i \in 1..m : ks[i] = k /\ vs[i] = x)
            => (\E i \in 1..n : ks[i] = k /\ vs[i] = x) \/ (\E i \in 1..m - n : ks[n + i] = k /\ vs[n + i] = x)
      <4> SUFFICES ASSUME NEW i \in 1..m, ks[i] = k /\ vs[i] = x
                   PROVE  (\E j \in 1..n : ks[j] = k /\ vs[j] = x) \/ (\E j \in 1..m - n : ks[n + j] = k /\ vs[n + j] = x)
        OBVIOUS
      <4>1. CASE i <= n
        <5>1. i \in 1..n
          BY <1>5, <4>1
        <5> QED BY <5>1
      <4>2. CASE ~(i <= n)
        <5>1. i - n \in 1..m - n /\ n + (i - n) = i
          BY <1>5, <4>2
        <5> QED BY <5>1
      <4> QED BY <4>1, <4>2
    <3>5. \A i \in 1..n : i \in 1..m
      BY <1>5
    <3>6. \A i \in 1..m - n : n + i \in 1..m
      BY <1>5
    <3>7. HoldTogether(node, c, f, k, x) <=> HoldsAt(node, c, k, x)
      BY <1>1, <1>10 DEF HoldTogether
    <3>8. HoldTogether(node', c, f, k, x) <=> HoldsAt(node', c, k, x) \/ HoldsAt(node', f, k, x)
      BY <1>1, <1>11 DEF HoldTogether
    <3> QED BY <3>1, <3>2, <3>3, <3>4, <3>5, <3>6, <3>7, <3>8
  <2> QED BY <2>1, <2>2, <2>4, SamePair
<1>23. size' = Cardinality(KeysOf(node')) /\ IsFiniteSet(KeysOf(node'))
  BY <1>22, SameKeys DEF IInv, SplitLeaf
<1>24. Stack(node', todo', lo2, c, f, Null, Null)
  <2>1. todo' = <<ParentGains(c, lo2[f], f)>> \o Rest
    <3>1. todo' = <<ParentGains(c, Drop(ks, n)[1], f)>> \o Rest
      BY DEF SplitLeaf, c, f, ks, n, m
    <3> QED BY <1>15, <1>18, <3>1
  <2>2. lo2[f] \in Keys /\ c # Null /\ f # Null
    BY <1>3, <1>10, <1>15, <1>18
  <2> QED BY <1>1, <2>1, <2>2 DEF Stack
<1>25. root' = root
  BY DEF SplitLeaf
<1>26. IInv'
  BY <1>21, <1>23, <1>24, <1>25 DEF IInv
<1> QED BY <1>22, <1>26

-----------------------------------------------------------------------------
(* The steps that change nothing, and of a node that has enough keys. *)

\* Nothing changes: the invariant holds again.
LEMMA StutterKeeps ==
  ASSUME IInv, UNCHANGED vars
  PROVE  IInv'
<1>1. PICK h, lo, hi, left, right, over, short :
         /\ Tree(node, root, h, lo, hi, left, right, over, short)
         /\ (todo = <<Threw>> /\ LeavesHold(node)) \/ Stack(node, todo, lo, left, right, over, short)
  BY DEF IInv
<1>2. node' = node /\ root' = root /\ size' = size /\ todo' = todo
  BY DEF vars
<1>3. size = Cardinality(KeysOf(node)) /\ IsFiniteSet(KeysOf(node))
  BY DEF IInv
<1>4. /\ Tree(node', root', h, lo, hi, left, right, over, short)
      /\ (todo' = <<Threw>> /\ LeavesHold(node')) \/ Stack(node', todo', lo, left, right, over, short)
      /\ size' = Cardinality(KeysOf(node')) /\ IsFiniteSet(KeysOf(node'))
  BY <1>1, <1>2, <1>3
<1> QED BY <1>4 DEF IInv

\* What is left to do when the tree is at rest again.
LEMMA StackAtRest ==
  ASSUME NEW heap, NEW calls \in After, NEW lo
  PROVE  Stack(heap, calls, lo, Null, Null, Null, Null)
BY DEF Stack

\* The invariant from a tree at rest.
LEMMA RestAgain ==
  ASSUME NEW h, NEW lo, NEW hi, Resting(node', root', h, lo, hi, Null, Null), todo' \in After,
         size' = Cardinality(KeysOf(node')), IsFiniteSet(KeysOf(node'))
  PROVE  IInv'
<1>1. Stack(node', todo', lo, Null, Null, Null, Null)
  BY StackAtRest
<1>2. Tree(node', root', h, lo, hi, Null, Null, Null, Null)
  BY DEF Resting
<1> QED BY <1>1, <1>2 DEF IInv

\* The invariant from a tree with one key too many in a node.
LEMMA OverAgain ==
  ASSUME NEW h, NEW lo, NEW hi, NEW over, NEW rest \in After, Resting(node', root', h, lo, hi, over, Null), over # Null,
         todo' = <<IF node'[over].leaf THEN SplitLeafOf(over) ELSE SplitInternalOf(over)>> \o rest,
         size' = Cardinality(KeysOf(node')), IsFiniteSet(KeysOf(node'))
  PROVE  IInv'
<1>1. Stack(node', todo', lo, Null, Null, over, Null)
  BY DEF Stack
<1>2. Tree(node', root', h, lo, hi, Null, Null, over, Null)
  BY DEF Resting
<1> QED BY <1>1, <1>2 DEF IInv

\* The invariant from a tree with one key too few in a node.
LEMMA ShortAgain ==
  ASSUME NEW h, NEW lo, NEW hi, NEW short, NEW rest \in After, Resting(node', root', h, lo, hi, Null, short), short # Null,
         todo' = <<FixUnderflowOf(short)>> \o rest,
         size' = Cardinality(KeysOf(node')), IsFiniteSet(KeysOf(node'))
  PROVE  IInv'
<1>1. Stack(node', todo', lo, Null, Null, Null, short)
  BY DEF Stack
<1>2. Tree(node', root', h, lo, hi, Null, Null, Null, short)
  BY DEF Resting
<1> QED BY <1>1, <1>2 DEF IInv

\* m_Size is still the number of keys when the postings are the same.
LEMMA SizeAgain ==
  ASSUME IInv, SamePostings(node, node'), size' = size
  PROVE  size' = Cardinality(KeysOf(node')) /\ IsFiniteSet(KeysOf(node'))
BY SameKeys DEF IInv

\* FixUnderflow on a node that is not short keeps the invariant and every posting list.
LEMMA EnoughKeysStep ==
  ASSUME IInv, EnoughKeys
  PROVE  IInv' /\ SamePostings(node, node')
<1>1. Rest \in After /\ Callee \in DOMAIN node
  BY WhenFixUnderflow DEF EnoughKeys
<1>2. PICK h, lo, hi : Resting(node, root, h, lo, hi, Null, Callee)
  BY WhenFixUnderflow DEF EnoughKeys
<1>3. /\ node' = node /\ root' = root /\ size' = size /\ todo' = Rest
      /\ Callee # root /\ Len(node[Callee].keys) >= MinimumOf(node[Callee].leaf)
  BY DEF EnoughKeys, Minimum, MinimumOf
<1>4. Resting(node, root, h, lo, hi, Null, Null)
  BY <1>1, <1>2, <1>3, EnoughKeeps
<1>5. SamePostings(node, node')
  BY <1>3 DEF SamePostings
<1>6. size' = Cardinality(KeysOf(node')) /\ IsFiniteSet(KeysOf(node'))
  BY <1>3, <1>5, SizeAgain
<1>7. Resting(node', root', h, lo, hi, Null, Null) /\ todo' \in After
  BY <1>1, <1>3, <1>4
<1> QED BY <1>5, <1>6, <1>7, RestAgain

-----------------------------------------------------------------------------
(* The steps of Insert and Remove. *)

\* The postings of heap2 are those of heap but for one key.
Sets(heap, heap2, key, list) ==
    \A k, l : Holds(heap2, k, l) <=> IF k = key THEN l = list ELSE Holds(heap, k, l)
\* heap2 holds what heap holds, but for the key.
Drops(heap, heap2, key) ==
    \A k, l : Holds(heap2, k, l) <=> k # key /\ Holds(heap, k, l)

\* The same of one leaf.
SetsAt(heap, heap2, a, key, list) ==
    \A k, l : HoldsAt(heap2, a, k, l) <=> IF k = key THEN l = list ELSE HoldsAt(heap, a, k, l)
\* The same of one leaf.
DropsAt(heap, heap2, a, key) ==
    \A k, l : HoldsAt(heap2, a, k, l) <=> k # key /\ HoldsAt(heap, a, k, l)

\* No leaf but a has key.
OnlyAt(heap, a, key) ==
    \A b \in DOMAIN heap : heap[b].leaf /\ b # a => \A l : ~HoldsAt(heap, b, key, l)

\* No node but a changes, and a stays a leaf.
LeafOnly(heap, heap2, a) ==
    /\ a \in DOMAIN heap /\ heap[a].leaf /\ heap2[a].leaf
    /\ DOMAIN heap2 = DOMAIN heap
    /\ \A b \in DOMAIN heap : b # a => heap2[b] = heap[b]

\* A change of one leaf shows in what the leaves hold together.
LEMMA LeafSets ==
  ASSUME NEW heap, NEW heap2, NEW a, LeafOnly(heap, heap2, a), NEW key, OnlyAt(heap, a, key)
  PROVE  /\ \A list : SetsAt(heap, heap2, a, key, list) => Sets(heap, heap2, key, list)
         /\ DropsAt(heap, heap2, a, key) => Drops(heap, heap2, key)
<1> DEFINE Elsewhere(k, l) == \E b \in DOMAIN heap : b # a /\ heap[b].leaf /\ HoldsAt(heap, b, k, l)
<1>1. \A k, l : Holds(heap, k, l) <=> HoldsAt(heap, a, k, l) \/ Elsewhere(k, l)
  <2>1. \A k, l : Holds(heap, k, l) <=> \E b \in DOMAIN heap : heap[b].leaf /\ HoldsAt(heap, b, k, l)
    BY DEF Holds, HoldsAt
  <2> QED BY <2>1 DEF LeafOnly
<1>2. \A k, l : Holds(heap2, k, l) <=> HoldsAt(heap2, a, k, l) \/ Elsewhere(k, l)
  <2>1. \A k, l : Holds(heap2, k, l) <=> \E b \in DOMAIN heap2 : heap2[b].leaf /\ HoldsAt(heap2, b, k, l)
    BY DEF Holds, HoldsAt
  <2>2. \A k, l : \A b \in DOMAIN heap : b # a => (HoldsAt(heap2, b, k, l) <=> HoldsAt(heap, b, k, l))
    BY DEF HoldsAt, LeafOnly
  <2> QED BY <2>1, <2>2 DEF LeafOnly
<1>3. \A l : ~Elsewhere(key, l)
  BY DEF OnlyAt
<1> HIDE DEF Elsewhere
<1>4. ASSUME NEW list, SetsAt(heap, heap2, a, key, list) PROVE Sets(heap, heap2, key, list)
  <2> SUFFICES ASSUME NEW k, NEW l
               PROVE  Holds(heap2, k, l) <=> IF k = key THEN l = list ELSE Holds(heap, k, l)
    BY DEF Sets
  <2>1. HoldsAt(heap2, a, k, l) <=> IF k = key THEN l = list ELSE HoldsAt(heap, a, k, l)
    BY <1>4 DEF SetsAt
  <2> QED BY <1>1, <1>2, <1>3, <2>1
<1>5. ASSUME DropsAt(heap, heap2, a, key) PROVE Drops(heap, heap2, key)
  <2> SUFFICES ASSUME NEW k, NEW l
               PROVE  Holds(heap2, k, l) <=> k # key /\ Holds(heap, k, l)
    BY DEF Drops
  <2>1. HoldsAt(heap2, a, k, l) <=> k # key /\ HoldsAt(heap, a, k, l)
    BY <1>5 DEF DropsAt
  <2> QED BY <1>1, <1>2, <1>3, <2>1
<1> QED BY <1>4, <1>5

\* The keys with postings, after such a change.
LEMMA KeysAfter ==
  ASSUME NEW heap, NEW heap2, NEW key \in Keys
  PROVE  /\ \A list : Sets(heap, heap2, key, list) => KeysOf(heap2) = KeysOf(heap) \cup {key}
         /\ Drops(heap, heap2, key) => KeysOf(heap2) = KeysOf(heap) \ {key}
<1>1. \A k : Posted(heap, k) <=> \E l : Holds(heap, k, l)
  BY DEF Posted, Holds
<1>2. \A k : Posted(heap2, k) <=> \E l : Holds(heap2, k, l)
  BY DEF Posted, Holds
<1>3. ASSUME NEW list, Sets(heap, heap2, key, list) PROVE KeysOf(heap2) = KeysOf(heap) \cup {key}
  <2>1. \A k : Posted(heap2, k) <=> k = key \/ Posted(heap, k)
    BY <1>1, <1>2, <1>3 DEF Sets
  <2> QED BY <2>1 DEF KeysOf
<1>4. ASSUME Drops(heap, heap2, key) PROVE KeysOf(heap2) = KeysOf(heap) \ {key}
  <2>1. \A k : Posted(heap2, k) <=> k # key /\ Posted(heap, k)
    BY <1>1, <1>2, <1>4 DEF Drops
  <2> QED BY <2>1 DEF KeysOf
<1> QED BY <1>3, <1>4

\* A search starts in a tree at rest whose interval can be taken to hold the key.
LEMMA LeafReached ==
  ASSUME IInv, todo \in After, root # Null, NEW key \in Keys
  PROVE  \E h, lo, hi : /\ Resting(node, root, h, lo, hi, Null, Null)
                        /\ lo[root] <= key /\ key < hi[root]
<1>1. PICK h, lo, hi : Resting(node, root, h, lo, hi, Null, Null)
  BY WhenResting
<1>2. key \in Int
  BY KeysAssumption
<1>3. \E lo2, hi2 : Resting(node, root, h, lo2, hi2, Null, Null) /\ lo2[root] <= key /\ key < hi2[root]
  BY <1>1, <1>2, Widen
<1> QED BY <1>3

\* The leaf a descent ends in is the only one that can have the key.
LEMMA OnlyLeaf ==
  ASSUME NEW h, NEW lo, NEW hi, Resting(node, root, h, lo, hi, Null, Null), root # Null,
         NEW key \in Int, lo[root] <= key, key < hi[root]
  PROVE  OnlyAt(node, FindLeaf(key), key)
<1> DEFINE a == FindLeaf(key)
<1>1. a \in DOMAIN node /\ node[a].leaf /\ lo[a] <= key /\ key < hi[a]
  BY FindLeafFinds
<1> HIDE DEF a
<1> SUFFICES ASSUME NEW b \in DOMAIN node, node[b].leaf, b # a, NEW l, HoldsAt(node, b, key, l)
             PROVE  FALSE
  BY DEF OnlyAt, a
<1>2. Kinds(node, h) /\ Ordered(node, lo, hi) /\ Apart(node, h, lo, hi)
  BY Parts
<1>3. PICK i \in 1..Len(node[b].keys) : node[b].keys[i] = key
  BY DEF HoldsAt
<1>4. lo[b] <= key /\ key < hi[b]
  BY <1>2, <1>3 DEF Ordered, InOrder
<1>5. h[a] = h[b]
  BY <1>1, <1>2 DEF Kinds, KindOf
<1> QED BY <1>1, <1>2, <1>4, <1>5, SameNode

\* Node a has new keys and values, and nothing else changes.
Edited(heap, heap2, a, ks, vs) ==
    /\ Heap(heap2) /\ DOMAIN heap2 = DOMAIN heap
    /\ \A b \in DOMAIN heap : b # a => heap2[b] = heap[b]
    /\ heap2[a].keys = ks /\ heap2[a].values = vs
    /\ heap2[a].leaf = heap[a].leaf /\ heap2[a].children = heap[a].children
    /\ heap2[a].parent = heap[a].parent /\ heap2[a].next = heap[a].next
    /\ heap2[a].previous = heap[a].previous

\* What assigning to both vectors of a node does to the heap.
LEMMA BothAssigned ==
  ASSUME NEW heap, Heap(heap), NEW a \in DOMAIN heap, NEW ks \in Seq(Keys), NEW vs \in Seq(Seq(Records)),
         NEW heap2, heap2 = [heap EXCEPT ![a].keys = ks, ![a].values = vs]
  PROVE  Edited(heap, heap2, a, ks, vs)
<1>1. heap[a] \in NodeFields /\ \A b \in DOMAIN heap : heap[b] \in NodeFields
  BY DEF Heap
<1>2. heap2 = [b \in DOMAIN heap |-> IF b = a THEN [heap[a] EXCEPT !.keys = ks, !.values = vs] ELSE heap[b]]
  BY <1>1 DEF NodeFields
<1> DEFINE n == heap[a]
           n2 == [n EXCEPT !.keys = ks, !.values = vs]
<1>3. n \in NodeFields
  BY <1>1
<1> HIDE DEF n
<1>4. /\ n2.keys = ks /\ n2.values = vs /\ n2.leaf = n.leaf /\ n2.children = n.children
      /\ n2.parent = n.parent /\ n2.next = n.next /\ n2.previous = n.previous /\ n2 \in NodeFields
  BY <1>3 DEF NodeFields
<1>5. heap2 = [b \in DOMAIN heap |-> IF b = a THEN n2 ELSE heap[b]]
  BY <1>2 DEF n
<1> HIDE DEF n2
<1>6. /\ DOMAIN heap2 = DOMAIN heap /\ heap2[a] = n2 /\ \A b \in DOMAIN heap : b # a => heap2[b] = heap[b]
      /\ heap2 = [b \in DOMAIN heap2 |-> heap2[b]]
  BY <1>5
<1>7. \A b \in DOMAIN heap2 : heap2[b] \in NodeFields
  BY <1>1, <1>4, <1>6
<1>8. Heap(heap2)
  BY <1>6, <1>7, HeapOf DEF Heap
<1> QED BY <1>4, <1>6, <1>8 DEF Edited, n

\* What assigning to one element of the values does.
LEMMA ListAssigned ==
  ASSUME NEW heap, Heap(heap), NEW a \in DOMAIN heap, NEW i \in 1..Len(heap[a].values), NEW list \in Seq(Records),
         NEW heap2, heap2 = [heap EXCEPT ![a].values[i] = list]
  PROVE  Edited(heap, heap2, a, heap[a].keys, [heap[a].values EXCEPT ![i] = list])
<1> DEFINE ks == heap[a].keys
           vs == [heap[a].values EXCEPT ![i] = list]
<1>1. ks \in Seq(Keys) /\ heap[a].values \in Seq(Seq(Records)) /\ heap[a] \in NodeFields
  BY Fields
<1>2. vs \in Seq(Seq(Records))
  BY <1>1, ReplaceElements
<1>3. heap2 = [heap EXCEPT ![a] = [heap[a] EXCEPT !.values = vs]]
  OBVIOUS
<1> HIDE DEF vs
<1>4. [heap[a] EXCEPT !.values = vs] = [heap[a] EXCEPT !.keys = ks, !.values = vs]
  BY <1>1 DEF NodeFields
<1>5. heap2 = [heap EXCEPT ![a].keys = ks, ![a].values = vs]
  <2> DEFINE n2 == [heap[a] EXCEPT !.keys = ks, !.values = vs]
  <2>1. heap2 = [heap EXCEPT ![a] = n2]
    BY <1>3, <1>4
  <2>2. [heap EXCEPT ![a].keys = ks, ![a].values = vs] = [heap EXCEPT ![a] = n2]
    OBVIOUS
  <2> QED BY <2>1, <2>2
<1> HIDE DEF ks
<1> QED BY <1>1, <1>2, <1>5, BothAssigned DEF ks, vs

\* Keys and values that a leaf may have, within its interval: as many of them as calls for
\* what is noted of the leaf, one too many (over) or one too few (short).
Fitting(ks, vs, low, high, a, top, over, short) ==
    /\ Len(vs) = Len(ks) /\ \A i \in 1..Len(ks) : vs[i] # << >>
    /\ \A i, j \in 1..Len(ks) : i < j => ks[i] < ks[j]
    /\ \A i \in 1..Len(ks) : low <= ks[i] /\ ks[i] < high
    /\ IF over = a THEN Len(ks) = MaxKeys + 1 ELSE Len(ks) <= MaxKeys
    /\ Len(ks) >= (IF a = top THEN 1 ELSE MinLeafKeys) - (IF short = a THEN 1 ELSE 0)

\* A leaf edited within its interval: the tree stays one.
LEMMA EditKeeps ==
  ASSUME NEW heap, NEW heap2, NEW top, NEW h, NEW lo, NEW hi,
         Resting(heap, top, h, lo, hi, Null, Null),
         NEW a \in DOMAIN heap, heap[a].leaf, NEW ks, NEW vs, Edited(heap, heap2, a, ks, vs),
         NEW over \in {Null, a}, NEW short \in {Null, a},
         Fitting(ks, vs, lo[a], hi[a], a, top, over, short)
  PROVE  Resting(heap2, top, h, lo, hi, over, short) /\ LeafOnly(heap, heap2, a)
<1>0. /\ Len(vs) = Len(ks) /\ \A i \in 1..Len(ks) : vs[i] # << >>
      /\ \A i, j \in 1..Len(ks) : i < j => ks[i] < ks[j]
      /\ \A i \in 1..Len(ks) : lo[a] <= ks[i] /\ ks[i] < hi[a]
      /\ IF over = a THEN Len(ks) = MaxKeys + 1 ELSE Len(ks) <= MaxKeys
      /\ Len(ks) >= (IF a = top THEN 1 ELSE MinLeafKeys) - (IF short = a THEN 1 ELSE 0)
  BY DEF Fitting
<1>1. /\ Heap(heap) /\ Kinds(heap, h) /\ Ordered(heap, lo, hi) /\ a # Null
  BY Parts
<1>2. /\ Heap(heap2) /\ DOMAIN heap2 = DOMAIN heap
      /\ \A b \in DOMAIN heap : b # a => heap2[b] = heap[b]
      /\ heap2[a].keys = ks /\ heap2[a].values = vs
      /\ heap2[a].leaf = heap[a].leaf /\ heap2[a].children = heap[a].children
      /\ heap2[a].parent = heap[a].parent /\ heap2[a].next = heap[a].next
      /\ heap2[a].previous = heap[a].previous
  BY DEF Edited
<1>3. KindOf(heap, h, a) /\ InOrder(heap, lo, hi, a)
  BY <1>1 DEF Kinds, Ordered
<1>4. KindOf(heap2, h, a)
  <2>1. h[a] = 0 /\ heap[a].children = << >>
    BY <1>3 DEF KindOf
  <2> QED BY <1>0, <1>2, <2>1 DEF KindOf
<1>5. InOrder(heap2, lo, hi, a)
  <2>1. lo[a] < hi[a]
    BY <1>3 DEF InOrder
  <2> QED BY <1>0, <1>2, <2>1 DEF InOrder
<1>6. FilledAt(heap2, top, over, short, a)
  <2>1. Len(ks) \in Nat
    BY <1>2, Fields
  <2>2. a = over => Len(ks) = MaxKeys + 1
    BY <1>0
  <2>3. a # over => Len(ks) <= MaxKeys
    BY <1>0
  <2>4. Len(heap2[a].keys) = Len(ks) /\ heap2[a].leaf
    BY <1>2
  <2>5. MinimumOf(heap2[a].leaf) = MinLeafKeys
    BY <2>4 DEF MinimumOf
  <2> DEFINE least == IF a = top THEN 1 ELSE MinLeafKeys
  <2>6. least \in Int /\ Len(ks) >= least - (IF a = short THEN 1 ELSE 0)
    BY <1>0, Bounds0
  <2> HIDE DEF least
  <2>7. Len(ks) >= IF a = short THEN least - 1 ELSE least
    BY <2>1, <2>6
  <2>8. Len(heap2[a].keys) >= IF a = short THEN (IF a = top THEN 1 ELSE MinimumOf(heap2[a].leaf)) - 1
                              ELSE IF a = top THEN 1 ELSE MinimumOf(heap2[a].leaf)
    BY <2>4, <2>5, <2>7 DEF least
  <2> QED BY <2>2, <2>3, <2>4, <2>8 DEF FilledAt
<1>7. Resting(heap2, top, h, lo, hi, over, short)
  BY <1>2, <1>4, <1>5, <1>6, LeafEdited
<1>8. LeafOnly(heap, heap2, a)
  BY <1>2 DEF LeafOnly
<1> QED BY <1>7, <1>8

\* What is known of the leaf and the place that a descent finds for key.
Reached(a, s, lo, hi, key) ==
    /\ Heap(node) /\ a \in DOMAIN node /\ node[a].leaf /\ a # Null
    /\ node[a].keys \in Seq(Keys) /\ Len(node[a].keys) \in Nat
    /\ node[a].values \in Seq(Seq(Records)) /\ Len(node[a].values) = Len(node[a].keys)
    /\ \A i \in 1..Len(node[a].keys) : node[a].keys[i] \in Int /\ node[a].values[i] # << >>
    /\ \A i, j \in 1..Len(node[a].keys) : i < j => node[a].keys[i] < node[a].keys[j]
    /\ \A i \in 1..Len(node[a].keys) : lo[a] <= node[a].keys[i] /\ node[a].keys[i] < hi[a]
    /\ lo[a] <= key /\ key < hi[a] /\ key \in Int
    /\ Len(node[a].keys) <= MaxKeys
    /\ Len(node[a].keys) >= IF a = root THEN 1 ELSE MinLeafKeys
    /\ s \in 1..Len(node[a].keys) + 1
    /\ \A i \in 1..Len(node[a].keys) : node[a].keys[i] < key <=> i < s
    /\ ContainsKey(key) <=> s \in 1..Len(node[a].keys) /\ node[a].keys[s] = key
    /\ ContainsKey(key) <=> Posted(node, key)
    /\ Search(key) = IF ContainsKey(key) THEN node[a].values[s] ELSE << >>
    /\ \A i \in 1..Len(node[a].keys) : node[a].keys[i] = key => i = s
    /\ OnlyAt(node, a, key)

\* FindLeaf ends at the leaf whose interval has the key, and Slot at the key's place in it.
LEMMA Found ==
  ASSUME NEW h, NEW lo, NEW hi, Resting(node, root, h, lo, hi, Null, Null), root # Null,
         NEW key \in Keys, lo[root] <= key, key < hi[root]
  PROVE  Reached(FindLeaf(key), Slot(key), lo, hi, key)
<1> DEFINE a == FindLeaf(key)
           s == Slot(key)
<1>1. key \in Int
  BY KeysAssumption
<1>2. a \in DOMAIN node /\ node[a].leaf /\ lo[a] <= key /\ key < hi[a]
  BY <1>1, FindLeafFinds
<1>3. /\ s \in 1..Len(node[a].keys) + 1
      /\ \A i \in 1..Len(node[a].keys) : node[a].keys[i] < key <=> i < s
      /\ ContainsKey(key) <=> s \in 1..Len(node[a].keys) /\ node[a].keys[s] = key
      /\ ContainsKey(key) <=> Posted(node, key)
      /\ Search(key) = IF ContainsKey(key) THEN node[a].values[s] ELSE << >>
      /\ \A i \in 1..Len(node[a].keys) : node[a].keys[i] = key => i = s
  BY <1>1, SlotFinds
<1>4. OnlyAt(node, a, key)
  BY <1>1, OnlyLeaf
<1>5. Heap(node) /\ Kinds(node, h) /\ Ordered(node, lo, hi) /\ Filled(node, root, Null, Null)
  BY Parts
<1>6. /\ node[a].keys \in Seq(Keys) /\ node[a].keys \in Seq(Int) /\ Len(node[a].keys) \in Nat
      /\ \A i \in 1..Len(node[a].keys) : node[a].keys[i] \in Int
      /\ node[a].values \in Seq(Seq(Records)) /\ a # Null
  BY <1>2, <1>5, Fields
<1>7. KindOf(node, h, a) /\ InOrder(node, lo, hi, a) /\ FilledAt(node, root, Null, Null, a)
  BY <1>2, <1>5 DEF Kinds, Ordered, Filled
<1>8. Len(node[a].values) = Len(node[a].keys) /\ \A i \in 1..Len(node[a].keys) : node[a].values[i] # << >>
  BY <1>2, <1>7 DEF KindOf
<1>9. /\ \A i, j \in 1..Len(node[a].keys) : i < j => node[a].keys[i] < node[a].keys[j]
      /\ \A i \in 1..Len(node[a].keys) : lo[a] <= node[a].keys[i] /\ node[a].keys[i] < hi[a]
  BY <1>7 DEF InOrder
<1>10. /\ Len(node[a].keys) <= MaxKeys
       /\ Len(node[a].keys) >= IF a = root THEN 1 ELSE MinLeafKeys
  BY <1>2, <1>6, <1>7, Bounds0 DEF FilledAt
<1> HIDE DEF a, s
<1>11. Reached(a, s, lo, hi, key)
  BY <1>1, <1>2, <1>3, <1>4, <1>5, <1>6, <1>8, <1>9, <1>10 DEF Reached
<1> QED BY <1>11 DEF a, s

\* The posting list of a key that is there is replaced.
LEMMA ListReplaced ==
  ASSUME NEW h, NEW lo, NEW hi, Resting(node, root, h, lo, hi, Null, Null), root # Null,
         NEW key \in Keys, lo[root] <= key, key < hi[root], ContainsKey(key),
         NEW list \in Seq(Records), list # << >>, NEW heap2,
         heap2 = [node EXCEPT ![FindLeaf(key)].values[Slot(key)] = list]
  PROVE  Resting(heap2, root, h, lo, hi, Null, Null) /\ Sets(node, heap2, key, list)
<1> DEFINE a == FindLeaf(key)
           s == Slot(key)
           ks == node[a].keys
           vs == [node[a].values EXCEPT ![s] = list]
<1>1. /\ Heap(node) /\ a \in DOMAIN node /\ node[a].leaf /\ a # Null
      /\ ks \in Seq(Keys) /\ Len(ks) \in Nat
      /\ node[a].values \in Seq(Seq(Records)) /\ Len(node[a].values) = Len(ks)
      /\ \A i \in 1..Len(ks) : node[a].values[i] # << >>
      /\ \A i, j \in 1..Len(ks) : i < j => ks[i] < ks[j]
      /\ \A i \in 1..Len(ks) : lo[a] <= ks[i] /\ ks[i] < hi[a]
      /\ Len(ks) <= MaxKeys /\ Len(ks) >= IF a = root THEN 1 ELSE MinLeafKeys
      /\ s \in 1..Len(ks) /\ ks[s] = key
      /\ \A i \in 1..Len(ks) : ks[i] = key => i = s
      /\ OnlyAt(node, a, key)
  <2>1. Reached(a, s, lo, hi, key)
    BY Found
  <2> HIDE DEF a, s
  <2> QED BY <2>1 DEF Reached
<1>2. s \in 1..Len(node[a].values) /\ heap2 = [node EXCEPT ![a].values[s] = list]
  BY <1>1
<1>3. vs \in Seq(Seq(Records)) /\ Len(vs) = Len(ks) /\ \A i \in 1..Len(ks) : vs[i] = IF i = s THEN list ELSE node[a].values[i]
  BY <1>1, <1>2, ReplaceElements
<1> HIDE DEF a, s
<1>4. Edited(node, heap2, a, ks, vs)
  BY <1>1, <1>2, ListAssigned
<1> HIDE DEF vs, ks
<1>5. \A i \in 1..Len(ks) : vs[i] # << >>
  BY <1>1, <1>3
<1>6. Len(ks) >= (IF a = root THEN 1 ELSE MinLeafKeys) - (IF Null = a THEN 1 ELSE 0)
  BY <1>1, Bounds0
<1>7. Fitting(ks, vs, lo[a], hi[a], a, root, Null, Null)
  BY <1>1, <1>3, <1>5, <1>6 DEF Fitting
<1>70. Null \in {Null, a} /\ a \in DOMAIN node /\ node[a].leaf
  BY <1>1
<1>8. Resting(heap2, root, h, lo, hi, Null, Null) /\ LeafOnly(node, heap2, a)
  BY <1>4, <1>7, <1>70, EditKeeps
<1>9. SetsAt(node, heap2, a, key, list)
  <2> SUFFICES ASSUME NEW k, NEW l
               PROVE  HoldsAt(heap2, a, k, l) <=> IF k = key THEN l = list ELSE HoldsAt(node, a, k, l)
    BY DEF SetsAt
  <2>1. HoldsAt(node, a, k, l) <=> \E i \in 1..Len(ks) : ks[i] = k /\ node[a].values[i] = l
    BY DEF HoldsAt, ks
  <2>2. HoldsAt(heap2, a, k, l) <=> \E i \in 1..Len(ks) : ks[i] = k /\ vs[i] = l
    BY <1>4 DEF HoldsAt, Edited
  <2> QED BY <1>1, <1>3, <2>1, <2>2
<1> QED BY <1>1, <1>8, <1>9, LeafSets

\* s2 is s with e put in at position i.
Inserted(s, i, e, s2) ==
    /\ Len(s2) = Len(s) + 1
    /\ \A j \in 1..Len(s) + 1 : s2[j] = IF j < i THEN s[j] ELSE IF j = i THEN e ELSE s[j - 1]

\* What InsertAt returns is the sequence with one element more.
LEMMA InsertAtInserts ==
  ASSUME NEW T, NEW s \in Seq(T), NEW i \in 1..Len(s) + 1, NEW e \in T
  PROVE  InsertAt(s, i, e) \in Seq(T) /\ Inserted(s, i, e, InsertAt(s, i, e))
<1>1. InsertAt(s, i, e) \in Seq(T) /\ Len(InsertAt(s, i, e)) = Len(s) + 1
  BY InsertAtElements
<1>2. \A j \in 1..Len(s) + 1 :
         InsertAt(s, i, e)[j] = IF j < i THEN s[j] ELSE IF j = i THEN e ELSE s[j - 1]
  BY InsertAtElements
<1> QED BY <1>1, <1>2, Zenon DEF Inserted

\* A key that is not there takes its place in the leaf, with a list of its own.
LEMMA KeyInserted ==
  ASSUME NEW h, NEW lo, NEW hi, Resting(node, root, h, lo, hi, Null, Null), root # Null,
         NEW key \in Keys, lo[root] <= key, key < hi[root], ~ContainsKey(key),
         NEW list \in Seq(Records), list # << >>, NEW heap2,
         heap2 = [node EXCEPT ![FindLeaf(key)].keys = InsertAt(@, Slot(key), key),
                              ![FindLeaf(key)].values = InsertAt(@, Slot(key), list)]
  PROVE  /\ Resting(heap2, root, h, lo, hi,
                    IF Len(node[FindLeaf(key)].keys) + 1 > MaxKeys THEN FindLeaf(key) ELSE Null, Null)
         /\ Sets(node, heap2, key, list) /\ ~Posted(node, key)
         /\ heap2[FindLeaf(key)].leaf /\ FindLeaf(key) # Null
<1> DEFINE a == FindLeaf(key)
           s == Slot(key)
           ks == node[a].keys
           vs == node[a].values
           m == Len(ks)
           ks2 == InsertAt(ks, s, key)
           vs2 == InsertAt(vs, s, list)
           over == IF m + 1 > MaxKeys THEN a ELSE Null
<1>1. /\ Heap(node) /\ a \in DOMAIN node /\ node[a].leaf /\ a # Null
      /\ ks \in Seq(Keys) /\ m \in Nat /\ vs \in Seq(Seq(Records)) /\ Len(vs) = m
      /\ \A i \in 1..m : ks[i] \in Int /\ vs[i] # << >>
      /\ \A i, j \in 1..m : i < j => ks[i] < ks[j]
      /\ \A i \in 1..m : lo[a] <= ks[i] /\ ks[i] < hi[a]
      /\ lo[a] <= key /\ key < hi[a] /\ key \in Int
      /\ m <= MaxKeys /\ m >= IF a = root THEN 1 ELSE MinLeafKeys
      /\ s \in 1..m + 1 /\ \A i \in 1..m : ks[i] < key <=> i < s
      /\ \A i \in 1..m : ks[i] # key
      /\ OnlyAt(node, a, key) /\ ~Posted(node, key)
  <2>1. Reached(a, s, lo, hi, key)
    BY Found
  <2> HIDE DEF a, s
  <2> QED BY <2>1 DEF Reached
<1>2. heap2 = [node EXCEPT ![a].keys = ks2, ![a].values = vs2]
  OBVIOUS
<1> HIDE DEF a, s
<1>3. /\ ks2 \in Seq(Keys) /\ Len(ks2) = m + 1
      /\ \A j \in 1..m + 1 : ks2[j] = IF j < s THEN ks[j] ELSE IF j = s THEN key ELSE ks[j - 1]
  <2>1. ks \in Seq(Keys) /\ s \in 1..Len(ks) + 1 /\ key \in Keys
    BY <1>1
  <2> HIDE DEF ks
  <2>2. ks2 \in Seq(Keys) /\ Inserted(ks, s, key, ks2)
    BY <2>1, InsertAtInserts
  <2> HIDE DEF ks2
  <2> QED BY <2>1, <2>2 DEF Inserted
<1>4. /\ vs2 \in Seq(Seq(Records)) /\ Len(vs2) = m + 1
      /\ \A j \in 1..m + 1 : vs2[j] = IF j < s THEN vs[j] ELSE IF j = s THEN list ELSE vs[j - 1]
  <2>1. vs \in Seq(Seq(Records)) /\ s \in 1..Len(vs) + 1 /\ list \in Seq(Records) /\ Len(vs) = m
    BY <1>1
  <2> HIDE DEF vs, m
  <2>2. /\ vs2 \in Seq(Seq(Records)) /\ Len(vs2) = Len(vs) + 1
        /\ \A j \in 1..Len(vs) + 1 : vs2[j] = IF j < s THEN vs[j] ELSE IF j = s THEN list ELSE vs[j - 1]
    <3>1. vs2 \in Seq(Seq(Records)) /\ Inserted(vs, s, list, vs2)
      BY <2>1, InsertAtInserts
    <3> HIDE DEF vs2
    <3> QED BY <2>1, <3>1 DEF Inserted
  <2> QED BY <2>1, <2>2
<1> HIDE DEF ks2, vs2
<1>5. Edited(node, heap2, a, ks2, vs2)
  BY <1>1, <1>2, <1>3, <1>4, BothAssigned
<1> HIDE DEF ks, vs, m
<1>6. Fitting(ks2, vs2, lo[a], hi[a], a, root, over, Null)
  <2>1. \A i, j \in 1..m + 1 : i < j => ks2[i] < ks2[j]
    <3> TAKE i, j \in 1..m + 1
    <3> HAVE i < j
    <3>1. CASE j < s
      <4>1. i \in 1..m /\ j \in 1..m /\ i < s
        BY <1>1, <3>1
      <4> QED BY <1>1, <1>3, <3>1, <4>1
    <3>2. CASE j = s
      <4>1. i \in 1..m /\ i < s
        BY <1>1, <3>2
      <4>2. ks2[i] = ks[i] /\ ks2[j] = key
        <5>1. i \in 1..m + 1 /\ j \in 1..m + 1 /\ ~(j < s)
          BY <1>1, <3>2
        <5> QED BY <1>3, <3>2, <4>1, <5>1
      <4>3. ks[i] < key
        BY <1>1, <4>1
      <4> QED BY <4>2, <4>3
    <3>3. CASE j > s
      <4>1. j - 1 \in 1..m /\ ~(j - 1 < s) /\ ~(j < s) /\ j # s
        BY <1>1, <3>3
      <4>2. ks2[j] = ks[j - 1] /\ key < ks[j - 1]
        <5>1. ks[j - 1] \in Int /\ ~(ks[j - 1] < key) /\ ks[j - 1] # key
          BY <1>1, <4>1
        <5> QED BY <1>1, <1>3, <4>1, <5>1, SMTT(20)
      <4>3. CASE i < s
        <5>1. (i \in 1..m /\ i < j - 1) \/ i = j - 1
          BY <1>1, <3>3, <4>3
        <5>2. ks2[i] = ks[i] /\ ks[i] < key /\ ks[i] \in Int /\ ks[j - 1] \in Int
          BY <1>1, <1>3, <4>1, <4>3, <5>1
        <5> QED BY <1>1, <4>2, <5>2, SMTT(20)
      <4>4. CASE i = s
        BY <1>3, <4>2, <4>4
      <4>5. CASE i > s
        <5>1. i - 1 \in 1..m /\ i - 1 < j - 1 /\ ~(i < s) /\ i # s
          BY <1>1, <4>5
        <5> QED BY <1>1, <1>3, <4>1, <4>2, <5>1
      <4> QED BY <1>1, <4>3, <4>4, <4>5
    <3> QED BY <1>1, <3>1, <3>2, <3>3
  <2>2. \A j \in 1..m + 1 : lo[a] <= ks2[j] /\ ks2[j] < hi[a] /\ vs2[j] # << >>
    <3> TAKE j \in 1..m + 1
    <3>1. (j < s => j \in 1..m) /\ (j > s => j - 1 \in 1..m)
      BY <1>1
    <3>2. CASE j < s
      <4>1. ks2[j] = ks[j] /\ vs2[j] = vs[j] /\ j \in 1..m
        BY <1>3, <1>4, <3>1, <3>2
      <4> QED BY <1>1, <4>1
    <3>3. CASE j = s
      <4>1. ks2[j] = key /\ vs2[j] = list
        <5>1. ~(j < s)
          BY <1>1, <3>3
        <5> QED BY <1>3, <1>4, <3>3, <5>1
      <4> QED BY <1>1, <4>1
    <3>4. CASE j > s
      <4>1. ks2[j] = ks[j - 1] /\ vs2[j] = vs[j - 1] /\ j - 1 \in 1..m
        <5>1. ~(j < s) /\ j # s
          BY <1>1, <3>4
        <5> QED BY <1>3, <1>4, <3>1, <3>4, <5>1
      <4> QED BY <1>1, <4>1
    <3> QED BY <1>1, <3>2, <3>3, <3>4
  <2>3. IF over = a THEN m + 1 = MaxKeys + 1 ELSE m + 1 <= MaxKeys
    BY <1>1, Bounds0
  <2>4. m + 1 >= (IF a = root THEN 1 ELSE MinLeafKeys) - (IF Null = a THEN 1 ELSE 0)
    BY <1>1, Bounds0
  <2> QED BY <1>3, <1>4, <2>1, <2>2, <2>3, <2>4 DEF Fitting
<1>7. over \in {Null, a} /\ Null \in {Null, a} /\ a \in DOMAIN node /\ node[a].leaf
  BY <1>1
<1> HIDE DEF over
<1>8. Resting(heap2, root, h, lo, hi, over, Null) /\ LeafOnly(node, heap2, a)
  BY <1>5, <1>6, <1>7, EditKeeps
<1>9. SetsAt(node, heap2, a, key, list)
  <2> SUFFICES ASSUME NEW k, NEW l
               PROVE  HoldsAt(heap2, a, k, l) <=> IF k = key THEN l = list ELSE HoldsAt(node, a, k, l)
    BY DEF SetsAt
  <2>1. HoldsAt(node, a, k, l) <=> \E i \in 1..m : ks[i] = k /\ vs[i] = l
    BY DEF HoldsAt, ks, vs, m
  <2>2. HoldsAt(heap2, a, k, l) <=> \E j \in 1..m + 1 : ks2[j] = k /\ vs2[j] = l
    BY <1>3, <1>5 DEF HoldsAt, Edited
  <2>3. \A j \in 1..m + 1 : (j < s => j \in 1..m) /\ (j > s => j - 1 \in 1..m)
    BY <1>1
  <2>4. CASE k = key
    <3>1. \A j \in 1..m + 1 : ks2[j] = key <=> j = s
      <4> TAKE j \in 1..m + 1
      <4>1. CASE j < s
        <5>1. ks2[j] = ks[j] /\ j \in 1..m
          BY <1>3, <2>3, <4>1
        <5> QED BY <1>1, <4>1, <5>1
      <4>2. CASE j = s
        <5>1. ~(j < s)
          BY <1>1, <4>2
        <5> QED BY <1>3, <4>2, <5>1
      <4>3. CASE j > s
        <5>1. ~(j < s) /\ j # s
          BY <1>1, <4>3
        <5>2. ks2[j] = ks[j - 1] /\ j - 1 \in 1..m
          BY <1>3, <2>3, <4>3, <5>1
        <5> QED BY <1>1, <5>1, <5>2
      <4> QED BY <1>1, <4>1, <4>2, <4>3
    <3>2. s \in 1..m + 1 /\ vs2[s] = list /\ ks2[s] = key
      BY <1>1, <1>3, <1>4
    <3> QED BY <2>2, <2>4, <3>1, <3>2
  <2>5. CASE k # key
    <3>1. ASSUME NEW i \in 1..m, ks[i] = k, vs[i] = l PROVE \E j \in 1..m + 1 : ks2[j] = k /\ vs2[j] = l
      <4>1. CASE i < s
        <5>1. i \in 1..m + 1
          BY <1>1
        <5> QED BY <1>3, <1>4, <3>1, <4>1, <5>1
      <4>2. CASE ~(i < s)
        <5>1. i + 1 \in 1..m + 1 /\ ~(i + 1 < s) /\ i + 1 # s /\ i + 1 - 1 = i
          BY <1>1, <4>2
        <5> QED BY <1>3, <1>4, <3>1, <5>1
      <4> QED BY <4>1, <4>2
    <3>2. ASSUME NEW j \in 1..m + 1, ks2[j] = k, vs2[j] = l PROVE \E i \in 1..m : ks[i] = k /\ vs[i] = l
      <4>1. j # s
        BY <1>3, <2>5, <3>2
      <4>2. CASE j < s
        BY <1>3, <1>4, <2>3, <3>2, <4>2
      <4>3. CASE j > s
        <5>1. ~(j < s) /\ j - 1 \in 1..m
          BY <1>1, <2>3, <4>3
        <5> QED BY <1>3, <1>4, <3>2, <4>1, <5>1
      <4> QED BY <1>1, <4>1, <4>2, <4>3
    <3> QED BY <2>1, <2>2, <2>5, <3>1, <3>2
  <2> QED BY <2>4, <2>5
<1>10. Sets(node, heap2, key, list)
  BY <1>1, <1>8, <1>9, LeafSets
<1>11. heap2[a].leaf
  BY <1>8 DEF LeafOnly
<1> QED BY <1>1, <1>8, <1>10, <1>11 DEF over, a, m, ks

\* A key leaves its leaf with its list.
LEMMA KeyRemoved ==
  ASSUME NEW h, NEW lo, NEW hi, Resting(node, root, h, lo, hi, Null, Null), root # Null,
         NEW key \in Keys, lo[root] <= key, key < hi[root], ContainsKey(key), NEW heap2,
         heap2 = [node EXCEPT ![FindLeaf(key)].keys = RemoveAt(@, Slot(key)),
                              ![FindLeaf(key)].values = RemoveAt(@, Slot(key))]
  PROVE  /\ Resting(heap2, root, h, lo, hi, Null, FindLeaf(key)) /\ FindLeaf(key) # Null
         /\ Drops(node, heap2, key) /\ Posted(node, key)
<1> DEFINE a == FindLeaf(key)
           s == Slot(key)
           ks == node[a].keys
           vs == node[a].values
           m == Len(ks)
           ks2 == RemoveAt(ks, s)
           vs2 == RemoveAt(vs, s)
<1>1. /\ Heap(node) /\ a \in DOMAIN node /\ node[a].leaf /\ a # Null
      /\ ks \in Seq(Keys) /\ m \in Nat /\ vs \in Seq(Seq(Records)) /\ Len(vs) = m
      /\ \A i \in 1..m : ks[i] \in Int /\ vs[i] # << >>
      /\ \A i, j \in 1..m : i < j => ks[i] < ks[j]
      /\ \A i \in 1..m : lo[a] <= ks[i] /\ ks[i] < hi[a]
      /\ m <= MaxKeys /\ m >= IF a = root THEN 1 ELSE MinLeafKeys
      /\ s \in 1..m /\ ks[s] = key
      /\ \A i \in 1..m : ks[i] = key => i = s
      /\ OnlyAt(node, a, key) /\ Posted(node, key)
  <2>1. Reached(a, s, lo, hi, key)
    BY Found
  <2> HIDE DEF a, s
  <2> QED BY <2>1 DEF Reached
<1>2. heap2 = [node EXCEPT ![a].keys = ks2, ![a].values = vs2]
  OBVIOUS
<1> HIDE DEF a, s
<1>3. /\ ks2 \in Seq(Keys) /\ Len(ks2) = m - 1
      /\ \A j \in 1..m - 1 : ks2[j] = IF j < s THEN ks[j] ELSE ks[j + 1]
  <2>1. ks \in Seq(Keys) /\ s \in 1..Len(ks)
    BY <1>1
  <2> HIDE DEF ks
  <2> QED BY <2>1, RemoveAtElements
<1>4. /\ vs2 \in Seq(Seq(Records)) /\ Len(vs2) = m - 1
      /\ \A j \in 1..m - 1 : vs2[j] = IF j < s THEN vs[j] ELSE vs[j + 1]
  <2>1. vs \in Seq(Seq(Records)) /\ s \in 1..Len(vs) /\ Len(vs) = m
    BY <1>1
  <2> HIDE DEF vs, m
  <2>2. /\ vs2 \in Seq(Seq(Records)) /\ Len(vs2) = Len(vs) - 1
        /\ \A j \in 1..Len(vs) - 1 : vs2[j] = IF j < s THEN vs[j] ELSE vs[j + 1]
    BY <2>1, RemoveAtElements
  <2> QED BY <2>1, <2>2
<1> HIDE DEF ks2, vs2
<1>5. Edited(node, heap2, a, ks2, vs2)
  BY <1>1, <1>2, <1>3, <1>4, BothAssigned
<1> HIDE DEF ks, vs, m
<1>50. \A j \in 1..m - 1 : j \in 1..m /\ j + 1 \in 1..m
  BY <1>1
<1>6. Fitting(ks2, vs2, lo[a], hi[a], a, root, Null, a)
  <2>1. \A i, j \in 1..m - 1 : i < j => ks2[i] < ks2[j]
    <3> TAKE i, j \in 1..m - 1
    <3> HAVE i < j
    <3>1. i < j /\ i < j + 1 /\ i + 1 < j + 1 /\ (j < s => i < s)
      BY <1>1
    <3> QED BY <1>1, <1>3, <1>50, <3>1
  <2>2. \A j \in 1..m - 1 : lo[a] <= ks2[j] /\ ks2[j] < hi[a] /\ vs2[j] # << >>
    BY <1>1, <1>3, <1>4, <1>50
  <2>3. IF Null = a THEN m - 1 = MaxKeys + 1 ELSE m - 1 <= MaxKeys
    BY <1>1, Bounds0
  <2>4. m - 1 >= (IF a = root THEN 1 ELSE MinLeafKeys) - (IF a = a THEN 1 ELSE 0)
    BY <1>1, Bounds0
  <2> QED BY <1>3, <1>4, <2>1, <2>2, <2>3, <2>4 DEF Fitting
<1>7. Null \in {Null, a} /\ a \in {Null, a} /\ a \in DOMAIN node /\ node[a].leaf
  BY <1>1
<1>8. Resting(heap2, root, h, lo, hi, Null, a) /\ LeafOnly(node, heap2, a)
  BY <1>5, <1>6, <1>7, EditKeeps
<1>9. DropsAt(node, heap2, a, key)
  <2> SUFFICES ASSUME NEW k, NEW l
               PROVE  HoldsAt(heap2, a, k, l) <=> k # key /\ HoldsAt(node, a, k, l)
    BY DEF DropsAt
  <2>1. HoldsAt(node, a, k, l) <=> \E i \in 1..m : ks[i] = k /\ vs[i] = l
    BY DEF HoldsAt, ks, vs, m
  <2>2. HoldsAt(heap2, a, k, l) <=> \E j \in 1..m - 1 : ks2[j] = k /\ vs2[j] = l
    BY <1>3, <1>5 DEF HoldsAt, Edited
  <2>3. ASSUME NEW j \in 1..m - 1, ks2[j] = k, vs2[j] = l PROVE k # key /\ \E i \in 1..m : ks[i] = k /\ vs[i] = l
    <3>1. CASE j < s
      <4>1. ks[j] = k /\ vs[j] = l /\ j # s
        BY <1>1, <1>3, <1>4, <2>3, <3>1
      <4> QED BY <1>1, <1>50, <4>1
    <3>2. CASE ~(j < s)
      <4>1. ks[j + 1] = k /\ vs[j + 1] = l /\ j + 1 # s
        BY <1>1, <1>3, <1>4, <2>3, <3>2, SMTT(20)
      <4> QED BY <1>1, <1>50, <4>1
    <3> QED BY <3>1, <3>2
  <2>4. ASSUME NEW i \in 1..m, ks[i] = k, vs[i] = l, k # key PROVE \E j \in 1..m - 1 : ks2[j] = k /\ vs2[j] = l
    <3>0. i # s
      BY <1>1, <2>4
    <3>1. CASE i < s
      <4>1. i \in 1..m - 1
        BY <1>1, <3>1
      <4> QED BY <1>3, <1>4, <2>4, <3>1, <4>1
    <3>2. CASE i > s
      <4>1. i - 1 \in 1..m - 1 /\ ~(i - 1 < s) /\ i - 1 + 1 = i
        BY <1>1, <3>2
      <4> QED BY <1>3, <1>4, <2>4, <4>1
    <3> QED BY <1>1, <3>0, <3>1, <3>2
  <2> QED BY <2>1, <2>2, <2>3, <2>4
<1>10. Drops(node, heap2, key)
  BY <1>1, <1>8, <1>9, LeafSets
<1> QED BY <1>1, <1>8, <1>10 DEF a

\* A tree of one leaf.
OneLeaf(heap, f, key, list) ==
    /\ DOMAIN heap = {f} /\ heap = [a \in DOMAIN heap |-> heap[a]]
    /\ heap[f] = [leaf |-> TRUE, keys |-> <<key>>, values |-> <<list>>, children |-> << >>,
                  parent |-> Null, next |-> Null, previous |-> Null]

\* A single leaf with one key is a tree.
LEMMA OneLeafRests ==
  ASSUME NEW heap, NEW f \in Nat \ {Null}, NEW key \in Keys, NEW list \in Seq(Records), list # << >>,
         OneLeaf(heap, f, key, list)
  PROVE  \E h, lo, hi : Resting(heap, f, h, lo, hi, Null, Null)
<1> DEFINE h  == [a \in {f} |-> 0]
           lo == [a \in {f} |-> key]
           hi == [a \in {f} |-> key + 1]
<1>1. key \in Int
  BY KeysAssumption
<1>2. DOMAIN heap = {f} /\ heap = [a \in DOMAIN heap |-> heap[a]]
      /\ heap[f].leaf = TRUE /\ heap[f].keys = <<key>> /\ heap[f].values = <<list>>
      /\ heap[f].children = << >> /\ heap[f].parent = Null /\ heap[f].next = Null
      /\ heap[f].previous = Null
  BY DEF OneLeaf
<1>3. heap[f] \in NodeFields
  <2>1. <<key>> \in Seq(Keys) /\ <<list>> \in Seq(Seq(Records)) /\ << >> \in Seq(Nat) /\ Null \in Nat
    BY DEF Null
  <2> DEFINE ks == <<key>>
             vs == <<list>>
             cs == << >>
  <2>2. heap[f] = [leaf |-> TRUE, keys |-> ks, values |-> vs, children |-> cs,
                   parent |-> Null, next |-> Null, previous |-> Null]
    BY DEF OneLeaf
  <2> HIDE DEF ks, vs, cs
  <2>3. ks \in Seq(Keys) /\ vs \in Seq(Seq(Records)) /\ cs \in Seq(Nat)
    BY <2>1 DEF ks, vs, cs
  <2> QED BY <2>1, <2>2, <2>3 DEF NodeFields
<1>4. Heap(heap)
  <2>1. IsFiniteSet({f})
    BY FS_Singleton
  <2> QED BY <1>2, <1>3, <2>1, HeapOf
<1>5. Len(<<key>>) = 1 /\ <<key>>[1] = key /\ Len(<<list>>) = 1 /\ <<list>>[1] = list
  OBVIOUS
<1>6. \A i \in 1..1 : i = 1
  OBVIOUS
<1>7. h[f] = 0 /\ lo[f] = key /\ hi[f] = key + 1 /\ lo \in [{f} -> Int] /\ hi \in [{f} -> Int] /\ h \in [{f} -> Nat]
  BY <1>1
<1> HIDE DEF h, lo, hi
<1>8. KindOf(heap, h, f) /\ Kinds(heap, h)
  <2>1. KindOf(heap, h, f)
    BY <1>2, <1>5, <1>6, <1>7 DEF KindOf
  <2> QED BY <1>2, <1>7, <2>1 DEF Kinds
<1>9. Ordered(heap, lo, hi)
  <2>1. key < key + 1 /\ key <= key
    BY <1>1
  <2>2. InOrder(heap, lo, hi, f)
    BY <1>2, <1>5, <1>6, <1>7, <2>1 DEF InOrder
  <2> QED BY <1>2, <1>7, <2>2 DEF Ordered
<1>10. Down(heap, h, lo, hi, Null, Null)
  BY <1>2 DEF Down
<1>11. Up(heap, f, Null)
  BY <1>2 DEF Up
<1>12. Apart(heap, h, lo, hi)
  BY <1>2 DEF Apart
<1>13. Whole(heap, f, h, lo, hi, Null, Null)
  <2>1. f # Null /\ End(hi, Null, Null, f) = hi[f]
    BY DEF End
  <2> QED BY <1>1, <1>2, <1>7, <2>1 DEF Whole
<1>14. Chain(heap, f, lo, hi, Null, Null)
  <2>1. f # Null /\ End(hi, Null, Null, f) = hi[f]
    BY DEF End
  <2>2. Linked(heap, f, lo, hi, Null, Null, f)
    BY <1>2, <2>1 DEF Linked
  <2> QED BY <1>2, <2>2 DEF Chain
<1>15. Filled(heap, f, Null, Null)
  <2>1. FilledAt(heap, f, Null, Null, f)
    BY <1>2, <1>5, Bounds0 DEF FilledAt
  <2> QED BY <1>2, <2>1 DEF Filled
<1>16. Pending(heap, f, h, lo, hi, Null, Null)
  BY DEF Pending
<1>17. Tree(heap, f, h, lo, hi, Null, Null, Null, Null)
  <2>1. Filled(heap, IF Null = f THEN Null ELSE f, Null, Null)
    BY <1>15
  <2> QED BY <1>4, <1>8, <1>9, <1>10, <1>11, <1>12, <1>13, <1>14, <1>16, <2>1 DEF Tree
<1> QED BY <1>17 DEF Resting

\* An empty tree finds nothing.
LEMMA NothingThere ==
  ASSUME root = Null, NEW key
  PROVE  ~ContainsKey(key) /\ Search(key) = << >>
<1>1. FindLeaf(key) = Null
  BY DEF FindLeaf
<1> QED BY <1>1 DEF ContainsKey, Search

\* The first insertion keeps the invariant, and the key has the record.
LEMMA InsertFirstStep ==
  ASSUME IInv, todo \in After, NEW key \in Keys, NEW record \in Records, NEW after \in After,
         InsertFirst(key, record, after)
  PROVE  IInv' /\ Sets(node, node', key, Append(Search(key), record))
<1> DEFINE f == Fresh
<1>1. PICK h, lo, hi : Resting(node, root, h, lo, hi, Null, Null)
  BY WhenResting
<1>2. /\ root = Null /\ root' = f /\ size' = size + 1 /\ todo' = after
      /\ node' = Allocate([NewLeaf EXCEPT !.keys = <<key>>, !.values = << <<record>> >>], node)
  BY DEF InsertFirst
<1>3. DOMAIN node = {} /\ Heap(node)
  BY <1>1, <1>2, Parts DEF Whole
<1>4. f \in Nat \ {Null}
  BY <1>3, FreshIsFree DEF Heap
<1>5. OneLeaf(node', f, key, <<record>>)
  <2> DEFINE n == [NewLeaf EXCEPT !.keys = <<key>>, !.values = << <<record>> >>]
  <2>1. n = [leaf |-> TRUE, keys |-> <<key>>, values |-> << <<record>> >>, children |-> << >>,
             parent |-> Null, next |-> Null, previous |-> Null]
    <3> DEFINE ks == <<key>>
               vs == << <<record>> >>
               cs == << >>
    <3>1. n = [[leaf |-> TRUE, keys |-> << >>, values |-> << >>, children |-> cs,
                parent |-> Null, next |-> Null, previous |-> Null] EXCEPT !.keys = ks, !.values = vs]
      BY DEF NewLeaf
    <3> HIDE DEF n, ks, vs, cs
    <3>2. n = [leaf |-> TRUE, keys |-> ks, values |-> vs, children |-> cs,
               parent |-> Null, next |-> Null, previous |-> Null]
      BY <3>1
    <3> QED BY <3>2 DEF ks, vs, cs
  <2> HIDE DEF n
  <2>2. node' = Allocate(n, node)
    BY <1>2 DEF n
  <2>3. node' = [a \in DOMAIN node \cup {f} |-> IF a = f THEN n ELSE node[a]]
    BY <2>2 DEF Allocate
  <2>4. DOMAIN node' = {f} /\ node'[f] = n /\ node' = [a \in DOMAIN node' |-> node'[a]]
    BY <1>3, <2>3
  <2> QED BY <2>1, <2>4 DEF OneLeaf
<1> HIDE DEF f
<1>6. <<record>> \in Seq(Records) /\ <<record>> # << >>
  OBVIOUS
<1>7. \E g, low, high : Resting(node', f, g, low, high, Null, Null)
  BY <1>4, <1>5, <1>6, OneLeafRests
<1>8. \A k, l : ~Holds(node, k, l)
  BY <1>3 DEF Holds
<1>9. \A k, l : Holds(node', k, l) <=> k = key /\ l = <<record>>
  <2>1. /\ DOMAIN node' = {f} /\ node'[f].leaf /\ node'[f].keys = <<key>>
        /\ node'[f].values = << <<record>> >>
    BY <1>5 DEF OneLeaf
  <2>2. Len(<<key>>) = 1 /\ <<key>>[1] = key /\ << <<record>> >>[1] = <<record>> /\ \A i \in 1..1 : i = 1
    OBVIOUS
  <2> QED BY <2>1, <2>2 DEF Holds
<1>10. Sets(node, node', key, <<record>>)
  BY <1>8, <1>9 DEF Sets
<1>11. Append(Search(key), record) = <<record>>
  <2>1. Search(key) = << >>
    BY <1>2, NothingThere
  <2>2. Append(<< >>, record) = <<record>>
    OBVIOUS
  <2> QED BY <2>1, <2>2
<1>12. KeysOf(node) = {} /\ KeysOf(node') = KeysOf(node) \cup {key}
  BY <1>3, <1>10, KeysAfter DEF KeysOf, Posted
<1>13. size = 0
  BY <1>12, FS_EmptySet DEF IInv
<1>14. size' = Cardinality(KeysOf(node')) /\ IsFiniteSet(KeysOf(node'))
  <2>1. KeysOf(node') = {key} /\ size' = 1
    BY <1>2, <1>12, <1>13
  <2> QED BY <2>1, FS_Singleton
<1>15. IInv'
  BY <1>2, <1>7, <1>14, RestAgain
<1> QED BY <1>10, <1>11, <1>15

\* A key that is found is in a tree.
LEMMA SomethingThere ==
  ASSUME NEW key, ContainsKey(key) \/ Search(key) # << >>
  PROVE  root # Null
BY NothingThere

\* The number of keys after one of them is there (again).
LEMMA SizeSets ==
  ASSUME IInv, NEW key \in Keys, NEW list, Sets(node, node', key, list)
  PROVE  /\ Posted(node, key) => size = Cardinality(KeysOf(node'))
         /\ ~Posted(node, key) => size + 1 = Cardinality(KeysOf(node'))
         /\ IsFiniteSet(KeysOf(node'))
<1>1. KeysOf(node') = KeysOf(node) \cup {key} /\ IsFiniteSet(KeysOf(node)) /\ size = Cardinality(KeysOf(node))
  BY KeysAfter DEF IInv
<1>2. key \in KeysOf(node) <=> Posted(node, key)
  BY DEF KeysOf
<1> QED BY <1>1, <1>2, FS_AddElement

\* The number of keys after one has gone.
LEMMA SizeDrops ==
  ASSUME IInv, NEW key \in Keys, Drops(node, node', key), Posted(node, key)
  PROVE  size - 1 = Cardinality(KeysOf(node')) /\ IsFiniteSet(KeysOf(node'))
<1>1. KeysOf(node') = KeysOf(node) \ {key} /\ IsFiniteSet(KeysOf(node)) /\ size = Cardinality(KeysOf(node))
  BY KeysAfter DEF IInv
<1>2. key \in KeysOf(node)
  BY DEF KeysOf
<1> QED BY <1>1, <1>2, FS_RemoveElement

\* An insertion of a key that the tree has keeps the invariant and appends the record.
LEMMA AppendPostingStep ==
  ASSUME IInv, todo \in After, NEW key \in Keys, NEW record \in Records, NEW after \in After,
         AppendPosting(key, record, after)
  PROVE  IInv' /\ Sets(node, node', key, Append(Search(key), record))
<1> DEFINE a == FindLeaf(key)
           s == Slot(key)
           old == node[a].values[s]
           list == Append(old, record)
<1>1. /\ ContainsKey(key) /\ root' = root /\ size' = size /\ todo' = after
      /\ node' = [node EXCEPT ![a].values[s] = list]
  BY DEF AppendPosting
<1>2. root # Null
  BY <1>1, SomethingThere
<1>3. PICK h, lo, hi : Resting(node, root, h, lo, hi, Null, Null) /\ lo[root] <= key /\ key < hi[root]
  BY <1>2, LeafReached
<1>4. Search(key) = old /\ old \in Seq(Records) /\ Posted(node, key)
  <2>1. Reached(a, s, lo, hi, key)
    BY <1>2, <1>3, Found
  <2> HIDE DEF a, s
  <2>2. /\ Search(key) = old /\ s \in 1..Len(node[a].keys) /\ Len(node[a].values) = Len(node[a].keys)
        /\ node[a].values \in Seq(Seq(Records)) /\ Posted(node, key)
    BY <1>1, <2>1 DEF Reached
  <2> QED BY <2>2
<1> HIDE DEF a, s, old
<1>5. list \in Seq(Records) /\ list # << >>
  <2>1. old \in Seq(Records)
    BY <1>4
  <2>2. Append(old, record) \in Seq(Records) /\ Len(Append(old, record)) = Len(old) + 1 /\ Len(old) \in Nat
    BY <2>1, AppendElements
  <2> HIDE DEF list
  <2>3. list \in Seq(Records) /\ Len(list) # 0
    BY <2>2 DEF list
  <2> QED BY <2>3
<1> HIDE DEF list
<1>6. Resting(node', root, h, lo, hi, Null, Null) /\ Sets(node, node', key, list)
  BY <1>1, <1>2, <1>3, <1>5, ListReplaced DEF a, s
<1>7. size' = Cardinality(KeysOf(node')) /\ IsFiniteSet(KeysOf(node'))
  BY <1>1, <1>4, <1>6, SizeSets
<1>8. IInv'
  BY <1>1, <1>6, <1>7, RestAgain
<1> QED BY <1>4, <1>6, <1>8 DEF list

\* An insertion of a new key keeps the invariant, also when the leaf overflows, and adds the
\* record.
LEMMA InsertKeyStep ==
  ASSUME IInv, todo \in After, NEW key \in Keys, NEW record \in Records, NEW after \in After,
         InsertKey(key, record, after)
  PROVE  IInv' /\ Sets(node, node', key, Append(Search(key), record))
<1> DEFINE a == FindLeaf(key)
           full == Len(node[a].keys) + 1 > MaxKeys
<1>1. /\ root # Null /\ ~ContainsKey(key) /\ root' = root /\ size' = size + 1
      /\ node' = [node EXCEPT ![a].keys = InsertAt(@, Slot(key), key),
                              ![a].values = InsertAt(@, Slot(key), <<record>>)]
      /\ todo' = (IF full THEN <<SplitLeafOf(a)>> ELSE << >>) \o after
  BY DEF InsertKey
<1>2. PICK h, lo, hi : Resting(node, root, h, lo, hi, Null, Null) /\ lo[root] <= key /\ key < hi[root]
  BY <1>1, LeafReached
<1>3. <<record>> \in Seq(Records) /\ <<record>> # << >>
  OBVIOUS
<1>4. /\ Resting(node', root, h, lo, hi, IF full THEN a ELSE Null, Null)
      /\ Sets(node, node', key, <<record>>) /\ ~Posted(node, key) /\ node'[a].leaf /\ a # Null
  BY <1>1, <1>2, <1>3, KeyInserted
<1> HIDE DEF a, full
<1>5. Append(Search(key), record) = <<record>>
  <2>1. Search(key) = << >>
    BY <1>1, <1>2, Found DEF Reached
  <2>2. Append(<< >>, record) = <<record>>
    OBVIOUS
  <2> QED BY <2>1, <2>2
<1>6. size' = Cardinality(KeysOf(node')) /\ IsFiniteSet(KeysOf(node'))
  BY <1>1, <1>4, SizeSets
<1>7. CASE full
  <2>1. Resting(node', root', h, lo, hi, a, Null) /\ todo' = <<SplitLeafOf(a)>> \o after
    BY <1>1, <1>4, <1>7
  <2>2. todo' = <<IF node'[a].leaf THEN SplitLeafOf(a) ELSE SplitInternalOf(a)>> \o after
    BY <1>4, <2>1
  <2>3. IInv'
    BY <1>4, <1>6, <2>1, <2>2, OverAgain
  <2> QED BY <1>4, <1>5, <2>3
<1>8. CASE ~full
  <2>1. Resting(node', root', h, lo, hi, Null, Null) /\ todo' = << >> \o after
    BY <1>1, <1>4, <1>8
  <2>2. todo' \in After
    BY <2>1, Afterwards
  <2>3. IInv'
    BY <1>6, <2>1, <2>2, RestAgain
  <2> QED BY <1>4, <1>5, <2>3
<1> QED BY <1>7, <1>8

\* Every insertion keeps the invariant and appends the record to the key's list.
LEMMA InsertThenStep ==
  ASSUME IInv, todo \in After, NEW key \in Keys, NEW record \in Records, NEW after \in After,
         InsertThen(key, record, after)
  PROVE  IInv' /\ Sets(node, node', key, Append(Search(key), record))
BY InsertFirstStep, AppendPostingStep, InsertKeyStep DEF InsertThen

\* What RemoveFirst leaves is a list again.
LEMMA RemoveFirstTypes ==
  ASSUME NEW T, NEW s \in Seq(T), NEW e
  PROVE  RemoveFirst(s, e) \in Seq(T)
<1>1. CASE \E i \in 1..Len(s) : s[i] = e
  <2> DEFINE I == {i \in 1..Len(s) : s[i] = e}
             at == SelectInSeq(s, LAMBDA v : v = e)
  <2>1. I # {} /\ I \subseteq Nat
    BY <1>1
  <2>2. PICK i \in I : \A j \in I : i <= j
    BY <2>1, LeastNumber
  <2>3. at = IF I # {} THEN Min(I) ELSE 0
    BY DEF SelectInSeq
  <2>4. Min(I) \in I
    <3> HIDE DEF I
    <3> QED BY <2>1, <2>2 DEF Min
  <2>5. at \in 1..Len(s)
    <3>1. at \in I
      <4> HIDE DEF I, at
      <4> QED BY <2>1, <2>3, <2>4
    <3> QED BY <3>1
  <2>6. RemoveFirst(s, e) = RemoveAt(s, at)
    BY <1>1 DEF RemoveFirst
  <2> HIDE DEF at, I
  <2> QED BY <2>5, <2>6, RemoveAtElements
<1>2. CASE ~\E i \in 1..Len(s) : s[i] = e
  BY <1>2 DEF RemoveFirst
<1> QED BY <1>1, <1>2

\* A removal that leaves the key some records keeps the invariant and removes the record.
LEMMA RemovePostingStep ==
  ASSUME IInv, todo \in After, NEW key \in Keys, NEW record \in Records, NEW after \in After,
         RemovePosting(key, record, after)
  PROVE  /\ IInv' /\ Sets(node, node', key, RemoveFirst(Search(key), record))
         /\ RemoveFirst(Search(key), record) # << >> /\ ContainsKey(key)
<1> DEFINE a == FindLeaf(key)
           s == Slot(key)
           old == node[a].values[s]
           list == RemoveFirst(old, record)
<1>1. /\ RemoveFirst(Search(key), record) # << >> /\ root' = root /\ size' = size /\ todo' = after
      /\ node' = [node EXCEPT ![a].values[s] = list]
  BY DEF RemovePosting
<1>2. Search(key) # << >>
  <2> SUFFICES ASSUME Search(key) = << >> PROVE FALSE
    OBVIOUS
  <2>1. RemoveFirst(<< >>, record) = << >>
    BY DEF RemoveFirst
  <2> QED BY <1>1, <2>1
<1>3. root # Null
  BY <1>2, SomethingThere
<1>4. PICK h, lo, hi : Resting(node, root, h, lo, hi, Null, Null) /\ lo[root] <= key /\ key < hi[root]
  BY <1>3, LeafReached
<1>5. Search(key) = old /\ old \in Seq(Records) /\ Posted(node, key) /\ ContainsKey(key)
  <2>1. Reached(a, s, lo, hi, key)
    BY <1>3, <1>4, Found
  <2> HIDE DEF a, s
  <2>2. /\ Search(key) = old /\ s \in 1..Len(node[a].keys) /\ Len(node[a].values) = Len(node[a].keys)
        /\ node[a].values \in Seq(Seq(Records)) /\ Posted(node, key) /\ ContainsKey(key)
    BY <1>2, <2>1 DEF Reached
  <2> QED BY <2>2
<1> HIDE DEF a, s, old
<1>6. list \in Seq(Records) /\ list # << >>
  BY <1>1, <1>5, RemoveFirstTypes
<1> HIDE DEF list
<1>7. Resting(node', root, h, lo, hi, Null, Null) /\ Sets(node, node', key, list)
  BY <1>1, <1>3, <1>4, <1>5, <1>6, ListReplaced DEF a, s
<1>8. size' = Cardinality(KeysOf(node')) /\ IsFiniteSet(KeysOf(node'))
  BY <1>1, <1>5, <1>7, SizeSets
<1>9. IInv'
  BY <1>1, <1>7, <1>8, RestAgain
<1> QED BY <1>1, <1>5, <1>7, <1>9 DEF list

\* A removal of a key's last record keeps the invariant, also when the leaf underflows, and
\* removes the key.
LEMMA RemoveKeyStep ==
  ASSUME IInv, todo \in After, NEW key \in Keys, NEW record \in Records, NEW after \in After,
         RemoveKey(key, record, after)
  PROVE  IInv' /\ Drops(node, node', key) /\ ContainsKey(key) /\ RemoveFirst(Search(key), record) = << >>
<1> DEFINE a == FindLeaf(key)
<1>1. /\ ContainsKey(key) /\ root' = root /\ size' = size - 1 /\ RemoveFirst(Search(key), record) = << >>
      /\ node' = [node EXCEPT ![a].keys = RemoveAt(@, Slot(key)), ![a].values = RemoveAt(@, Slot(key))]
      /\ todo' = <<FixUnderflowOf(a)>> \o after
  BY DEF RemoveKey
<1>2. root # Null
  BY <1>1, SomethingThere
<1>3. PICK h, lo, hi : Resting(node, root, h, lo, hi, Null, Null) /\ lo[root] <= key /\ key < hi[root]
  BY <1>2, LeafReached
<1>4. /\ Resting(node', root, h, lo, hi, Null, a) /\ a # Null
      /\ Drops(node, node', key) /\ Posted(node, key)
  BY <1>1, <1>2, <1>3, KeyRemoved
<1> HIDE DEF a
<1>5. size' = Cardinality(KeysOf(node')) /\ IsFiniteSet(KeysOf(node'))
  BY <1>1, <1>4, SizeDrops
<1>6. IInv'
  BY <1>1, <1>4, <1>5, ShortAgain
<1> QED BY <1>1, <1>4, <1>6

-----------------------------------------------------------------------------
(* The steps of InsertIntoParent. *)

\* Assigning one pointer of a node.
LEMMA ParentAssigned ==
  ASSUME NEW n \in NodeFields, NEW p \in Nat, NEW n2, n2 = [n EXCEPT !.parent = p]
  PROVE  /\ n2 \in NodeFields /\ n2.parent = p
         /\ n2.leaf = n.leaf /\ n2.keys = n.keys /\ n2.values = n.values /\ n2.children = n.children
         /\ n2.next = n.next /\ n2.previous = n.previous
BY DEF NodeFields

\* The fields of a node whose previous is assigned.
LEMMA PreviousAssigned ==
  ASSUME NEW n \in NodeFields, NEW p \in Nat, NEW n2, n2 = [n EXCEPT !.previous = p]
  PROVE  /\ n2 \in NodeFields /\ n2.previous = p
         /\ n2.leaf = n.leaf /\ n2.keys = n.keys /\ n2.values = n.values /\ n2.children = n.children
         /\ n2.next = n.next /\ n2.parent = n.parent
BY DEF NodeFields

\* An internal node that has just been filled.
NewInternalOf(ks, cs) ==
    [leaf |-> FALSE, keys |-> ks, values |-> << >>, children |-> cs,
     parent |-> Null, next |-> Null, previous |-> Null]

\* The fields of a new internal node that is given its keys and its children.
LEMMA NewInternalFields ==
  ASSUME NEW ks \in Seq(Keys), NEW cs \in Seq(Nat)
  PROVE  /\ NewInternalOf(ks, cs) \in NodeFields /\ NewInternalOf(ks, cs).leaf = FALSE
         /\ NewInternalOf(ks, cs).keys = ks /\ NewInternalOf(ks, cs).values = << >>
         /\ NewInternalOf(ks, cs).children = cs /\ NewInternalOf(ks, cs).parent = Null
         /\ NewInternalOf(ks, cs).next = Null /\ NewInternalOf(ks, cs).previous = Null
<1> DEFINE none == << >>
           n == [leaf |-> FALSE, keys |-> ks, values |-> none, children |-> cs,
                 parent |-> Null, next |-> Null, previous |-> Null]
<1>1. none \in Seq(Seq(Records)) /\ Null \in Nat
  BY DEF Null
<1> HIDE DEF none
<1>2. n \in NodeFields
  BY <1>1 DEF NodeFields
<1>3. /\ n.leaf = FALSE /\ n.keys = ks /\ n.values = none /\ n.children = cs
      /\ n.parent = Null /\ n.next = Null /\ n.previous = Null
  OBVIOUS
<1>4. n = NewInternalOf(ks, cs)
  BY DEF NewInternalOf, none
<1> HIDE DEF n
<1> QED BY <1>2, <1>3, <1>4 DEF none

\* A new internal node that is given its keys and its children.
LEMMA NewInternalIs ==
  ASSUME NEW ks, NEW cs
  PROVE  [NewInternal EXCEPT !.keys = ks, !.children = cs] = NewInternalOf(ks, cs)
<1> DEFINE no == << >>
           none == << >>
           x == Null
           n == [NewInternal EXCEPT !.keys = ks, !.children = cs]
<1>1. n = [[[leaf |-> TRUE, keys |-> no, values |-> none, children |-> no,
             parent |-> x, next |-> x, previous |-> x] EXCEPT !.leaf = FALSE] EXCEPT !.keys = ks, !.children = cs]
  BY DEF NewInternal, NewLeaf
<1> HIDE DEF no, none, x, n
<1>2. n = [leaf |-> FALSE, keys |-> ks, values |-> none, children |-> cs,
           parent |-> x, next |-> x, previous |-> x]
  BY <1>1
<1>3. n = NewInternalOf(ks, cs)
  BY <1>2 DEF NewInternalOf, none, x
<1> QED BY <1>3 DEF n

\* InsertIntoParent on the two halves of the root keeps the invariant and every posting list.
LEMMA GrowRootStep ==
  ASSUME IInv, GrowRoot
  PROVE  IInv' /\ SamePostings(node, node')
<1> DEFINE f == Fresh
           r == Head(todo).right
           k == Head(todo).key
<1>1. /\ Called("InsertIntoParent") /\ Callee = root /\ root' = f /\ todo' = Rest /\ size' = size
      /\ node' = Allocate([NewInternal EXCEPT !.keys = <<k>>, !.children = <<root, r>>],
                          [node EXCEPT ![root].parent = f, ![r].parent = f])
  BY DEF GrowRoot
<1>2. Rest \in After /\ r # Null /\ k \in Keys
  BY <1>1, WhenInsertIntoParent
<1>3. PICK h, lo, hi : Tree(node, root, h, lo, hi, root, r, Null, Null) /\ k = lo[r]
  BY <1>1, WhenInsertIntoParent
<1> HIDE DEF r, k
<1>4. /\ Heap(node) /\ root \in DOMAIN node /\ r \in DOMAIN node /\ root # r
      /\ root \in Nat /\ r \in Nat /\ lo[root] \in Int /\ hi[r] \in Int /\ h[root] \in Nat
  BY <1>2, <1>3, PendingParts
<1>5. f \in Nat \ {Null} /\ f \notin DOMAIN node /\ IsFiniteSet(DOMAIN node)
  BY <1>4, FreshIsFree DEF Heap
<1> DEFINE mid == [node EXCEPT ![root].parent = f, ![r].parent = f]
           n == [NewInternal EXCEPT !.keys = <<k>>, !.children = <<root, r>>]
<1>6. node' = [b \in DOMAIN mid \cup {f} |-> IF b = f THEN n ELSE mid[b]]
  BY <1>1 DEF Allocate
<1>7. /\ DOMAIN mid = DOMAIN node
      /\ \A b \in DOMAIN node : mid[b] = IF b \in {root, r} THEN [node[b] EXCEPT !.parent = f] ELSE node[b]
  BY <1>4
<1>8. /\ n \in NodeFields /\ n.leaf = FALSE /\ n.keys = <<k>> /\ n.values = << >> /\ n.children = <<root, r>>
      /\ n.parent = Null /\ n.next = Null /\ n.previous = Null
  <2>1. <<k>> \in Seq(Keys) /\ <<root, r>> \in Seq(Nat)
    BY <1>2, <1>4
  <2> DEFINE ks == <<k>>
             cs == <<root, r>>
  <2>2. ks \in Seq(Keys) /\ cs \in Seq(Nat)
    BY <2>1
  <2>3. n = [NewInternal EXCEPT !.keys = ks, !.children = cs]
    OBVIOUS
  <2> HIDE DEF n, ks, cs
  <2>4. n = NewInternalOf(ks, cs)
    <3>1. [NewInternal EXCEPT !.keys = ks, !.children = cs] = NewInternalOf(ks, cs)
      BY NewInternalIs, Zenon
    <3> QED BY <2>3, <3>1, Zenon
  <2>5. /\ NewInternalOf(ks, cs) \in NodeFields /\ NewInternalOf(ks, cs).leaf = FALSE
        /\ NewInternalOf(ks, cs).keys = ks /\ NewInternalOf(ks, cs).values = << >>
        /\ NewInternalOf(ks, cs).children = cs /\ NewInternalOf(ks, cs).parent = Null
        /\ NewInternalOf(ks, cs).next = Null /\ NewInternalOf(ks, cs).previous = Null
    BY <2>2, NewInternalFields
  <2> QED BY <2>4, <2>5 DEF ks, cs
<1> HIDE DEF mid, n, f
<1>9. /\ DOMAIN node' = DOMAIN node \cup {f} /\ node'[f] = n
      /\ node' = [b \in DOMAIN node' |-> node'[b]]
      /\ \A b \in DOMAIN node : node'[b] = mid[b]
  BY <1>5, <1>6, <1>7
<1>10. \A b \in DOMAIN node :
        /\ node'[b] \in NodeFields
        /\ node'[b].leaf = node[b].leaf /\ node'[b].keys = node[b].keys
        /\ node'[b].values = node[b].values /\ node'[b].children = node[b].children
        /\ node'[b].next = node[b].next /\ node'[b].previous = node[b].previous
        /\ node'[b].parent = IF b \in {root, r} THEN f ELSE node[b].parent
  <2> TAKE b \in DOMAIN node
  <2>1. node[b] \in NodeFields /\ node'[b] = IF b \in {root, r} THEN [node[b] EXCEPT !.parent = f] ELSE node[b]
    BY <1>4, <1>7, <1>9, Fields
  <2>2. CASE b \in {root, r}
    <3>1. node'[b] = [node[b] EXCEPT !.parent = f]
      BY <2>1, <2>2
    <3> QED BY <1>5, <2>1, <2>2, <3>1, ParentAssigned
  <2>3. CASE b \notin {root, r}
    BY <2>1, <2>3
  <2> QED BY <2>2, <2>3
<1>11. Heap(node')
  <2>1. \A a \in DOMAIN node' : node'[a] \in NodeFields
    BY <1>8, <1>9, <1>10
  <2>2. IsFiniteSet(DOMAIN node') /\ DOMAIN node' \subseteq Nat \ {Null}
    BY <1>4, <1>5, <1>9, FS_AddElement DEF Heap
  <2> QED BY <1>9, <2>1, <2>2, HeapOf
<1>12. Grown(node, node', root, r, f, lo[r])
  BY <1>3, <1>8, <1>9, <1>10, <1>11 DEF Grown
<1> DEFINE h2  == [a \in DOMAIN h \cup {f} |-> IF a = f THEN h[root] + 1 ELSE h[a]]
           lo2 == [a \in DOMAIN lo \cup {f} |-> IF a = f THEN lo[root] ELSE lo[a]]
           hi2 == [a \in DOMAIN hi \cup {f} |-> IF a = f THEN hi[r] ELSE hi[a]]
<1>13. With(h, h2, f, h[root] + 1) /\ With(lo, lo2, f, lo[root]) /\ With(hi, hi2, f, hi[r])
  BY DEF With
<1> HIDE DEF h2, lo2, hi2
<1>14. Resting(node', f, h2, lo2, hi2, Null, Null)
  BY <1>2, <1>3, <1>5, <1>12, <1>13, GrowKeeps
<1>15. SamePostings(node, node')
  <2>1. \A b \in DOMAIN node : node[b].leaf => /\ b \in DOMAIN node' /\ node'[b].leaf
                                               /\ node'[b].keys = node[b].keys
                                               /\ node'[b].values = node[b].values
    BY <1>9, <1>10
  <2>2. \A b \in DOMAIN node' : node'[b].leaf => b \in DOMAIN node /\ node[b].leaf
    BY <1>8, <1>9, <1>10
  <2> QED BY <2>1, <2>2, SameLeaves
<1>16. size' = Cardinality(KeysOf(node')) /\ IsFiniteSet(KeysOf(node'))
  BY <1>1, <1>15, SizeAgain
<1>17. root' = f /\ todo' \in After
  BY <1>1, <1>2 DEF f
<1>18. IInv'
  BY <1>14, <1>16, <1>17, RestAgain
<1> QED BY <1>15, <1>18

\* InsertIntoParent below the root keeps the invariant and every posting list.
LEMMA InsertIntoParentStep ==
  ASSUME IInv, InsertIntoParent
  PROVE  IInv' /\ SamePostings(node, node')
<1> DEFINE l == Callee
           r == Head(todo).right
           k == Head(todo).key
           p == node[l].parent
           at == ChildIndex(p, l) + 1
           full == Len(node[p].keys) + 1 > MaxKeys
           ks == InsertAt(node[p].keys, at, k)
           cs == InsertAt(node[p].children, at + 1, r)
<1>1. /\ Called("InsertIntoParent") /\ l # root /\ root' = root /\ size' = size
      /\ todo' = (IF full THEN <<SplitInternalOf(p)>> ELSE << >>) \o Rest
      /\ node' = [node EXCEPT ![p].keys = InsertAt(@, ChildIndex(p, l) + 1, k),
                              ![p].children = InsertAt(@, ChildIndex(p, l) + 2, r),
                              ![r].parent = p]
  BY DEF InsertIntoParent
<1>2. Rest \in After /\ r # Null /\ k \in Keys
  BY <1>1, WhenInsertIntoParent
<1>3. PICK h, lo, hi : Tree(node, root, h, lo, hi, l, r, Null, Null) /\ k = lo[r]
  BY <1>1, WhenInsertIntoParent
<1> HIDE DEF r, k, l
<1>4. /\ Heap(node) /\ Kinds(node, h) /\ Ordered(node, lo, hi) /\ Down(node, h, lo, hi, l, r)
      /\ Up(node, root, r) /\ l \in DOMAIN node /\ r \in DOMAIN node /\ l # r /\ r \in Nat
  BY <1>2, <1>3, PendingParts
<1>5. IsChild(node, p, l)
  BY <1>1, <1>4 DEF Up
<1>6. p \in DOMAIN node /\ ~node[p].leaf
  BY <1>5 DEF IsChild
<1>7. PICK i \in 1..Len(node[p].children) : node[p].children[i] = l
  BY <1>5 DEF IsChild
<1>8. Len(node[p].children) = Len(node[p].keys) + 1 /\ Len(node[p].keys) \in Nat
  BY <1>4, <1>6, ChildrenApart
<1>9. i \in 1..Len(node[p].keys) + 1 /\ i \in Nat
  BY <1>8
<1>10. ChildIndex(p, l) = i - 1
  BY <1>4, <1>6, <1>7, <1>9, ChildIndexFinds
<1>11. at = i /\ ChildIndex(p, l) + 2 = i + 1
  BY <1>9, <1>10
<1>12. p # r
  <2> SUFFICES ASSUME p = r PROVE FALSE
    OBVIOUS
  <2>1. h[l] = h[r] /\ h[l] + 1 = h[p] /\ h[l] \in Nat
    <3>1. h[l] = h[r] /\ h[l] \in Nat
      BY <1>2, <1>3, PendingParts
    <3>2. Hangs(node, h, lo, hi, l, r, p, i)
      BY <1>4, <1>6, <1>7 DEF Down
    <3> QED BY <1>7, <3>1, <3>2 DEF Hangs
  <2> QED BY <2>1
<1> HIDE DEF p
<1>13. /\ node[p] \in NodeFields /\ node[p].keys \in Seq(Keys) /\ node[p].children \in Seq(Nat)
       /\ p \in Nat
  BY <1>4, <1>6, Fields
<1>14. ks \in Seq(Keys) /\ Inserted(node[p].keys, i, k, ks)
  <2> DEFINE s == node[p].keys
  <2>1. s \in Seq(Keys) /\ i \in 1..Len(s) + 1 /\ k \in Keys
    BY <1>2, <1>9, <1>13
  <2>2. ks = InsertAt(s, i, k)
    BY <1>11
  <2> HIDE DEF s, ks
  <2>3. InsertAt(s, i, k) \in Seq(Keys) /\ Inserted(s, i, k, InsertAt(s, i, k))
    BY <2>1, InsertAtInserts
  <2> QED BY <2>2, <2>3 DEF s
<1>15. cs \in Seq(Nat) /\ Inserted(node[p].children, i + 1, r, cs)
  <2> DEFINE s == node[p].children
  <2>1. s \in Seq(Nat) /\ i + 1 \in 1..Len(s) + 1 /\ r \in Nat
    BY <1>4, <1>8, <1>9, <1>13
  <2>2. cs = InsertAt(s, i + 1, r)
    BY <1>11
  <2> HIDE DEF s, cs
  <2>3. InsertAt(s, i + 1, r) \in Seq(Nat) /\ Inserted(s, i + 1, r, InsertAt(s, i + 1, r))
    BY <2>1, InsertAtInserts
  <2> QED BY <2>2, <2>3 DEF s
<1>16. node' = [node EXCEPT ![p].keys = ks, ![p].children = cs, ![r].parent = p]
  <2>1. ks = InsertAt(node[p].keys, i, k) /\ cs = InsertAt(node[p].children, i + 1, r)
    BY <1>11
  <2>2. node' = [node EXCEPT ![p].keys = InsertAt(@, i, k), ![p].children = InsertAt(@, i + 1, r), ![r].parent = p]
    BY <1>1, <1>11 DEF p
  <2>3. node[p].children = [node[p] EXCEPT !.keys = InsertAt(@, i, k)].children
    BY <1>13 DEF NodeFields
  <2> HIDE DEF ks, cs
  <2> QED BY <1>6, <2>1, <2>2, <2>3
<1> HIDE DEF ks, cs
<1> DEFINE n2 == [node[p] EXCEPT !.keys = ks, !.children = cs]
<1>17. /\ n2 \in NodeFields /\ n2.keys = ks /\ n2.children = cs /\ n2.leaf = node[p].leaf
       /\ n2.values = node[p].values /\ n2.next = node[p].next /\ n2.previous = node[p].previous
       /\ n2.parent = node[p].parent
  <2> DEFINE n == node[p]
  <2>1. n \in NodeFields
    BY <1>13
  <2> HIDE DEF n
  <2>2. LET m == [n EXCEPT !.keys = ks, !.children = cs]
        IN  /\ m \in NodeFields /\ m.keys = ks /\ m.children = cs /\ m.leaf = n.leaf
            /\ m.values = n.values /\ m.next = n.next /\ m.previous = n.previous /\ m.parent = n.parent
    BY <1>14, <1>15, <2>1 DEF NodeFields
  <2> QED BY <2>2 DEF n
<1>18. /\ DOMAIN node' = DOMAIN node /\ node' = [b \in DOMAIN node' |-> node'[b]]
       /\ node'[p] = n2 /\ node'[r] = [node[r] EXCEPT !.parent = p]
       /\ \A b \in DOMAIN node : b # p /\ b # r => node'[b] = node[b]
  BY <1>4, <1>6, <1>12, <1>16
<1> HIDE DEF n2
<1>19. /\ node'[r] \in NodeFields /\ node'[r].parent = p
       /\ node'[r].leaf = node[r].leaf /\ node'[r].keys = node[r].keys /\ node'[r].values = node[r].values
       /\ node'[r].children = node[r].children
       /\ node'[r].next = node[r].next /\ node'[r].previous = node[r].previous
  <2>1. node[r] \in NodeFields
    BY <1>4, Fields
  <2> QED BY <1>13, <1>18, <2>1, ParentAssigned
<1>20. Heap(node')
  <2>1. \A a \in DOMAIN node' : node'[a] \in NodeFields
    <3> TAKE a \in DOMAIN node'
    <3>1. a \in DOMAIN node /\ node[a] \in NodeFields
      BY <1>4, <1>18, Fields
    <3> QED BY <1>17, <1>18, <1>19, <3>1
  <2>2. IsFiniteSet(DOMAIN node') /\ DOMAIN node' \subseteq Nat \ {Null}
    BY <1>4, <1>18 DEF Heap
  <2> QED BY <1>18, <2>1, <2>2, HeapOf
<1>21. \A b \in DOMAIN node :
        /\ node'[b].leaf = node[b].leaf /\ node'[b].values = node[b].values
        /\ node'[b].next = node[b].next /\ node'[b].previous = node[b].previous
        /\ node'[b].parent = IF b = r THEN p ELSE node[b].parent
  <2> TAKE b \in DOMAIN node
  <2>1. CASE b = p
    BY <1>12, <1>17, <1>18, <2>1
  <2>2. CASE b = r
    BY <1>19, <2>2
  <2>3. CASE b # p /\ b # r
    BY <1>18, <2>3
  <2> QED BY <2>1, <2>2, <2>3
<1>22. \A b \in DOMAIN node : b # p => node'[b].keys = node[b].keys /\ node'[b].children = node[b].children
  BY <1>18, <1>19
<1>23. Attached(node, node', p, i, r, lo[r])
  <2>1. node'[p].keys = ks /\ node'[p].children = cs
    BY <1>17, <1>18
  <2>2. /\ Len(node'[p].keys) = Len(node[p].keys) + 1
        /\ \A j \in 1..Len(node[p].keys) + 1 :
              node'[p].keys[j] = IF j < i THEN node[p].keys[j]
                                 ELSE IF j = i THEN lo[r] ELSE node[p].keys[j - 1]
    BY <1>3, <1>14, <2>1 DEF Inserted
  <2>3. Len(node[p].children) + 1 = Len(node[p].keys) + 2
    BY <1>8 DEF p
  <2>4. /\ Len(node'[p].children) = Len(node[p].children) + 1
        /\ \A j \in 1..Len(node[p].keys) + 2 :
              node'[p].children[j] = IF j < i + 1 THEN node[p].children[j]
                                     ELSE IF j = i + 1 THEN r ELSE node[p].children[j - 1]
    BY <1>15, <2>1, <2>3 DEF Inserted
  <2> QED BY <1>18, <1>20, <1>21, <1>22, <2>2, <2>4 DEF Attached
<1>24. Resting(node', root, h, lo, hi, IF full THEN p ELSE Null, Null)
  <2>1. /\ p \in DOMAIN node /\ ~node[p].leaf /\ i \in 1..Len(node[p].keys) + 1 /\ node[p].children[i] = l
        /\ r # Null /\ l # root
    BY <1>1, <1>2, <1>6, <1>7, <1>9 DEF p
  <2> QED BY <1>3, <1>23, <2>1, AttachKeeps
<1>25. SamePostings(node, node')
  <2>1. \A b \in DOMAIN node : node[b].leaf => b # p
    BY <1>6 DEF p
  <2>2. \A b \in DOMAIN node : node[b].leaf => /\ b \in DOMAIN node' /\ node'[b].leaf
                                               /\ node'[b].keys = node[b].keys
                                               /\ node'[b].values = node[b].values
    BY <1>18, <1>21, <1>22, <2>1
  <2>3. \A b \in DOMAIN node' : node'[b].leaf => b \in DOMAIN node /\ node[b].leaf
    BY <1>18, <1>21
  <2> QED BY <2>2, <2>3, SameLeaves
<1>26. size' = Cardinality(KeysOf(node')) /\ IsFiniteSet(KeysOf(node'))
  BY <1>1, <1>25, SizeAgain
<1>27. p # Null /\ ~node'[p].leaf
  BY <1>4, <1>6, <1>21 DEF p, Heap
<1> HIDE DEF full
<1>28. CASE full
  <2>1. Resting(node', root', h, lo, hi, p, Null) /\ todo' = <<SplitInternalOf(p)>> \o Rest
    BY <1>1, <1>24, <1>28 DEF p
  <2>2. todo' = <<IF node'[p].leaf THEN SplitLeafOf(p) ELSE SplitInternalOf(p)>> \o Rest
    BY <1>27, <2>1
  <2>3. IInv'
    BY <1>2, <1>26, <1>27, <2>1, <2>2, OverAgain
  <2> QED BY <1>25, <2>3
<1>29. CASE ~full
  <2>1. Resting(node', root', h, lo, hi, Null, Null) /\ todo' = << >> \o Rest
    BY <1>1, <1>24, <1>29
  <2>2. todo' \in After
    BY <1>2, <2>1, Afterwards
  <2>3. IInv'
    BY <1>26, <2>1, <2>2, RestAgain
  <2> QED BY <1>25, <2>3
<1> QED BY <1>28, <1>29

-----------------------------------------------------------------------------
(* The step of SplitInternal. *)

\* What SplitInternal makes of the fields of every node.
SplitUp(heap, heap2, c, f, mid) ==
    LET moved == Drop(heap[c].children, mid + 1) IN
    /\ Heap(heap2) /\ DOMAIN heap2 = DOMAIN heap \cup {f}
    /\ \A b \in DOMAIN heap : b # c =>
          /\ heap2[b].leaf = heap[b].leaf /\ heap2[b].keys = heap[b].keys
          /\ heap2[b].values = heap[b].values /\ heap2[b].children = heap[b].children
          /\ heap2[b].next = heap[b].next /\ heap2[b].previous = heap[b].previous
          /\ heap2[b].parent = IF b \in ToSet(moved) THEN f ELSE heap[b].parent
    /\ heap2[c].leaf = heap[c].leaf /\ heap2[c].keys = SubSeq(heap[c].keys, 1, mid)
    /\ heap2[c].values = heap[c].values /\ heap2[c].children = SubSeq(heap[c].children, 1, mid + 1)
    /\ heap2[c].parent = heap[c].parent /\ heap2[c].next = heap[c].next
    /\ heap2[c].previous = heap[c].previous
    /\ heap2[f].leaf = FALSE /\ heap2[f].keys = Drop(heap[c].keys, mid + 1)
    /\ heap2[f].values = << >> /\ heap2[f].children = moved
    /\ heap2[f].parent = Null /\ heap2[f].next = Null /\ heap2[f].previous = Null

\* A node is not among the children it gives away.
Foreign(heap, c, mid) == c \notin ToSet(Drop(heap[c].children, mid + 1))

\* The fields of every node after SplitInternal.
LEMMA SplitInternalFields ==
  ASSUME Heap(node), Callee \in DOMAIN node, SplitInternal,
         Len(node[Callee].children) = Len(node[Callee].keys) + 1,
         NEW mid, mid = InternalSplitPoint(Len(node[Callee].keys)), mid \in 0..Len(node[Callee].keys) - 1,
         NEW c, c = Callee, NEW f, f = Fresh, Foreign(node, c, mid)
  PROVE  SplitUp(node, node', c, f, mid)
<1> DEFINE old == node[c]
           ks == SubSeq(old.keys, 1, mid)
           cs == SubSeq(old.children, 1, mid + 1)
           kd == Drop(old.keys, mid + 1)
           cd == Drop(old.children, mid + 1)
           left == [old EXCEPT !.keys = ks, !.children = cs]
           right == NewInternalOf(kd, cd)
           heap == [a \in DOMAIN node |->
                       CASE a = c         -> left
                         [] a \in ToSet(cd) -> [node[a] EXCEPT !.parent = f]
                         [] OTHER         -> node[a]]
<1>1. node' = Allocate(right, heap)
  <2> DEFINE new == [NewInternal EXCEPT !.keys = kd, !.children = cd]
  <2>1. node' = Allocate(new, heap)
    BY DEF SplitInternal
  <2> HIDE DEF heap, kd, cd
  <2>2. new = right
    BY NewInternalIs, Zenon
  <2> HIDE DEF new, right
  <2> QED BY <2>1, <2>2
<1>2. f \notin DOMAIN node /\ f \in Nat /\ f # Null
  BY FreshIsFree DEF Heap
<1>3. \A b \in DOMAIN node : node[b] \in NodeFields
  BY DEF Heap
<1>4. old \in NodeFields /\ old.keys \in Seq(Keys) /\ old.children \in Seq(Nat) /\ Len(old.keys) \in Nat
  BY Fields
<1>5. mid \in 0..Len(old.keys) /\ mid + 1 \in 0..Len(old.keys) /\ mid + 1 \in 0..Len(old.children)
  BY <1>4
<1>6. ks \in Seq(Keys) /\ cs \in Seq(Nat) /\ kd \in Seq(Keys) /\ cd \in Seq(Nat)
  <2> HIDE DEF old
  <2> QED BY <1>4, <1>5, CutElements
<1>7. heap[c] = left /\ DOMAIN heap = DOMAIN node
      /\ \A b \in DOMAIN node : b # c =>
            heap[b] = IF b \in ToSet(cd) THEN [node[b] EXCEPT !.parent = f] ELSE node[b]
  <2> HIDE DEF left, cd, ks, cs, kd
  <2>1. c \in DOMAIN node /\ c \notin ToSet(cd)
    BY DEF cd, Foreign
  <2>2. DOMAIN heap = DOMAIN node
    OBVIOUS
  <2>3. \A b \in DOMAIN node : heap[b] = CASE b = c -> left
                                            [] b \in ToSet(cd) -> [node[b] EXCEPT !.parent = f]
                                            [] OTHER -> node[b]
    OBVIOUS
  <2> HIDE DEF heap
  <2>4. heap[c] = left
    BY <2>1, <2>3
  <2>5. \A b \in DOMAIN node : b # c =>
            heap[b] = IF b \in ToSet(cd) THEN [node[b] EXCEPT !.parent = f] ELSE node[b]
    BY <2>3
  <2> QED BY <2>2, <2>4, <2>5
<1> HIDE DEF heap, ks, cs, kd, cd
<1>8. /\ left \in NodeFields /\ left.leaf = old.leaf /\ left.keys = ks /\ left.values = old.values
      /\ left.children = cs /\ left.parent = old.parent /\ left.next = old.next
      /\ left.previous = old.previous
  <2> HIDE DEF old
  <2> QED BY <1>4, <1>6 DEF NodeFields
<1>9. /\ right \in NodeFields /\ right.leaf = FALSE /\ right.keys = kd /\ right.values = << >>
      /\ right.children = cd /\ right.parent = Null /\ right.next = Null /\ right.previous = Null
  BY <1>6, NewInternalFields, ZenonT(40)
<1> HIDE DEF left, right
<1>10. /\ DOMAIN node' = DOMAIN node \cup {f} /\ node'[f] = right
       /\ node' = [b \in DOMAIN node' |-> node'[b]]
       /\ \A b \in DOMAIN node : node'[b] = heap[b]
  BY <1>1, <1>2, <1>7 DEF Allocate
<1>11. \A b \in DOMAIN node : b # c =>
          /\ node'[b] \in NodeFields
          /\ node'[b].leaf = node[b].leaf /\ node'[b].keys = node[b].keys
          /\ node'[b].values = node[b].values /\ node'[b].children = node[b].children
          /\ node'[b].next = node[b].next /\ node'[b].previous = node[b].previous
          /\ node'[b].parent = IF b \in ToSet(cd) THEN f ELSE node[b].parent
  <2> TAKE b \in DOMAIN node
  <2> HAVE b # c
  <2>1. node[b] \in NodeFields /\ node'[b] = IF b \in ToSet(cd) THEN [node[b] EXCEPT !.parent = f] ELSE node[b]
    BY <1>3, <1>7, <1>10
  <2>2. CASE b \in ToSet(cd)
    <3>1. node'[b] = [node[b] EXCEPT !.parent = f]
      BY <2>1, <2>2
    <3> QED BY <1>2, <2>1, <2>2, <3>1, ParentAssigned
  <2>3. CASE b \notin ToSet(cd)
    BY <2>1, <2>3
  <2> QED BY <2>2, <2>3
<1>12. node'[c] = left
  BY <1>7, <1>10
<1>13. Heap(node')
  <2>1. \A a \in DOMAIN node' : node'[a] \in NodeFields
    BY <1>8, <1>9, <1>10, <1>11, <1>12
  <2>2. IsFiniteSet(DOMAIN node') /\ DOMAIN node' \subseteq Nat \ {Null}
    BY <1>2, <1>10, FS_AddElement DEF Heap
  <2> QED BY <1>10, <2>1, <2>2, HeapOf
<1>14. /\ node'[c].leaf = old.leaf /\ node'[c].keys = ks /\ node'[c].values = old.values
       /\ node'[c].children = cs /\ node'[c].parent = old.parent /\ node'[c].next = old.next
       /\ node'[c].previous = old.previous
  BY <1>8, <1>12
<1>15. /\ node'[f].leaf = FALSE /\ node'[f].keys = kd /\ node'[f].values = << >>
       /\ node'[f].children = cd /\ node'[f].parent = Null /\ node'[f].next = Null /\ node'[f].previous = Null
  BY <1>9, <1>10
<1> QED BY <1>10, <1>11, <1>13, <1>14, <1>15 DEF SplitUp, ks, cs, kd, cd

\* An internal node split at mid: the tree is one with a half pending.
LEMMA SplitUpKeeps ==
  ASSUME NEW heap, NEW heap2, NEW top, NEW h, NEW lo, NEW hi, NEW c \in DOMAIN heap, ~heap[c].leaf,
         Resting(heap, top, h, lo, hi, c, Null), NEW f \in Nat \ {Null}, f \notin DOMAIN heap,
         NEW mid \in Nat, mid >= MinInternalKeys, mid + 1 <= Len(heap[c].keys),
         Len(heap[c].keys) - mid - 1 >= MinInternalKeys,
         SplitUp(heap, heap2, c, f, mid)
  PROVE  \E h2, lo2, hi2 : /\ Tree(heap2, top, h2, lo2, hi2, c, f, Null, Null)
                           /\ lo2[f] = heap[c].keys[mid + 1]
<1> DEFINE ks == heap[c].keys
           cs == heap[c].children
           m == Len(ks)
           sep == ks[mid + 1]
           moved == Drop(cs, mid + 1)
<1>1. /\ Heap(heap) /\ Kinds(heap, h) /\ Ordered(heap, lo, hi) /\ Down(heap, h, lo, hi, Null, Null)
      /\ Up(heap, top, Null) /\ Filled(heap, top, c, Null)
      /\ c # Null /\ lo[c] \in Int /\ hi[c] \in Int /\ h[c] \in Nat
      /\ \A a \in DOMAIN heap : a # Null /\ End(hi, Null, Null, a) = hi[a]
  BY Parts
<1>2. m = MaxKeys + 1 /\ m \in Nat
  BY <1>1, Bounds0 DEF Filled, FilledAt
<1>3. /\ ks \in Seq(Keys) /\ cs \in Seq(Nat) /\ \A i \in 1..m : ks[i] \in Int
  BY <1>1, Fields
<1>4. /\ h[c] # 0 /\ heap[c].values = << >> /\ heap[c].next = Null /\ heap[c].previous = Null
      /\ Len(cs) = m + 1
  <2>1. KindOf(heap, h, c)
    BY <1>1 DEF Kinds
  <2> QED BY <2>1 DEF KindOf
<1>5. /\ lo[c] < hi[c]
      /\ \A i, j \in 1..m : i < j => ks[i] < ks[j]
      /\ \A i \in 1..m : lo[c] < ks[i] /\ ks[i] < hi[c]
  <2>1. InOrder(heap, lo, hi, c)
    BY <1>1 DEF Ordered
  <2> QED BY <2>1 DEF InOrder
<1>6. /\ mid + 1 \in 1..m /\ mid \in 0..m /\ mid + 1 \in 0..m /\ mid + 1 \in 0..m + 1
      /\ mid <= MaxKeys /\ m - mid - 1 <= MaxKeys /\ m - mid - 1 \in Nat /\ m - mid - 1 >= MinInternalKeys
  <2>1. mid + 1 <= m /\ m - mid - 1 >= MinInternalKeys
    OBVIOUS
  <2> HIDE DEF m
  <2> QED BY <1>2, <2>1, Bounds0
<1>7. \A i \in 1..m + 1 : /\ cs[i] \in DOMAIN heap /\ heap[cs[i]].parent = c /\ h[cs[i]] + 1 = h[c] /\ h[cs[i]] \in Nat
                          /\ lo[cs[i]] = ChildLow(heap, lo, c, i) /\ hi[cs[i]] = ChildHigh(heap, hi, c, i)
                          /\ cs[i] # c /\ cs[i] # f
  <2> TAKE i \in 1..m + 1
  <2>1. Hangs(heap, h, lo, hi, Null, Null, c, i)
    BY <1>1, <1>4 DEF Down
  <2>2. /\ cs[i] \in DOMAIN heap /\ heap[cs[i]].parent = c /\ h[cs[i]] + 1 = h[c]
        /\ lo[cs[i]] = ChildLow(heap, lo, c, i) /\ End(hi, Null, Null, cs[i]) = ChildHigh(heap, hi, c, i)
    BY <2>1 DEF Hangs
  <2>3. h[cs[i]] \in Nat
    BY <1>1, <2>2 DEF Kinds
  <2> QED BY <1>1, <2>2, <2>3
<1>8. \A i, j \in 1..m + 1 : cs[i] = cs[j] => i = j
  BY <1>1, ChildrenApart
<1> HIDE DEF ks, cs, m
<1>9. /\ Len(SubSeq(ks, 1, mid)) = mid /\ \A i \in 1..mid : SubSeq(ks, 1, mid)[i] = ks[i]
      /\ Len(Drop(ks, mid + 1)) = m - mid - 1
      /\ \A i \in 1..m - mid - 1 : Drop(ks, mid + 1)[i] = ks[mid + 1 + i]
  <2>1. mid \in 0..Len(ks) /\ mid + 1 \in 0..Len(ks) /\ Len(ks) = m
    BY <1>6 DEF m
  <2>2. /\ Len(SubSeq(ks, 1, mid)) = mid /\ \A i \in 1..mid : SubSeq(ks, 1, mid)[i] = ks[i]
    BY <1>3, <2>1, CutElements
  <2>3. /\ Len(Drop(ks, mid + 1)) = Len(ks) - (mid + 1)
        /\ \A i \in 1..Len(ks) - (mid + 1) : Drop(ks, mid + 1)[i] = ks[mid + 1 + i]
    BY <1>3, <2>1, CutElements, ZenonT(40)
  <2>4. Len(ks) - (mid + 1) = m - mid - 1
    BY <1>2, <2>1
  <2> QED BY <2>2, <2>3, <2>4
<1>10. /\ Len(SubSeq(cs, 1, mid + 1)) = mid + 1 /\ \A i \in 1..mid + 1 : SubSeq(cs, 1, mid + 1)[i] = cs[i]
       /\ Len(moved) = m - mid /\ moved \in Seq(Nat)
       /\ \A i \in 1..m - mid : moved[i] = cs[mid + 1 + i]
  <2>1. mid + 1 \in 0..Len(cs) /\ Len(cs) - (mid + 1) = m - mid
    BY <1>2, <1>4, <1>6
  <2>2. /\ Len(SubSeq(cs, 1, mid + 1)) = mid + 1 /\ \A i \in 1..mid + 1 : SubSeq(cs, 1, mid + 1)[i] = cs[i]
    BY <1>3, <2>1, CutElements
  <2>3. /\ Len(Drop(cs, mid + 1)) = Len(cs) - (mid + 1) /\ Drop(cs, mid + 1) \in Seq(Nat)
        /\ \A i \in 1..Len(cs) - (mid + 1) : Drop(cs, mid + 1)[i] = cs[mid + 1 + i]
    BY <1>3, <2>1, CutElements
  <2> QED BY <2>1, <2>2, <2>3
<1> HIDE DEF moved
<1>11. /\ Heap(heap2) /\ DOMAIN heap2 = DOMAIN heap \cup {f}
       /\ \A b \in DOMAIN heap : b # c =>
             /\ heap2[b].leaf = heap[b].leaf /\ heap2[b].keys = heap[b].keys
             /\ heap2[b].values = heap[b].values /\ heap2[b].children = heap[b].children
             /\ heap2[b].next = heap[b].next /\ heap2[b].previous = heap[b].previous
             /\ heap2[b].parent = IF b \in ToSet(moved) THEN f ELSE heap[b].parent
       /\ heap2[c].leaf = heap[c].leaf /\ heap2[c].keys = SubSeq(ks, 1, mid)
       /\ heap2[c].values = heap[c].values /\ heap2[c].children = SubSeq(cs, 1, mid + 1)
       /\ heap2[c].parent = heap[c].parent /\ heap2[c].next = heap[c].next
       /\ heap2[c].previous = heap[c].previous
       /\ heap2[f].leaf = FALSE /\ heap2[f].keys = Drop(ks, mid + 1)
       /\ heap2[f].values = << >> /\ heap2[f].children = moved
       /\ heap2[f].parent = Null /\ heap2[f].next = Null /\ heap2[f].previous = Null
  BY DEF SplitUp, ks, cs, moved
<1>12. ToSet(moved) = {cs[i] : i \in mid + 2..m + 1}
  <2>1. ToSet(moved) = {moved[i] : i \in 1..m - mid}
    <3>1. moved \in Seq(Nat) /\ Len(moved) = m - mid
      BY <1>10
    <3>2. ToSet(moved) = {moved[i] : i \in 1..Len(moved)}
      BY <3>1, SMTT(20) DEF ToSet
    <3> QED BY <3>1, <3>2
  <2>2. \A i \in 1..m - mid : mid + 1 + i \in mid + 2..m + 1
    BY <1>2
  <2>3. \A i \in mid + 2..m + 1 : i - mid - 1 \in 1..m - mid /\ mid + 1 + (i - mid - 1) = i
    BY <1>2
  <2> QED BY <1>10, <2>1, <2>2, <2>3
<1>13. \A i \in 1..m + 1 : cs[i] \in ToSet(moved) <=> i > mid + 1
  <2> TAKE i \in 1..m + 1
  <2>1. \A j \in mid + 2..m + 1 : j \in 1..m + 1 /\ j > mid + 1
    BY <1>2
  <2>2. i > mid + 1 => i \in mid + 2..m + 1
    BY <1>2
  <2> QED BY <1>8, <1>12, <2>1, <2>2
<1>14. \A i \in 1..m + 1 : heap2[cs[i]].parent = IF i > mid + 1 THEN f ELSE c
  BY <1>7, <1>11, <1>13
<1>15. Split(heap, heap2, c, f)
  <2>1. \A b \in DOMAIN heap : heap2[b].leaf = heap[b].leaf /\ heap2[b].next = heap[b].next
                               /\ heap2[b].previous = heap[b].previous
    BY <1>11
  <2>2. \A b \in DOMAIN heap : /\ heap2[b].next = IF b = c /\ heap[c].leaf THEN f ELSE heap[b].next
                               /\ heap2[b].previous = IF b = heap[c].next THEN f ELSE heap[b].previous
    BY <1>1, <1>4, <2>1
  <2>3. ASSUME NEW b \in DOMAIN heap
        PROVE  IF heap[b].parent = c THEN IsChild(heap2, heap2[b].parent, b)
               ELSE heap2[b].parent = heap[b].parent
    <3>1. CASE heap[b].parent = c
      <4>1. IsChild(heap, c, b)
        BY <1>1, <3>1 DEF Up
      <4>2. PICK i \in 1..m + 1 : cs[i] = b
        BY <1>4, <4>1 DEF IsChild, cs
      <4>3. CASE i > mid + 1
        <5>1. heap2[b].parent = f /\ f \in DOMAIN heap2 /\ ~heap2[f].leaf /\ heap2[f].children = moved
          BY <1>11, <1>14, <4>2, <4>3
        <5>2. i - mid - 1 \in 1..m - mid /\ mid + 1 + (i - mid - 1) = i
          BY <1>2, <4>3
        <5>3. moved[i - mid - 1] = b /\ i - mid - 1 \in 1..Len(moved)
          BY <1>10, <4>2, <5>2
        <5>4. IsChild(heap2, f, b)
          <6> DEFINE e == heap2[f].children
          <6>1. e[i - mid - 1] = b /\ i - mid - 1 \in 1..Len(e)
            BY <5>1, <5>3
          <6>2. \E j \in 1..Len(e) : e[j] = b
            BY <6>1
          <6> QED BY <5>1, <6>2 DEF IsChild
        <5> QED BY <3>1, <5>1, <5>4
      <4>4. CASE ~(i > mid + 1)
        <5>1. heap2[b].parent = c /\ c \in DOMAIN heap2 /\ ~heap2[c].leaf /\ heap2[c].children = SubSeq(cs, 1, mid + 1)
          BY <1>11, <1>14, <4>2, <4>4
        <5>2. i \in 1..mid + 1
          BY <1>2, <4>4
        <5>3. SubSeq(cs, 1, mid + 1)[i] = b /\ i \in 1..Len(SubSeq(cs, 1, mid + 1))
          BY <1>10, <4>2, <5>2
        <5>4. IsChild(heap2, c, b)
          <6> DEFINE e == heap2[c].children
          <6>1. e[i] = b /\ i \in 1..Len(e)
            BY <5>1, <5>3
          <6>2. \E j \in 1..Len(e) : e[j] = b
            BY <6>1
          <6> QED BY <5>1, <6>2 DEF IsChild
        <5> QED BY <3>1, <5>1, <5>4
      <4> QED BY <4>3, <4>4
    <3>2. CASE heap[b].parent # c
      <4>1. b \notin ToSet(moved)
        <5>1. \A j \in mid + 2..m + 1 : j \in 1..m + 1
          BY <1>2
        <5> QED BY <1>7, <1>12, <3>2, <5>1
      <4> QED BY <1>11, <3>2, <4>1
    <3> QED BY <3>1, <3>2
  <2>4. /\ heap2[f].leaf = heap[c].leaf /\ heap2[f].next = heap[c].next /\ heap2[f].parent = Null
        /\ heap2[f].previous = IF heap[c].leaf THEN c ELSE Null
    BY <1>1, <1>4, <1>11, Fields
  <2> QED BY <1>11, <2>1, <2>2, <2>3, <2>4 DEF Split
<1>16. sep \in Int /\ lo[c] < sep /\ sep < hi[c]
  BY <1>3, <1>5, <1>6
<1> DEFINE h2 == [a \in DOMAIN h \cup {f} |-> IF a = f THEN h[c] ELSE h[a]]
           lo2 == [a \in DOMAIN lo \cup {f} |-> IF a = f THEN sep ELSE lo[a]]
           hi1 == [a \in DOMAIN hi \cup {f} |-> IF a = f THEN hi[c] ELSE hi[a]]
           hi2 == [hi1 EXCEPT ![c] = sep]
<1>17. With(h, h2, f, h[c]) /\ With(lo, lo2, f, sep) /\ With(hi, hi1, f, hi[c]) /\ Replaced(hi1, hi2, c, sep)
  BY DEF With, Replaced
<1>18. /\ h2[c] = h[c] /\ h2[f] = h[c] /\ lo2[c] = lo[c] /\ lo2[f] = sep /\ hi2[c] = sep /\ hi2[f] = hi[c]
       /\ \A b \in DOMAIN heap : b # c => h2[b] = h[b] /\ lo2[b] = lo[b] /\ hi2[b] = hi[b]
  <2>1. DOMAIN h = DOMAIN heap /\ DOMAIN lo = DOMAIN heap /\ DOMAIN hi = DOMAIN heap
    BY <1>1 DEF Kinds, Ordered
  <2> QED BY <2>1
<1> HIDE DEF h2, lo2, hi1, hi2, sep
<1>180. \A b \in DOMAIN heap : b # c /\ b # f /\ b # Null => End(hi2, Null, Null, b) = hi[b]
  BY <1>18 DEF End
<1>19. Settled(heap2, Null, h2, lo2, hi2, c)
  <2>0. /\ heap2[c].keys = SubSeq(ks, 1, mid) /\ heap2[c].children = SubSeq(cs, 1, mid + 1)
        /\ ~heap2[c].leaf /\ heap2[c].values = << >> /\ heap2[c].next = Null /\ heap2[c].previous = Null
    BY <1>4, <1>11
  <2>1. /\ Len(heap2[c].keys) = mid /\ Len(heap2[c].children) = mid + 1
        /\ \A i \in 1..mid : heap2[c].keys[i] = ks[i]
        /\ \A i \in 1..mid + 1 : heap2[c].children[i] = cs[i]
    BY <1>9, <1>10, <2>0
  <2>10. \A i \in 1..mid : i \in 1..m /\ i < mid + 1
    BY <1>2, <1>6
  <2>2. KindOf(heap2, h2, c)
    BY <1>4, <1>18, <2>0, <2>1 DEF KindOf
  <2>4. InOrder(heap2, lo2, hi2, c)
    <3>1. lo2[c] < hi2[c]
      BY <1>16, <1>18
    <3>2. \A i, j \in 1..mid : i < j => ks[i] < ks[j]
      BY <1>5, <2>10
    <3>3. \A i \in 1..mid : lo[c] < ks[i] /\ lo[c] <= ks[i] /\ ks[i] < sep
      <4> TAKE i \in 1..mid
      <4>1. lo[c] < ks[i] /\ ks[i] \in Int
        BY <1>3, <1>5, <2>10
      <4>2. ks[i] < sep
        BY <1>5, <1>6, <2>10 DEF sep
      <4> QED BY <1>1, <4>1, <4>2
    <3> QED BY <1>18, <2>0, <2>1, <3>1, <3>2, <3>3 DEF InOrder
  <2>5. FilledAt(heap2, Null, Null, Null, c)
    <3>1. MinimumOf(heap2[c].leaf) = MinInternalKeys
      BY <2>0 DEF MinimumOf
    <3> QED BY <1>1, <1>6, <2>1, <3>1 DEF FilledAt
  <2>6. ASSUME NEW j \in 1..mid + 1 PROVE Hangs(heap2, h2, lo2, hi2, Null, Null, c, j)
    <3>1. j \in 1..m + 1 /\ ~(j > mid + 1)
      BY <1>2, <1>6
    <3> DEFINE b == cs[j]
    <3>2. /\ b \in DOMAIN heap /\ h[b] + 1 = h[c] /\ b # c /\ b # f
          /\ lo[b] = ChildLow(heap, lo, c, j) /\ hi[b] = ChildHigh(heap, hi, c, j)
          /\ heap2[b].parent = c
      BY <1>7, <1>14, <3>1
    <3> HIDE DEF b
    <3>3. b \in DOMAIN heap2 /\ h2[b] + 1 = h2[c] /\ lo2[b] = lo[b] /\ End(hi2, Null, Null, b) = hi[b]
      BY <1>1, <1>11, <1>18, <1>180, <3>2
    <3>4. lo[b] = ChildLow(heap2, lo2, c, j)
      <4>1. j # 1 => j - 1 \in 1..mid
        OBVIOUS
      <4> QED BY <1>18, <2>1, <3>2, <4>1 DEF ChildLow, ks
    <3>5. hi[b] = ChildHigh(heap2, hi2, c, j)
      <4>1. j # mid + 1 => j \in 1..mid
        OBVIOUS
      <4>2. j # m + 1
        BY <1>2, <1>6
      <4>3. hi[b] = ks[j]
        BY <3>2, <4>2 DEF ChildHigh, ks, m
      <4> QED BY <1>18, <2>1, <4>1, <4>3 DEF ChildHigh, sep
    <3> QED BY <2>1, <3>2, <3>3, <3>4, <3>5 DEF Hangs, b
  <2> QED BY <2>1, <2>2, <2>4, <2>5, <2>6 DEF Settled
<1>20. Settled(heap2, Null, h2, lo2, hi2, f)
  <2>0. /\ heap2[f].keys = Drop(ks, mid + 1) /\ heap2[f].children = moved
        /\ ~heap2[f].leaf /\ heap2[f].values = << >> /\ heap2[f].next = Null /\ heap2[f].previous = Null
    BY <1>11
  <2> DEFINE n == m - mid - 1
  <2>1. /\ Len(heap2[f].keys) = n /\ Len(heap2[f].children) = n + 1 /\ n \in Nat
        /\ \A i \in 1..n : heap2[f].keys[i] = ks[mid + 1 + i]
        /\ \A i \in 1..n + 1 : heap2[f].children[i] = cs[mid + 1 + i]
    <3>1. n + 1 = m - mid
      BY <1>2
    <3> QED BY <1>6, <1>9, <1>10, <2>0, <3>1
  <2>10. /\ \A i \in 1..n : mid + 1 + i \in 1..m /\ mid + 1 < mid + 1 + i
         /\ \A i \in 1..n + 1 : mid + 1 + i \in 1..m + 1 /\ mid + 1 + i > mid + 1
    BY <1>2, <1>6
  <2>11. m = mid + 1 + n
    BY <1>2
  <2> HIDE DEF n
  <2>2. KindOf(heap2, h2, f)
    BY <1>4, <1>18, <2>0, <2>1 DEF KindOf
  <2>4. InOrder(heap2, lo2, hi2, f)
    <3>1. lo2[f] < hi2[f]
      BY <1>16, <1>18
    <3>2. \A i, j \in 1..n : i < j => ks[mid + 1 + i] < ks[mid + 1 + j]
      <4> TAKE i, j \in 1..n
      <4> HAVE i < j
      <4>1. mid + 1 + i < mid + 1 + j
        OBVIOUS
      <4> QED BY <1>5, <2>10, <4>1
    <3>3. \A i \in 1..n : sep < ks[mid + 1 + i] /\ sep <= ks[mid + 1 + i] /\ ks[mid + 1 + i] < hi[c]
      <4> TAKE i \in 1..n
      <4>1. ks[mid + 1 + i] < hi[c] /\ ks[mid + 1 + i] \in Int
        BY <1>3, <1>5, <2>10
      <4>2. sep < ks[mid + 1 + i]
        BY <1>5, <1>6, <2>10 DEF sep
      <4> QED BY <1>16, <4>1, <4>2
    <3> QED BY <1>18, <2>0, <2>1, <3>1, <3>2, <3>3 DEF InOrder
  <2>5. FilledAt(heap2, Null, Null, Null, f)
    <3>1. MinimumOf(heap2[f].leaf) = MinInternalKeys
      BY <2>0 DEF MinimumOf
    <3> QED BY <1>1, <1>6, <2>1, <3>1 DEF FilledAt, n
  <2>6. ASSUME NEW j \in 1..n + 1 PROVE Hangs(heap2, h2, lo2, hi2, Null, Null, f, j)
    <3> DEFINE i == mid + 1 + j
               b == cs[i]
    <3>1. i \in 1..m + 1 /\ i > mid + 1 /\ i # 1
      BY <2>10
    <3>2. /\ b \in DOMAIN heap /\ h[b] + 1 = h[c] /\ b # c /\ b # f
          /\ lo[b] = ChildLow(heap, lo, c, i) /\ hi[b] = ChildHigh(heap, hi, c, i)
          /\ heap2[b].parent = f
      BY <1>7, <1>14, <3>1
    <3>20. heap2[f].children[j] = b
      BY <2>1
    <3> HIDE DEF b
    <3>3. b \in DOMAIN heap2 /\ h2[b] + 1 = h2[f] /\ lo2[b] = lo[b] /\ End(hi2, Null, Null, b) = hi[b]
      BY <1>1, <1>11, <1>18, <1>180, <3>2
    <3>4. lo[b] = ChildLow(heap2, lo2, f, j)
      <4>1. lo[b] = ks[i - 1]
        BY <3>1, <3>2 DEF ChildLow, ks
      <4>2. CASE j = 1
        <5>1. i - 1 = mid + 1
          BY <4>2
        <5> QED BY <1>18, <4>1, <4>2, <5>1 DEF ChildLow, sep
      <4>3. CASE j # 1
        <5>1. j - 1 \in 1..n /\ mid + 1 + (j - 1) = i - 1
          BY <2>1, <4>3
        <5>2. heap2[f].keys[j - 1] = ks[i - 1]
          <6>1. heap2[f].keys[j - 1] = ks[mid + 1 + (j - 1)]
            BY <2>1, <5>1
          <6> QED BY <5>1, <6>1
        <5> QED BY <4>1, <4>3, <5>2 DEF ChildLow
      <4> QED BY <4>2, <4>3
    <3>5. hi[b] = ChildHigh(heap2, hi2, f, j)
      <4>1. CASE j = n + 1
        <5>1. i = m + 1
          BY <1>2, <2>1, <2>11, <4>1
        <5>2. hi[b] = hi[c]
          BY <3>2, <5>1 DEF ChildHigh, m, ks
        <5> QED BY <1>18, <2>1, <4>1, <5>2 DEF ChildHigh
      <4>2. CASE j # n + 1
        <5>1. i # m + 1 /\ j \in 1..n
          BY <1>2, <2>1, <2>11, <4>2
        <5>2. hi[b] = ks[i]
          BY <3>2, <5>1 DEF ChildHigh, m, ks
        <5> QED BY <2>1, <4>2, <5>1, <5>2 DEF ChildHigh
      <4> QED BY <4>1, <4>2
    <3> QED BY <3>2, <3>20, <3>3, <3>4, <3>5 DEF Hangs
  <2> QED BY <2>1, <2>2, <2>4, <2>5, <2>6 DEF Settled
<1>21. Tree(heap2, top, h2, lo2, hi2, c, f, Null, Null)
  BY <1>15, <1>16, <1>17, <1>19, <1>20, SplitKeeps
<1> QED BY <1>18, <1>21 DEF sep, ks

\* SplitInternal keeps the invariant and every posting list.
LEMMA SplitInternalStep ==
  ASSUME IInv, SplitInternal
  PROVE  IInv' /\ SamePostings(node, node')
<1> DEFINE c == Callee
           f == Fresh
           ks == node[c].keys
           cs == node[c].children
           m == Len(ks)
           mid == InternalSplitPoint(m)
<1>1. Rest \in After /\ c \in DOMAIN node /\ ~node[c].leaf /\ Called("SplitInternal")
  BY WhenSplitInternal DEF SplitInternal
<1>2. PICK h, lo, hi : Resting(node, root, h, lo, hi, c, Null)
  BY WhenSplitInternal DEF SplitInternal
<1>3. /\ Heap(node) /\ Kinds(node, h) /\ Ordered(node, lo, hi) /\ Down(node, h, lo, hi, Null, Null)
      /\ Filled(node, root, c, Null) /\ c # Null /\ h[c] \in Nat
  BY <1>1, <1>2, Parts
<1>4. m = MaxKeys + 1
  BY <1>1, <1>3 DEF Filled, FilledAt
<1>5. /\ mid \in Nat /\ mid >= MinInternalKeys /\ mid + 1 <= m /\ m - mid - 1 >= MinInternalKeys
      /\ mid \in 0..m - 1 /\ m \in Nat
  BY <1>4, InternalSplitFits, Bounds0 DEF InternalFits
<1>6. /\ Len(cs) = m + 1
      /\ \A i \in 1..m + 1 : cs[i] \in DOMAIN node /\ h[cs[i]] + 1 = h[c]
  BY <1>1, <1>3, ChildrenApart
<1>7. cs \in Seq(Nat) /\ ks \in Seq(Keys) /\ \A i \in 1..m : ks[i] \in Keys
  BY <1>1, <1>3, Fields
<1> HIDE DEF mid
<1>8. Foreign(node, c, mid)
  <2> DEFINE moved == Drop(cs, mid + 1)
  <2>1. /\ moved \in Seq(Nat) /\ Len(moved) = m - mid
        /\ \A i \in 1..m - mid : moved[i] = cs[mid + 1 + i] /\ mid + 1 + i \in 1..m + 1
    <3>1. mid + 1 \in 0..Len(cs) /\ Len(cs) - (mid + 1) = m - mid
      BY <1>5, <1>6
    <3> HIDE DEF cs, m
    <3>2. /\ moved \in Seq(Nat) /\ Len(moved) = Len(cs) - (mid + 1)
          /\ \A i \in 1..Len(cs) - (mid + 1) : moved[i] = cs[mid + 1 + i]
      BY <1>7, <3>1, CutElements
    <3>3. \A i \in 1..m - mid : mid + 1 + i \in 1..m + 1
      BY <1>5
    <3> QED BY <3>1, <3>2, <3>3
  <2> HIDE DEF moved, cs, m
  <2>2. ToSet(moved) = {moved[i] : i \in 1..Len(moved)}
    BY <2>1 DEF ToSet
  <2>3. \A i \in 1..m - mid : moved[i] \in DOMAIN node /\ h[moved[i]] + 1 = h[c]
    BY <1>6, <2>1
  <2>4. c \notin ToSet(moved)
    BY <1>3, <2>1, <2>2, <2>3
  <2> QED BY <2>4 DEF Foreign, moved, cs
<1>9. f \in Nat \ {Null} /\ f \notin DOMAIN node
  BY <1>3, FreshIsFree DEF Heap
<1>10. SplitUp(node, node', c, f, mid)
  BY <1>1, <1>3, <1>5, <1>6, <1>8, SplitInternalFields DEF mid
<1> HIDE DEF f
<1>11. PICK h2, lo2, hi2 : /\ Tree(node', root, h2, lo2, hi2, c, f, Null, Null)
                           /\ lo2[f] = node[c].keys[mid + 1]
  BY <1>1, <1>2, <1>5, <1>9, <1>10, SplitUpKeeps
<1>12. SamePostings(node, node')
  <2>1. \A b \in DOMAIN node : node[b].leaf => /\ b \in DOMAIN node' /\ node'[b].leaf
                                               /\ node'[b].keys = node[b].keys
                                               /\ node'[b].values = node[b].values
    BY <1>1, <1>10 DEF SplitUp
  <2>2. \A b \in DOMAIN node' : node'[b].leaf => b \in DOMAIN node /\ node[b].leaf
    BY <1>1, <1>10 DEF SplitUp
  <2> QED BY <2>1, <2>2, SameLeaves
<1>13. root' = root /\ size' = size /\ todo' = <<ParentGains(c, ks[mid + 1], f)>> \o Rest
  BY DEF SplitInternal, f, mid
<1>14. size' = Cardinality(KeysOf(node')) /\ IsFiniteSet(KeysOf(node'))
  BY <1>12, <1>13, SizeAgain
<1>15. Stack(node', todo', lo2, c, f, Null, Null)
  <2>1. todo' = <<ParentGains(c, lo2[f], f)>> \o Rest
    BY <1>11, <1>13
  <2>2. lo2[f] \in Keys
    <3>1. mid + 1 \in 1..m
      BY <1>5
    <3> QED BY <1>7, <1>11, <3>1
  <2> QED BY <1>1, <1>3, <1>9, <2>1, <2>2 DEF Stack
<1>16. IInv'
  BY <1>11, <1>13, <1>14, <1>15 DEF IInv
<1> QED BY <1>12, <1>16

-----------------------------------------------------------------------------
(* The step that gives up the root. *)

\* The heap without one node, and the parent of another reset.
LEMMA RootDropped ==
  ASSUME NEW heap, Heap(heap), NEW top \in DOMAIN heap, NEW c, NEW heap2,
         heap2 = [a \in DOMAIN heap \ {top} |->
                     IF a = c THEN [heap[a] EXCEPT !.parent = Null] ELSE heap[a]]
  PROVE  Promoted(heap, heap2, top, c)
<1>1. DOMAIN heap2 = DOMAIN heap \ {top} /\ heap2 = [b \in DOMAIN heap2 |-> heap2[b]]
  OBVIOUS
<1>2. \A b \in DOMAIN heap2 :
        /\ heap2[b] \in NodeFields
        /\ heap2[b].leaf = heap[b].leaf /\ heap2[b].keys = heap[b].keys
        /\ heap2[b].values = heap[b].values /\ heap2[b].children = heap[b].children
        /\ heap2[b].next = heap[b].next /\ heap2[b].previous = heap[b].previous
        /\ heap2[b].parent = IF b = c THEN Null ELSE heap[b].parent
  <2> TAKE b \in DOMAIN heap2
  <2>1. heap[b] \in NodeFields /\ b \in DOMAIN heap
    BY <1>1, Fields
  <2>2. CASE b = c
    <3>1. heap2[b] = [heap[b] EXCEPT !.parent = Null] /\ Null \in Nat
      BY <1>1, <2>2 DEF Null
    <3> QED BY <2>1, <2>2, <3>1, ParentAssigned
  <2>3. CASE b # c
    BY <1>1, <2>1, <2>3
  <2> QED BY <2>2, <2>3
<1>3. IsFiniteSet(DOMAIN heap2) /\ DOMAIN heap2 \subseteq Nat \ {Null}
  BY <1>1, FS_Subset DEF Heap
<1>4. Heap(heap2)
  BY <1>1, <1>2, <1>3, HeapOf
<1> QED BY <1>1, <1>2, <1>4 DEF Promoted

\* FixUnderflow on a root without keys keeps the invariant and every posting list.
LEMMA ShrinkRootStep ==
  ASSUME IInv, ShrinkRoot
  PROVE  IInv' /\ SamePostings(node, node')
<1> DEFINE ks == node[root].keys
           c == node[root].children[1]
<1>1. /\ Called("FixUnderflow") /\ Callee = root /\ todo' = Rest /\ size' = size
      /\ ks # << >> => root' = root /\ node' = node
      /\ ks = << >> => /\ root' = IF node[root].leaf THEN Null ELSE c
                       /\ node' = [a \in DOMAIN node \ {root} |->
                                      IF a = root' THEN [node[a] EXCEPT !.parent = Null] ELSE node[a]]
  BY DEF ShrinkRoot
<1>2. Rest \in After /\ root \in DOMAIN node
  BY <1>1, WhenFixUnderflow
<1>3. PICK h, lo, hi : Resting(node, root, h, lo, hi, Null, root)
  BY <1>1, WhenFixUnderflow
<1>4. Heap(node) /\ Kinds(node, h) /\ ks \in Seq(Keys) /\ Len(ks) \in Nat /\ root # Null
  BY <1>2, <1>3, Parts, Fields
<1>5. CASE ks # << >>
  <2>1. Len(ks) >= 1
    BY <1>4, <1>5
  <2>2. Resting(node, root, h, lo, hi, Null, Null)
    BY <1>2, <1>3, <2>1, EnoughKeeps
  <2>3. node' = node /\ root' = root /\ SamePostings(node, node')
    BY <1>1, <1>5 DEF SamePostings
  <2>4. size' = Cardinality(KeysOf(node')) /\ IsFiniteSet(KeysOf(node'))
    BY <1>1, <2>3, SizeAgain
  <2>5. Resting(node', root', h, lo, hi, Null, Null) /\ todo' \in After
    BY <1>1, <1>2, <2>2, <2>3
  <2> QED BY <2>3, <2>4, <2>5, RestAgain
<1>6. CASE ks = << >> /\ node[root].leaf
  <2>1. \A b \in DOMAIN node : b = root
    BY <1>3, <1>6, OnlyRoot
  <2>2. root' = Null /\ node' = [a \in DOMAIN node \ {root} |->
                                    IF a = Null THEN [node[a] EXCEPT !.parent = Null] ELSE node[a]]
    BY <1>1, <1>6
  <2>3. DOMAIN node' = {} /\ node' \in [DOMAIN node' -> NodeFields]
    BY <2>1, <2>2
  <2>4. PICK h2, lo2, hi2 : Resting(node', Null, h2, lo2, hi2, Null, Null)
    BY <2>3, NoNodes
  <2>5. SamePostings(node, node')
    <3>1. \A k, l : ~Holds(node', k, l)
      BY <2>3 DEF Holds
    <3>2. Len(node[root].keys) = 0
      BY <1>6
    <3>3. \A k, l : ~Holds(node, k, l)
      BY <2>1, <3>2 DEF Holds
    <3> QED BY <3>1, <3>3 DEF SamePostings
  <2>6. size' = Cardinality(KeysOf(node')) /\ IsFiniteSet(KeysOf(node'))
    BY <1>1, <2>5, SizeAgain
  <2>7. Resting(node', root', h2, lo2, hi2, Null, Null) /\ todo' \in After
    BY <1>1, <1>2, <2>2, <2>4
  <2> QED BY <2>5, <2>6, <2>7, RestAgain
<1>7. CASE ks = << >> /\ ~node[root].leaf
  <2>1. root' = c /\ node' = [a \in DOMAIN node \ {root} |->
                                 IF a = c THEN [node[a] EXCEPT !.parent = Null] ELSE node[a]]
    BY <1>1, <1>7
  <2>2. Promoted(node, node', root, c)
    BY <1>2, <1>4, <2>1, RootDropped
  <2>3. Len(node[root].keys) = 0
    BY <1>7
  <2> DEFINE h2 == [a \in DOMAIN h \ {root} |-> h[a]]
             lo2 == [a \in DOMAIN lo \ {root} |-> lo[a]]
             hi2 == [a \in DOMAIN hi \ {root} |-> hi[a]]
  <2>4. Without(h, h2, root) /\ Without(lo, lo2, root) /\ Without(hi, hi2, root)
    BY DEF Without
  <2> HIDE DEF h2, lo2, hi2
  <2>5. Resting(node', c, h2, lo2, hi2, Null, Null)
    BY <1>2, <1>3, <1>7, <2>2, <2>3, <2>4, ShrinkKeeps
  <2>6. SamePostings(node, node')
    <3>1. DOMAIN node' = DOMAIN node \ {root}
      BY <2>2 DEF Promoted
    <3>2. \A b \in DOMAIN node : node[b].leaf => b \in DOMAIN node'
      BY <1>7, <3>1
    <3>3. \A b \in DOMAIN node' : /\ node'[b].leaf = node[b].leaf /\ node'[b].keys = node[b].keys
                                  /\ node'[b].values = node[b].values
      BY <2>2 DEF Promoted
    <3>4. \A b \in DOMAIN node : node[b].leaf => /\ b \in DOMAIN node' /\ node'[b].leaf
                                                 /\ node'[b].keys = node[b].keys
                                                 /\ node'[b].values = node[b].values
      BY <3>2, <3>3
    <3>5. \A b \in DOMAIN node' : node'[b].leaf => b \in DOMAIN node /\ node[b].leaf
      BY <3>1, <3>3
    <3> QED BY <3>4, <3>5, SameLeaves
  <2>7. size' = Cardinality(KeysOf(node')) /\ IsFiniteSet(KeysOf(node'))
    BY <1>1, <2>6, SizeAgain
  <2>8. Resting(node', root', h2, lo2, hi2, Null, Null) /\ todo' \in After
    BY <1>1, <1>2, <2>1, <2>5
  <2> QED BY <2>6, <2>7, <2>8, RestAgain
<1> QED BY <1>5, <1>6, <1>7

-----------------------------------------------------------------------------
(* Borrowing and merging: two leaves side by side. *)

\* The keys and posting lists of leaves that stand side by side, between low and high.
LeafRun(K, V, low, high) ==
    /\ K \in Seq(Keys) /\ V \in Seq(Seq(Records)) /\ Len(K) \in Nat /\ Len(V) = Len(K)
    /\ \A i \in 1..Len(K) : /\ K[i] \in Int /\ low <= K[i] /\ K[i] < high
                            /\ V[i] # << >>
    /\ \A i, j \in 1..Len(K) : i < j => K[i] < K[j]

\* l and r are neighbours, the i-th child of p and the next one.
Pair(heap, p, i, l, r) ==
    /\ p \in DOMAIN heap /\ ~heap[p].leaf /\ i \in 1..Len(heap[p].keys)
    /\ l = heap[p].children[i] /\ r = heap[p].children[i + 1]

\* What the leaves l and r hold is the run.
RunHeld(heap, l, r, K, V) ==
    \A k, x : HoldTogether(heap, l, r, k, x) <=> \E j \in 1..Len(K) : K[j] = k /\ V[j] = x

\* s is a, then b.
Joins(s, a, b) == s = a \o b

\* Two leaves side by side, joined.
LEMMA LeavesJoin ==
  ASSUME NEW heap, NEW top, NEW h, NEW lo, NEW hi, NEW over, NEW short,
         Resting(heap, top, h, lo, hi, over, short),
         NEW p, NEW i, NEW l, NEW r, Pair(heap, p, i, l, r), heap[l].leaf,
         NEW K, NEW V, Joins(K, heap[l].keys, heap[r].keys), Joins(V, heap[l].values, heap[r].values)
  PROVE  /\ LeafRun(K, V, lo[l], hi[r]) /\ Len(K) = Len(heap[l].keys) + Len(heap[r].keys)
         /\ RunHeld(heap, l, r, K, V)
<1> DEFINE kl == heap[l].keys
           kr == heap[r].keys
           vl == heap[l].values
           vr == heap[r].values
           n == Len(kl)
           m == Len(kr)
<1>1. Heap(heap) /\ Kinds(heap, h) /\ Ordered(heap, lo, hi)
  BY Parts
<1>2. l \in DOMAIN heap /\ r \in DOMAIN heap /\ l # r /\ heap[r].leaf /\ hi[l] = lo[r]
  BY Neighbours DEF Pair
<1>3. /\ lo[l] \in Int /\ hi[l] \in Int /\ lo[r] \in Int /\ hi[r] \in Int
      /\ lo[l] < hi[l] /\ lo[r] < hi[r]
  BY <1>2, Parts
<1>4. /\ kl \in Seq(Keys) /\ kr \in Seq(Keys) /\ vl \in Seq(Seq(Records)) /\ vr \in Seq(Seq(Records))
      /\ n \in Nat /\ m \in Nat
      /\ \A j \in 1..n : kl[j] \in Int
      /\ \A j \in 1..m : kr[j] \in Int
  BY <1>1, <1>2, Fields
<1>40. n \in Nat /\ m \in Nat
  BY <1>4
<1>5. /\ Len(vl) = n /\ Len(vr) = m
      /\ \A j \in 1..n : vl[j] # << >>
      /\ \A j \in 1..m : vr[j] # << >>
  <2>1. KindOf(heap, h, l) /\ KindOf(heap, h, r)
    BY <1>1, <1>2 DEF Kinds
  <2> QED BY <1>2, <2>1 DEF KindOf
<1>6. /\ \A j \in 1..n : lo[l] <= kl[j] /\ kl[j] < hi[l]
      /\ \A j, k \in 1..n : j < k => kl[j] < kl[k]
      /\ \A j \in 1..m : lo[r] <= kr[j] /\ kr[j] < hi[r]
      /\ \A j, k \in 1..m : j < k => kr[j] < kr[k]
  <2>1. InOrder(heap, lo, hi, l) /\ InOrder(heap, lo, hi, r)
    BY <1>1, <1>2 DEF Ordered
  <2> QED BY <2>1 DEF InOrder
<1>7. /\ K \in Seq(Keys) /\ Len(K) = n + m
      /\ \A j \in 1..n + m : K[j] = IF j <= n THEN kl[j] ELSE kr[j - n]
  <2>1. K = kl \o kr
    BY DEF Joins
  <2> HIDE DEF kl, kr
  <2> QED BY <1>4, <2>1, JoinElements
<1>8. /\ V \in Seq(Seq(Records)) /\ Len(V) = n + m
      /\ \A j \in 1..n + m : V[j] = IF j <= n THEN vl[j] ELSE vr[j - n]
  <2>1. V = vl \o vr
    BY DEF Joins
  <2> HIDE DEF vl, vr, n, m
  <2>2. /\ vl \o vr \in Seq(Seq(Records)) /\ Len(vl \o vr) = Len(vl) + Len(vr)
        /\ \A j \in 1..Len(vl) + Len(vr) : (vl \o vr)[j] = IF j <= Len(vl) THEN vl[j] ELSE vr[j - Len(vl)]
    BY <1>4, JoinElements
  <2> QED BY <1>5, <2>1, <2>2
<1> HIDE DEF kl, kr, vl, vr, n, m
<1>9. \A j \in 1..n + m : /\ j <= n => j \in 1..n
                          /\ ~(j <= n) => j - n \in 1..m
  BY <1>40
<1>90. \A j \in 1..n + m : ~(j <= n) => K[j] = kr[j - n] /\ V[j] = vr[j - n]
  BY <1>7, <1>8
<1>10. \A j \in 1..n + m : K[j] \in Int /\ lo[l] <= K[j] /\ K[j] < hi[r] /\ V[j] # << >>
  <2> TAKE j \in 1..n + m
  <2>1. CASE j <= n
    <3>1. K[j] = kl[j] /\ V[j] = vl[j] /\ j \in 1..n
      BY <1>7, <1>8, <1>9, <2>1
    <3>2. kl[j] \in Int /\ lo[l] <= kl[j] /\ kl[j] < hi[l] /\ vl[j] # << >>
      BY <1>4, <1>5, <1>6, <3>1
    <3> QED BY <1>2, <1>3, <3>1, <3>2
  <2>2. CASE ~(j <= n)
    <3>1. K[j] = kr[j - n] /\ V[j] = vr[j - n] /\ j - n \in 1..m
      BY <1>7, <1>8, <1>9, <2>2
    <3>2. kr[j - n] \in Int /\ lo[r] <= kr[j - n] /\ kr[j - n] < hi[r] /\ vr[j - n] # << >>
      BY <1>4, <1>5, <1>6, <3>1
    <3> QED BY <1>2, <1>3, <3>1, <3>2
  <2> QED BY <2>1, <2>2
<1>11. \A j, k \in 1..n + m : j < k => K[j] < K[k]
  <2> TAKE j, k \in 1..n + m
  <2> HAVE j < k
  <2>1. CASE k <= n
    <3>1. j <= n
      BY <1>40, <2>1
    <3> QED BY <1>6, <1>7, <1>9, <2>1, <3>1
  <2>2. CASE ~(k <= n) /\ j <= n
    <3>1. kl[j] < hi[l] /\ lo[r] <= kr[k - n] /\ kl[j] \in Int /\ kr[k - n] \in Int
      BY <1>4, <1>6, <1>9, <2>2
    <3> QED BY <1>2, <1>3, <1>7, <2>2, <3>1
  <2>3. CASE ~(j <= n)
    <3>1. ~(k <= n) /\ j - n < k - n
      BY <1>40, <2>3
    <3> QED BY <1>6, <1>7, <1>9, <2>3, <3>1
  <2> QED BY <2>1, <2>2, <2>3
<1>12. LeafRun(K, V, lo[l], hi[r])
  BY <1>4, <1>7, <1>8, <1>10, <1>11 DEF LeafRun
<1>13. ASSUME NEW k, NEW x
       PROVE  HoldTogether(heap, l, r, k, x) <=> \E j \in 1..Len(K) : K[j] = k /\ V[j] = x
  <2>1. HoldTogether(heap, l, r, k, x) <=> \/ \E j \in 1..n : kl[j] = k /\ vl[j] = x
                                           \/ \E j \in 1..m : kr[j] = k /\ vr[j] = x
    BY <1>2 DEF HoldTogether, HoldsAt, kl, kr, vl, vr, n, m
  <2>2. ASSUME NEW j \in 1..n, kl[j] = k /\ vl[j] = x PROVE \E z \in 1..n + m : K[z] = k /\ V[z] = x
    <3>1. j \in 1..n + m /\ j <= n
      BY <1>40
    <3> QED BY <1>7, <1>8, <2>2, <3>1
  <2>3. ASSUME NEW j \in 1..m, kr[j] = k /\ vr[j] = x PROVE \E z \in 1..n + m : K[z] = k /\ V[z] = x
    <3> DEFINE z == n + j
    <3>2. z \in 1..n + m /\ ~(z <= n) /\ z - n = j
      BY <1>40
    <3> HIDE DEF z
    <3>3. K[z] = kr[j] /\ V[z] = vr[j]
      BY <1>90, <3>2
    <3> QED BY <2>3, <3>2, <3>3
  <2>4. ASSUME NEW z \in 1..n + m, K[z] = k /\ V[z] = x
        PROVE  \/ \E j \in 1..n : kl[j] = k /\ vl[j] = x
               \/ \E j \in 1..m : kr[j] = k /\ vr[j] = x
    BY <1>7, <1>8, <1>9, <2>4
  <2> QED BY <1>7, <2>1, <2>2, <2>3, <2>4
<1> QED BY <1>7, <1>12, <1>13 DEF n, m, kl, kr, RunHeld

\* a and b are s, cut after its first m elements.
CutAt(s, m, a, b) ==
    /\ Len(a) = m /\ Len(b) = Len(s) - m
    /\ \A i \in 1..m : a[i] = s[i]
    /\ \A i \in 1..Len(s) - m : b[i] = s[m + i]

\* What borrowing between leaves does to the nodes besides the contents of the two.
LeafMoved(heap, heap2, p, i, l, r, sep) ==
    /\ Heap(heap2) /\ DOMAIN heap2 = DOMAIN heap
    /\ \A b \in DOMAIN heap : b \notin {p, l, r} => heap2[b] = heap[b]
    /\ \A b \in DOMAIN heap : /\ heap2[b].leaf = heap[b].leaf /\ heap2[b].children = heap[b].children
                              /\ heap2[b].parent = heap[b].parent /\ heap2[b].next = heap[b].next
                              /\ heap2[b].previous = heap[b].previous
    /\ heap2[p].values = heap[p].values
    /\ Len(heap2[p].keys) = Len(heap[p].keys)
    /\ \A j \in 1..Len(heap[p].keys) : heap2[p].keys[j] = IF j = i THEN sep ELSE heap[p].keys[j]

\* A leaf that has been given the n keys of a run after the first d.
PartOf(heap, a, K, V, d, n) ==
    /\ heap[a].leaf /\ heap[a].children = << >>
    /\ Len(heap[a].keys) = n /\ Len(heap[a].values) = n
    /\ \A i \in 1..n : heap[a].keys[i] = K[d + i] /\ heap[a].values[i] = V[d + i]

\* Its interval, from x to y, when the run ends before high.
Around(K, d, n, high, x, y) ==
    /\ x \in Int /\ y \in Int /\ x < y /\ x <= K[d + 1]
    /\ d + n = Len(K) => high <= y
    /\ d + n < Len(K) => K[d + n + 1] <= y

\* A leaf that has n elements of a run of keys, from d on, is in order.
LEMMA LeafOfRun ==
  ASSUME NEW K, NEW V, NEW low, NEW high, LeafRun(K, V, low, high), low \in Int, high \in Int,
         NEW d \in Nat, NEW n \in Nat, d + n <= Len(K), n >= MinLeafKeys, n <= MaxKeys,
         NEW heap, NEW top, NEW a, a # top, a # Null, PartOf(heap, a, K, V, d, n),
         NEW h, NEW lo, NEW hi, h[a] = 0, Around(K, d, n, high, lo[a], hi[a])
  PROVE  Settled(heap, top, h, lo, hi, a)
<1>0. Len(K) \in Nat
  BY DEF LeafRun
<1>1. \A i \in 1..n : d + i \in 1..Len(K) /\ d + 1 \in 1..Len(K)
  BY <1>0
<1>2. \A i \in 1..Len(K) : K[i] \in Int /\ K[i] < high /\ V[i] # << >>
  BY DEF LeafRun
<1>3. \A i, j \in 1..Len(K) : i < j => K[i] < K[j]
  BY DEF LeafRun
<1>4. KindOf(heap, h, a)
  BY <1>1, <1>2 DEF KindOf, PartOf
<1>5. \A i, j \in 1..n : i < j => K[d + i] < K[d + j]
  <2> TAKE i, j \in 1..n
  <2> HAVE i < j
  <2>1. d + i \in 1..Len(K) /\ d + j \in 1..Len(K) /\ d + i < d + j
    BY <1>1
  <2> QED BY <1>3, <2>1
<1>6. \A i \in 1..n : lo[a] <= K[d + i]
  <2> TAKE i \in 1..n
  <2>1. d + i \in 1..Len(K) /\ d + 1 \in 1..Len(K) /\ (d + i = d + 1 \/ d + 1 < d + i)
    BY <1>1
  <2>2. CASE d + i = d + 1
    <3>1. K[d + i] = K[d + 1]
      BY <2>2
    <3> QED BY <3>1 DEF Around
  <2>3. CASE d + 1 < d + i
    <3>1. K[d + 1] < K[d + i] /\ K[d + 1] \in Int /\ K[d + i] \in Int
      BY <1>2, <1>3, <2>1, <2>3
    <3> QED BY <3>1 DEF Around
  <2> QED BY <2>1, <2>2, <2>3
<1>7. \A i \in 1..n : K[d + i] < hi[a]
  <2> TAKE i \in 1..n
  <2>1. d + i \in 1..Len(K) /\ d + i < d + n + 1
    BY <1>1
  <2>2. CASE d + n = Len(K)
    <3>1. high <= hi[a] /\ K[d + i] < high /\ K[d + i] \in Int
      BY <1>2, <2>1, <2>2 DEF Around
    <3> QED BY <3>1 DEF Around
  <2>3. CASE d + n # Len(K)
    <3>1. d + n < Len(K) /\ d + n + 1 \in 1..Len(K)
      BY <1>0, <2>3
    <3>2. K[d + n + 1] <= hi[a] /\ hi[a] \in Int
      BY <3>1 DEF Around
    <3>3. K[d + i] < K[d + n + 1]
      BY <1>3, <2>1, <3>1
    <3>4. K[d + n + 1] \in Int /\ K[d + i] \in Int
      BY <1>2, <2>1, <3>1
    <3> QED BY <3>2, <3>3, <3>4
  <2> QED BY <2>2, <2>3
<1>8. InOrder(heap, lo, hi, a)
  <2>1. \A i \in 1..n : heap[a].keys[i] = K[d + i]
    BY DEF PartOf
  <2>2. heap[a].leaf /\ Len(heap[a].keys) = n /\ lo[a] < hi[a]
    BY DEF PartOf, Around
  <2> QED BY <1>5, <1>6, <1>7, <2>1, <2>2 DEF InOrder
<1>9. FilledAt(heap, top, Null, Null, a)
  BY Bounds0 DEF FilledAt, PartOf
<1>10. heap[a].leaf
  BY DEF PartOf
<1> QED BY <1>10, <1>4, <1>8, <1>9 DEF Settled

\* Keys may move between two leaves as long as neither has too few or too many.
LEMMA LeafMovedKeeps ==
  ASSUME NEW heap, NEW heap2, NEW top, NEW h, NEW lo, NEW hi, NEW short,
         Resting(heap, top, h, lo, hi, Null, short),
         NEW p, NEW i, NEW l, NEW r, Pair(heap, p, i, l, r), short \in {l, r}, heap[l].leaf,
         NEW K, NEW V, Joins(K, heap[l].keys, heap[r].keys), Joins(V, heap[l].values, heap[r].values),
         NEW m \in Nat, m >= MinLeafKeys, m <= MaxKeys, Len(K) - m >= MinLeafKeys, Len(K) - m <= MaxKeys,
         LeafMoved(heap, heap2, p, i, l, r, K[m + 1]),
         CutAt(K, m, heap2[l].keys, heap2[r].keys), CutAt(V, m, heap2[l].values, heap2[r].values)
  PROVE  /\ \E lo2, hi2 : Resting(heap2, top, h, lo2, hi2, Null, Null)
         /\ SamePostings(heap, heap2)
<1> DEFINE sep == K[m + 1]
           lo2 == [lo EXCEPT ![r] = sep]
           hi2 == [hi EXCEPT ![l] = sep]
<1>1. /\ l \in DOMAIN heap /\ r \in DOMAIN heap /\ l # r /\ p # l /\ p # r /\ l # top /\ r # top
      /\ h[l] = h[r] /\ heap[r].leaf
  BY Neighbours DEF Pair
<1>2. /\ LeafRun(K, V, lo[l], hi[r])
      /\ RunHeld(heap, l, r, K, V)
  BY LeavesJoin
<1>3. /\ Kinds(heap, h) /\ Ordered(heap, lo, hi)
      /\ lo[l] \in Int /\ hi[r] \in Int /\ l # Null /\ r # Null /\ lo[l] < hi[l] /\ lo[r] < hi[r]
  BY <1>1, Parts
<1>4. h[l] = 0 /\ h[r] = 0 /\ heap[l].children = << >> /\ heap[r].children = << >>
  <2>1. KindOf(heap, h, l)
    BY <1>1, <1>3 DEF Kinds
  <2>2. KindOf(heap, h, r)
    BY <1>1, <1>3 DEF Kinds
  <2> QED BY <1>1, <2>1, <2>2 DEF KindOf
<1>50. Len(K) \in Nat /\ Len(V) = Len(K)
  BY <1>2 DEF LeafRun
<1>5. /\ m \in 1..Len(K) /\ m + 1 \in 1..Len(K) /\ 1 \in 1..Len(K) /\ 1 < m + 1 /\ m < Len(K)
      /\ Len(K) - m \in Nat /\ m + (Len(K) - m) = Len(K)
  BY <1>50, Bounds0
<1>6. sep \in Int /\ lo[l] < sep /\ sep < hi[r]
  <2>1. /\ K[1] \in Int /\ lo[l] <= K[1] /\ K[1] < K[m + 1] /\ K[m + 1] \in Int /\ K[m + 1] < hi[r]
    BY <1>2, <1>5 DEF LeafRun
  <2> QED BY <1>3, <2>1
<1>7. Replaced(lo, lo2, r, sep) /\ Replaced(hi, hi2, l, sep)
  BY DEF Replaced
<1>8. lo2[l] = lo[l] /\ lo2[r] = sep /\ hi2[l] = sep /\ hi2[r] = hi[r]
  BY <1>1, <1>3 DEF Ordered
<1> HIDE DEF lo2, hi2, sep
<1>9. \A b \in DOMAIN heap : heap[b].parent # l /\ heap[b].parent # r
  BY <1>1, NextIsOther
<1>10. Shifted(heap, heap2, p, i, l, r, sep)
  <2>1. LeafMoved(heap, heap2, p, i, l, r, sep)
    BY DEF sep
  <2>2. p \in DOMAIN heap /\ i \in 1..Len(heap[p].keys)
    BY DEF Pair
  <2>3. \A b \in DOMAIN heap : heap2[b].parent = heap[b].parent
    BY <2>1 DEF LeafMoved
  <2>4. \A b \in DOMAIN heap : IF heap[b].parent \in {l, r} THEN IsChild(heap2, heap2[b].parent, b)
                              ELSE heap2[b].parent = heap[b].parent
    BY <1>9, <2>3
  <2>5. /\ heap2[p].children = heap[p].children /\ heap2[p].values = heap[p].values
        /\ Len(heap2[p].keys) = Len(heap[p].keys)
        /\ \A j \in 1..Len(heap[p].keys) : heap2[p].keys[j] = IF j = i THEN sep ELSE heap[p].keys[j]
    BY <2>1, <2>2 DEF LeafMoved
  <2>6. \A b \in DOMAIN heap : b \notin {p, l, r} =>
           /\ heap2[b].keys = heap[b].keys /\ heap2[b].values = heap[b].values
           /\ heap2[b].children = heap[b].children
    BY <2>1 DEF LeafMoved
  <2>7. /\ Heap(heap2) /\ DOMAIN heap2 = DOMAIN heap
        /\ \A b \in DOMAIN heap : /\ heap2[b].leaf = heap[b].leaf /\ heap2[b].next = heap[b].next
                                  /\ heap2[b].previous = heap[b].previous
    BY <2>1 DEF LeafMoved
  <2> QED BY <2>4, <2>5, <2>6, <2>7 DEF Shifted
<1>11. /\ heap2[l].leaf /\ heap2[l].children = << >> /\ heap2[r].leaf /\ heap2[r].children = << >>
  BY <1>1, <1>4 DEF LeafMoved
<1>120. PartOf(heap2, l, K, V, 0, m)
  <2>1. Len(heap2[l].keys) = m /\ Len(heap2[l].values) = m
    BY DEF CutAt
  <2>2. \A j \in 1..m : heap2[l].keys[j] = K[0 + j] /\ heap2[l].values[j] = V[0 + j]
    BY DEF CutAt
  <2> QED BY <1>11, <2>1, <2>2 DEF PartOf
<1>12. Settled(heap2, top, h, lo2, hi2, l)
  <2>3. lo2[l] <= K[0 + 1]
    BY <1>2, <1>5, <1>8 DEF LeafRun
  <2>4. K[0 + m + 1] <= hi2[l] /\ 0 + m < Len(K)
    <3>1. K[m + 1] <= sep
      BY <1>6 DEF sep
    <3> QED BY <1>5, <1>8, <3>1
  <2>5. lo2[l] \in Int /\ hi2[l] \in Int /\ lo2[l] < hi2[l]
    BY <1>3, <1>6, <1>8
  <2>6. Around(K, 0, m, hi[r], lo2[l], hi2[l])
    <3>1. 0 + m # Len(K) /\ 0 + m < Len(K)
      BY <1>5, <1>50
    <3> QED BY <2>3, <2>4, <2>5, <3>1 DEF Around
  <2>7. 0 \in Nat /\ 0 + m <= Len(K)
    BY <1>5, <1>50
  <2> QED BY <1>1, <1>2, <1>3, <1>4, <1>120, <2>6, <2>7, LeafOfRun
<1> DEFINE n == Len(K) - m
<1>130. PartOf(heap2, r, K, V, m, n)
  <2>1. Len(heap2[r].keys) = n /\ Len(heap2[r].values) = n
    BY <1>5, <1>50 DEF CutAt
  <2>2. \A j \in 1..n : heap2[r].keys[j] = K[m + j] /\ heap2[r].values[j] = V[m + j]
    BY <1>50 DEF CutAt
  <2> QED BY <1>11, <2>1, <2>2 DEF PartOf
<1>13. Settled(heap2, top, h, lo2, hi2, r)
  <2>3. lo2[r] <= K[m + 1]
    BY <1>6, <1>8 DEF sep
  <2>4. hi[r] <= hi2[r] /\ n >= MinLeafKeys /\ n <= MaxKeys /\ ~(m + n < Len(K)) /\ m + n <= Len(K) /\ n \in Nat
    BY <1>3, <1>5, <1>8, <1>50
  <2>5. lo2[r] \in Int /\ hi2[r] \in Int /\ lo2[r] < hi2[r]
    BY <1>3, <1>6, <1>8
  <2> HIDE DEF n
  <2>6. Around(K, m, n, hi[r], lo2[r], hi2[r])
    BY <2>3, <2>4, <2>5 DEF Around
  <2> QED BY <1>1, <1>2, <1>3, <1>4, <1>130, <2>4, <2>6, LeafOfRun
<1> HIDE DEF n
<1>14. Resting(heap2, top, h, lo2, hi2, Null, Null)
  BY <1>6, <1>7, <1>10, <1>12, <1>13, ShiftKeeps DEF Pair
<1>15. SamePostings(heap, heap2)
  <2>1. OthersSame(heap, heap2, l, r)
    <3> SUFFICES ASSUME NEW b, b \notin {l, r}
                 PROVE  /\ b \in DOMAIN heap2 <=> b \in DOMAIN heap
                        /\ b \in DOMAIN heap => /\ heap2[b].leaf = heap[b].leaf
                                                /\ heap[b].leaf => /\ heap2[b].keys = heap[b].keys
                                                                   /\ heap2[b].values = heap[b].values
      BY DEF OthersSame
    <3>1. heap[b].leaf => b # p
      BY DEF Pair
    <3> QED BY <3>1 DEF LeafMoved
  <2>2. BothLeaves(heap, l, r) /\ BothLeaves(heap2, l, r)
    BY <1>1, <1>11 DEF BothLeaves
  <2>3. SameTogether(heap, heap2, l, r)
    <3> SUFFICES ASSUME NEW k, NEW x
                 PROVE  HoldTogether(heap2, l, r, k, x) <=> HoldTogether(heap, l, r, k, x)
      BY DEF SameTogether
    <3>1. HoldsAt(heap2, l, k, x) <=> \E j \in 1..m : K[j] = k /\ V[j] = x
      BY DEF HoldsAt, CutAt
    <3>2. HoldsAt(heap2, r, k, x) <=> \E j \in 1..n : K[m + j] = k /\ V[m + j] = x
      <4> DEFINE rk == heap2[r].keys
                 rv == heap2[r].values
      <4>1. Len(rk) = n /\ \A j \in 1..n : rk[j] = K[m + j] /\ rv[j] = V[m + j]
        BY <1>130 DEF PartOf
      <4>2. HoldsAt(heap2, r, k, x) <=> \E j \in 1..Len(rk) : rk[j] = k /\ rv[j] = x
        BY DEF HoldsAt
      <4> HIDE DEF rk, rv
      <4> QED BY <4>1, <4>2
    <3>3. HoldTogether(heap2, l, r, k, x) <=> HoldsAt(heap2, l, k, x) \/ HoldsAt(heap2, r, k, x)
      BY <1>1 DEF HoldTogether, LeafMoved
    <3>4. (\E j \in 1..Len(K) : K[j] = k /\ V[j] = x)
            <=> (\E j \in 1..m : K[j] = k /\ V[j] = x) \/ (\E j \in 1..n : K[m + j] = k /\ V[m + j] = x)
      <4>1. \A j \in 1..m : j \in 1..Len(K)
        BY <1>5, <1>50
      <4>2. \A j \in 1..n : m + j \in 1..Len(K)
        BY <1>5, <1>50 DEF n
      <4>3. ASSUME NEW j \in 1..Len(K), K[j] = k /\ V[j] = x
            PROVE  (\E z \in 1..m : K[z] = k /\ V[z] = x) \/ (\E z \in 1..n : K[m + z] = k /\ V[m + z] = x)
        <5>1. CASE j <= m
          <6>1. j \in 1..m
            BY <1>50, <5>1
          <6> QED BY <4>3, <6>1
        <5>2. CASE ~(j <= m)
          <6>1. j - m \in 1..n /\ m + (j - m) = j
            BY <1>5, <1>50, <5>2 DEF n
          <6> QED BY <4>3, <6>1
        <5> QED BY <5>1, <5>2
      <4> QED BY <4>1, <4>2, <4>3
    <3> QED BY <1>2, <3>1, <3>2, <3>3, <3>4 DEF RunHeld
  <2> QED BY <2>1, <2>2, <2>3, SamePair
<1> QED BY <1>14, <1>15

-----------------------------------------------------------------------------
(* Borrowing: the calls and the fields of the leaves. *)

\* c, the i-th child of p, is the node that underflows.
Short(h, lo, hi, p, i, c) ==
    /\ Resting(node, root, h, lo, hi, Null, c) /\ Heap(node) /\ c \in DOMAIN node /\ c # root
    /\ Kinds(node, h) /\ Ordered(node, lo, hi) /\ Down(node, h, lo, hi, Null, Null)
    /\ p \in DOMAIN node /\ ~node[p].leaf /\ p # Null
    /\ i \in 1..Len(node[p].keys) + 1 /\ i \in Nat /\ node[p].children[i] = c
    /\ Len(node[p].keys) \in Nat /\ Len(node[p].children) = Len(node[p].keys) + 1
    /\ Len(node[c].keys) = MinimumOf(node[c].leaf) - 1
    /\ p = Parent /\ c = Callee /\ Index = i - 1
    /\ LeftSibling = IF i > 1 THEN node[p].children[i - 1] ELSE Null
    /\ RightSibling = IF i < Len(node[p].keys) + 1 THEN node[p].children[i + 1] ELSE Null
    /\ \A s : CanSpare(s) <=> s # Null /\ Len(node[s].keys) > MinimumOf(node[c].leaf)

\* FixUnderflow acts on a node, not the root, that is a key short, and finds its place among
\* its parent's children.
LEMMA WhenUnderflow ==
  ASSUME IInv, Underflow
  PROVE  /\ Rest \in After
         /\ \E h, lo, hi, p, i, c : Short(h, lo, hi, p, i, c)
<1> DEFINE c == Callee
           p == Parent
<1>1. Called("FixUnderflow") /\ c # root /\ Len(node[c].keys) < Minimum(c)
  BY DEF Underflow
<1>2. Rest \in After /\ c \in DOMAIN node
  BY <1>1, WhenFixUnderflow
<1>3. PICK h, lo, hi : Resting(node, root, h, lo, hi, Null, c)
  BY <1>1, WhenFixUnderflow
<1>4. /\ Heap(node) /\ Kinds(node, h) /\ Ordered(node, lo, hi) /\ Down(node, h, lo, hi, Null, Null)
      /\ Up(node, root, Null) /\ Filled(node, root, Null, c) /\ c # Null
  BY <1>2, <1>3, Parts
<1>5. Minimum(c) = MinimumOf(node[c].leaf)
  BY DEF Minimum, MinimumOf
<1>6. Len(node[c].keys) = MinimumOf(node[c].leaf) - 1
  <2>1. FilledAt(node, root, Null, c, c)
    BY <1>2, <1>4 DEF Filled
  <2>2. Len(node[c].keys) >= MinimumOf(node[c].leaf) - 1
    BY <1>1, <2>1 DEF FilledAt
  <2>3. Len(node[c].keys) \in Nat /\ node[c].leaf \in BOOLEAN
    BY <1>2, <1>4, Fields
  <2>4. MinimumOf(node[c].leaf) \in Nat
    BY <2>3, Bounds0 DEF MinimumOf
  <2> QED BY <1>1, <1>5, <2>2, <2>3, <2>4
<1>7. IsChild(node, p, c)
  BY <1>1, <1>2, <1>4 DEF Up, Parent
<1>8. p \in DOMAIN node /\ ~node[p].leaf /\ p # Null
  BY <1>4, <1>7 DEF IsChild, Heap
<1>9. PICK i \in 1..Len(node[p].children) : node[p].children[i] = c
  BY <1>7 DEF IsChild
<1>10. Len(node[p].children) = Len(node[p].keys) + 1 /\ Len(node[p].keys) \in Nat
  BY <1>4, <1>8, ChildrenApart
<1>11. i \in 1..Len(node[p].keys) + 1 /\ i \in Nat
  BY <1>9, <1>10
<1>12. Index = i - 1
  <2>1. ChildIndex(p, node[p].children[i]) = i - 1
    BY <1>4, <1>8, <1>11, ChildIndexFinds
  <2> QED BY <1>9, <2>1 DEF Index
<1>13. LeftSibling = IF i > 1 THEN node[p].children[i - 1] ELSE Null
  BY <1>11, <1>12 DEF LeftSibling
<1>14. RightSibling = IF i < Len(node[p].keys) + 1 THEN node[p].children[i + 1] ELSE Null
  <2>1. Index + 1 = i /\ Index + 2 = i + 1
    BY <1>11, <1>12
  <2> QED BY <1>10, <2>1 DEF RightSibling
<1>15. \A s : CanSpare(s) <=> s # Null /\ Len(node[s].keys) > MinimumOf(node[c].leaf)
  BY <1>5 DEF CanSpare
<1>16. Short(h, lo, hi, p, i, c)
  BY <1>1, <1>2, <1>3, <1>4, <1>6, <1>8, <1>9, <1>10, <1>11, <1>12, <1>13, <1>14, <1>15 DEF Short
<1> QED BY <1>2, <1>16

\* Assigning the keys of a node.
LEMMA KeysAssigned ==
  ASSUME NEW n \in NodeFields, NEW k \in Seq(Keys), NEW n2, n2 = [n EXCEPT !.keys = k]
  PROVE  /\ n2 \in NodeFields /\ n2.keys = k /\ n2.values = n.values /\ n2.leaf = n.leaf
         /\ n2.children = n.children /\ n2.parent = n.parent /\ n2.next = n.next
         /\ n2.previous = n.previous
BY DEF NodeFields

\* Assigning the keys and the values of two nodes and one key of a third.
LeavesPut(heap, heap2, x, y, p, i, kx, vx, ky, vy, sep) ==
    heap2 = [heap EXCEPT ![x].keys = kx, ![x].values = vx, ![y].keys = ky, ![y].values = vy,
                         ![p].keys[i] = sep]

\* The keys and the posting lists of a leaf.
Lists(ks, vs) == ks \in Seq(Keys) /\ vs \in Seq(Seq(Records))

\* Three nodes of a heap, and a key of the third.
Three(heap, x, y, p, i) ==
    /\ Heap(heap) /\ x \in DOMAIN heap /\ y \in DOMAIN heap /\ p \in DOMAIN heap
    /\ x # y /\ x # p /\ y # p /\ i \in 1..Len(heap[p].keys)

\* The fields of two leaves, and of the separator between them, after a borrowing.
LEMMA LeavesAssigned ==
  ASSUME NEW heap, NEW x, NEW y, NEW p, NEW i, Three(heap, x, y, p, i), NEW sep \in Keys,
         NEW kx, NEW vx, NEW ky, NEW vy, Lists(kx, vx), Lists(ky, vy),
         NEW heap2, LeavesPut(heap, heap2, x, y, p, i, kx, vx, ky, vy, sep)
  PROVE  /\ LeafMoved(heap, heap2, p, i, x, y, sep) /\ LeafMoved(heap, heap2, p, i, y, x, sep)
         /\ heap2[x].keys = kx /\ heap2[x].values = vx /\ heap2[y].keys = ky /\ heap2[y].values = vy
<1> DEFINE ks == [heap[p].keys EXCEPT ![i] = sep]
           nx == [heap[x] EXCEPT !.keys = kx, !.values = vx]
           ny == [heap[y] EXCEPT !.keys = ky, !.values = vy]
           np == [heap[p] EXCEPT !.keys = ks]
<1>0. /\ Heap(heap) /\ x \in DOMAIN heap /\ y \in DOMAIN heap /\ p \in DOMAIN heap
      /\ x # y /\ x # p /\ y # p /\ i \in 1..Len(heap[p].keys)
      /\ kx \in Seq(Keys) /\ vx \in Seq(Seq(Records)) /\ ky \in Seq(Keys) /\ vy \in Seq(Seq(Records))
  BY DEF Three, Lists
<1>1. heap[x] \in NodeFields /\ heap[y] \in NodeFields /\ heap[p] \in NodeFields /\ heap[p].keys \in Seq(Keys)
  BY <1>0, Fields
<1>2. /\ ks \in Seq(Keys) /\ Len(ks) = Len(heap[p].keys)
      /\ \A j \in 1..Len(heap[p].keys) : ks[j] = IF j = i THEN sep ELSE heap[p].keys[j]
  <2> DEFINE s == heap[p].keys
  <2>1. s \in Seq(Keys) /\ i \in 1..Len(s)
    BY <1>0, <1>1
  <2> HIDE DEF s
  <2>2. /\ [s EXCEPT ![i] = sep] \in Seq(Keys) /\ Len([s EXCEPT ![i] = sep]) = Len(s)
        /\ \A j \in 1..Len(s) : [s EXCEPT ![i] = sep][j] = IF j = i THEN sep ELSE s[j]
    BY <2>1, ReplaceElements
  <2> QED BY <2>2 DEF s
<1>3. heap2 = [heap EXCEPT ![x] = nx, ![y] = ny, ![p] = np]
  <2>1. heap2 = [heap EXCEPT ![x].keys = kx, ![x].values = vx, ![y].keys = ky, ![y].values = vy,
                             ![p].keys[i] = sep]
    BY DEF LeavesPut
  <2> QED BY <1>0, <2>1
<1> HIDE DEF ks
<1>5. /\ nx = [heap[x] EXCEPT !.keys = kx, !.values = vx]
      /\ ny = [heap[y] EXCEPT !.keys = ky, !.values = vy]
      /\ np = [heap[p] EXCEPT !.keys = ks]
  OBVIOUS
<1> HIDE DEF nx, ny, np
<1>6. /\ nx \in NodeFields /\ nx.keys = kx /\ nx.values = vx /\ nx.leaf = heap[x].leaf
      /\ nx.children = heap[x].children /\ nx.parent = heap[x].parent /\ nx.next = heap[x].next
      /\ nx.previous = heap[x].previous
  <2> DEFINE n == heap[x]
  <2>1. n \in NodeFields
    BY <1>1
  <2> HIDE DEF n
  <2>2. LET n2 == [n EXCEPT !.keys = kx, !.values = vx]
        IN  /\ n2 \in NodeFields /\ n2.keys = kx /\ n2.values = vx /\ n2.leaf = n.leaf
            /\ n2.children = n.children /\ n2.parent = n.parent /\ n2.next = n.next
            /\ n2.previous = n.previous
    BY <1>0, <2>1 DEF NodeFields
  <2> QED BY <1>5, <2>2 DEF n
<1>7. /\ ny \in NodeFields /\ ny.keys = ky /\ ny.values = vy /\ ny.leaf = heap[y].leaf
      /\ ny.children = heap[y].children /\ ny.parent = heap[y].parent /\ ny.next = heap[y].next
      /\ ny.previous = heap[y].previous
  <2> DEFINE n == heap[y]
  <2>1. n \in NodeFields
    BY <1>1
  <2> HIDE DEF n
  <2>2. LET n2 == [n EXCEPT !.keys = ky, !.values = vy]
        IN  /\ n2 \in NodeFields /\ n2.keys = ky /\ n2.values = vy /\ n2.leaf = n.leaf
            /\ n2.children = n.children /\ n2.parent = n.parent /\ n2.next = n.next
            /\ n2.previous = n.previous
    BY <1>0, <2>1 DEF NodeFields
  <2> QED BY <1>5, <2>2 DEF n
<1>8. /\ np \in NodeFields /\ np.keys = ks /\ np.values = heap[p].values /\ np.leaf = heap[p].leaf
      /\ np.children = heap[p].children /\ np.parent = heap[p].parent /\ np.next = heap[p].next
      /\ np.previous = heap[p].previous
  BY <1>1, <1>2, <1>5, KeysAssigned
<1>9. /\ DOMAIN heap2 = DOMAIN heap /\ heap2 = [b \in DOMAIN heap2 |-> heap2[b]]
      /\ heap2[x] = nx /\ heap2[y] = ny /\ heap2[p] = np
      /\ \A b \in DOMAIN heap : b \notin {p, x, y} => heap2[b] = heap[b]
  BY <1>0, <1>3
<1>10. Heap(heap2)
  <2>1. \A b \in DOMAIN heap : heap[b] \in NodeFields
    BY <1>0, Fields
  <2>2. \A b \in DOMAIN heap2 : heap2[b] \in NodeFields
    BY <1>6, <1>7, <1>8, <1>9, <2>1
  <2>3. IsFiniteSet(DOMAIN heap2) /\ DOMAIN heap2 \subseteq Nat \ {Null}
    BY <1>0, <1>9 DEF Heap
  <2> QED BY <1>9, <2>2, <2>3, HeapOf
<1>11. \A b \in DOMAIN heap : /\ heap2[b].leaf = heap[b].leaf /\ heap2[b].children = heap[b].children
                              /\ heap2[b].parent = heap[b].parent /\ heap2[b].next = heap[b].next
                              /\ heap2[b].previous = heap[b].previous
  BY <1>0, <1>6, <1>7, <1>8, <1>9
<1>12. LeafMoved(heap, heap2, p, i, x, y, sep) /\ LeafMoved(heap, heap2, p, i, y, x, sep)
  BY <1>0, <1>2, <1>8, <1>9, <1>10, <1>11 DEF LeafMoved
<1> QED BY <1>0, <1>6, <1>7, <1>9, <1>12
=============================================================================

------------------------- MODULE IndexingJob_proofs -------------------------
(***************************************************************************)
(* That the pipeline indexes every token of any corpus, with any number of *)
(* workers and queues of any capacity: what each step does to the number   *)
(* of tokens at each place, and why none is left when the Parser settles.  *)
(***************************************************************************)
EXTENDS IndexingJob, Kernal_proofs

-----------------------------------------------------------------------------
(* Counting occurrences. *)

Finitely(at) == IsFiniteSet(DOMAIN at) /\ \A place \in DOMAIN at : IsFiniteSet(at[place])

\* Finitely many places with finitely many occurrences each have finitely many in all.
LEMMA OccurrencesFinite ==
  ASSUME NEW at, Finitely(at)
  PROVE  IsFiniteSet(Occurrences(at)) /\ Count(at) \in Nat
<1> DEFINE Marked == {{place} \X at[place] : place \in DOMAIN at}
           mark   == [place \in DOMAIN at |-> {place} \X at[place]]
<1>1. mark \in Surjection(DOMAIN at, Marked)
  BY DEF Surjection
<1>2. IsFiniteSet(Marked)
  BY <1>1, FS_Surjection DEF Finitely
<1>3. \A S \in Marked : IsFiniteSet(S)
  <2> SUFFICES ASSUME NEW place \in DOMAIN at PROVE IsFiniteSet({place} \X at[place])
    OBVIOUS
  <2>1. IsFiniteSet({place}) /\ IsFiniteSet(at[place])
    BY FS_Singleton DEF Finitely
  <2> QED
    BY <2>1, FS_Product
<1> QED
  BY <1>2, <1>3, FS_UNION, FS_CardinalityType DEF Occurrences, Count

\* The occurrences at one place, and the rest.
LEMMA CountWithout ==
  ASSUME NEW at, Finitely(at), NEW here \in DOMAIN at
  PROVE  LET others == [place \in DOMAIN at \ {here} |-> at[place]]
         IN  /\ Finitely(others)
             /\ Cardinality(at[here]) \in Nat
             /\ Count(at) = Cardinality(at[here]) + Count(others)
<1> DEFINE others == [place \in DOMAIN at \ {here} |-> at[place]]
           these  == {here} \X at[here]
<1>1. Finitely(others)
  BY FS_RemoveElement DEF Finitely
<1>2. /\ IsFiniteSet(these) /\ Cardinality(at[here]) \in Nat
      /\ Cardinality(these) = Cardinality(at[here])
  <2>1. IsFiniteSet(at[here]) /\ IsFiniteSet({here}) /\ Cardinality({here}) = 1
    BY FS_Singleton DEF Finitely
  <2>2. IsFiniteSet(these) /\ Cardinality(these) = Cardinality({here}) * Cardinality(at[here])
    BY <2>1, FS_Product
  <2>3. Cardinality(at[here]) \in Nat
    BY <2>1, FS_CardinalityType
  <2> QED
    BY <2>1, <2>2, <2>3
<1>3. Occurrences(at) = these \cup Occurrences(others) /\ these \cap Occurrences(others) = {}
  BY DEF Occurrences
<1>4. IsFiniteSet(Occurrences(others)) /\ Count(others) \in Nat
  BY <1>1, OccurrencesFinite
<1> HIDE DEF others, these
<1>5. /\ Cardinality(these \cup Occurrences(others)) =
           Cardinality(these) + Cardinality(Occurrences(others)) - Cardinality({})
      /\ Cardinality({}) = 0
  BY <1>2, <1>3, <1>4, FS_Union, FS_EmptySet
<1>6. Count(at) = Cardinality(at[here]) + Count(others)
  BY <1>2, <1>3, <1>4, <1>5 DEF Count
<1> QED
  BY <1>1, <1>2, <1>6 DEF others

\* What is the same at every place counts the same; nothing counts as none.
LEMMA CountNone ==
  ASSUME NEW at, \A place \in DOMAIN at : at[place] = {}
  PROVE  Count(at) = 0
BY FS_EmptySet DEF Count, Occurrences

\* Only one place differs.
LEMMA CountExcept ==
  ASSUME NEW at, NEW bt, Finitely(at), Finitely(bt), DOMAIN at = DOMAIN bt,
         NEW here \in DOMAIN at, \A place \in DOMAIN at \ {here} : at[place] = bt[place]
  PROVE  /\ Cardinality(at[here]) \in Nat /\ Cardinality(bt[here]) \in Nat
         /\ Count(bt) + Cardinality(at[here]) = Count(at) + Cardinality(bt[here])
<1> DEFINE a == [place \in DOMAIN at \ {here} |-> at[place]]
           b == [place \in DOMAIN bt \ {here} |-> bt[place]]
<1>1. a = b
  OBVIOUS
<1>2. Cardinality(at[here]) \in Nat /\ Count(at) = Cardinality(at[here]) + Count(a)
  BY CountWithout
<1>3. Cardinality(bt[here]) \in Nat /\ Count(bt) = Cardinality(bt[here]) + Count(b)
  BY CountWithout
<1>4. Finitely(a)
  BY FS_RemoveElement DEF Finitely
<1>5. Count(a) \in Nat
  BY <1>4, OccurrencesFinite
<1> HIDE DEF a, b
<1> QED
  BY <1>1, <1>2, <1>3, <1>5

\* One place more, behind the others.
LEMMA CountBehind ==
  ASSUME NEW n \in Nat, NEW at, NEW bt, Finitely(at),
         DOMAIN at = 1 .. n, DOMAIN bt = 1 .. n + 1, IsFiniteSet(bt[n + 1]),
         \A i \in 1 .. n : bt[i] = at[i]
  PROVE  /\ Finitely(bt) /\ Cardinality(bt[n + 1]) \in Nat
         /\ Count(bt) = Count(at) + Cardinality(bt[n + 1])
<1>1. Finitely(bt)
  <2>1. IsFiniteSet(1 .. n + 1)
    BY FS_Interval
  <2>2. \A i \in 1 .. n + 1 : i = n + 1 \/ i \in 1 .. n
    OBVIOUS
  <2> QED
    BY <2>1, <2>2 DEF Finitely
<1> DEFINE others == [place \in DOMAIN bt \ {n + 1} |-> bt[place]]
<1>2. n + 1 \in DOMAIN bt /\ DOMAIN bt \ {n + 1} = 1 .. n
  OBVIOUS
<1>3. Occurrences(others) = Occurrences(at)
  BY <1>2 DEF Occurrences
<1>4. Count(others) = Count(at)
  BY <1>3 DEF Count
<1>5. Cardinality(bt[n + 1]) \in Nat /\ Count(bt) = Cardinality(bt[n + 1]) + Count(others)
  BY <1>1, <1>2, CountWithout
<1>6. Count(at) \in Nat
  BY OccurrencesFinite
<1> HIDE DEF others
<1> QED
  BY <1>1, <1>4, <1>5, <1>6

\* One place more, before the others.
LEMMA CountBefore ==
  ASSUME NEW n \in Nat, NEW at, NEW bt, Finitely(bt),
         DOMAIN at = 1 .. n, DOMAIN bt = 1 .. n + 1,
         \A i \in 1 .. n : at[i] = bt[i + 1]
  PROVE  /\ Finitely(at) /\ Cardinality(bt[1]) \in Nat
         /\ Count(bt) = Count(at) + Cardinality(bt[1])
<1>0. 1 \in DOMAIN bt /\ DOMAIN bt \ {1} = 2 .. n + 1 /\ \A i \in 1 .. n : i + 1 \in DOMAIN bt
  OBVIOUS
<1>1. Finitely(at)
  <2>1. IsFiniteSet(1 .. n)
    BY FS_Interval
  <2> QED
    BY <1>0, <2>1 DEF Finitely
<1> DEFINE others == [place \in DOMAIN bt \ {1} |-> bt[place]]
           S      == Occurrences(at)
           T      == Occurrences(others)
           shift  == [p \in S |-> <<p[1] + 1, p[2]>>]
<1>2. \A p : (p \in S) <=> (\E i \in 1 .. n : \E x \in at[i] : p = <<i, x>>)
  BY DEF Occurrences
<1>3. \A p : (p \in T) <=> (\E i \in 2 .. n + 1 : \E x \in bt[i] : p = <<i, x>>)
  BY <1>0 DEF Occurrences
<1>4. shift \in Bijection(S, T)
  <2> HIDE DEF S, T, others
  <2>1. \A p \in S : shift[p] \in T
    <3> SUFFICES ASSUME NEW p \in S PROVE shift[p] \in T
      OBVIOUS
    <3>1a. PICK i \in 1 .. n : \E x \in at[i] : p = <<i, x>>
      BY <1>2
    <3>1. PICK x \in at[i] : p = <<i, x>>
      BY <3>1a
    <3>2. shift[p] = <<i + 1, x>> /\ i + 1 \in 2 .. n + 1 /\ x \in bt[i + 1]
      BY <3>1
    <3> QED
      BY <1>3, <3>2
  <2>2. \A q \in T : \E p \in S : shift[p] = q
    <3> SUFFICES ASSUME NEW q \in T PROVE \E p \in S : shift[p] = q
      OBVIOUS
    <3>1a. PICK i \in 2 .. n + 1 : \E x \in bt[i] : q = <<i, x>>
      BY <1>3
    <3>1. PICK x \in bt[i] : q = <<i, x>>
      BY <3>1a
    <3>2. i - 1 \in 1 .. n /\ x \in at[i - 1] /\ (i - 1) + 1 = i
      BY <3>1
    <3>3. <<i - 1, x>> \in S
      BY <1>2, <3>2
    <3>4. shift[<<i - 1, x>>] = <<i, x>>
      BY <3>2, <3>3
    <3> QED
      BY <3>1, <3>3, <3>4
  <2>3. \A p, q \in S : shift[p] = shift[q] => p = q
    <3> SUFFICES ASSUME NEW p \in S, NEW q \in S, shift[p] = shift[q] PROVE p = q
      OBVIOUS
    <3>1a. PICK i \in 1 .. n : \E x \in at[i] : p = <<i, x>>
      BY <1>2
    <3>1. PICK x \in at[i] : p = <<i, x>>
      BY <3>1a
    <3>2a. PICK j \in 1 .. n : \E y \in at[j] : q = <<j, y>>
      BY <1>2
    <3>2. PICK y \in at[j] : q = <<j, y>>
      BY <3>2a
    <3>3. i + 1 = j + 1 /\ x = y
      BY <3>1, <3>2
    <3> QED
      BY <3>1, <3>2, <3>3
  <2> QED
    BY <2>1, <2>2, <2>3, Fun_IsBij
<1>5. IsFiniteSet(S)
  BY <1>1, OccurrencesFinite
<1>6. Cardinality(T) = Cardinality(S)
  BY <1>4, <1>5, FS_Bijection DEF ExistsBijection
<1>7. Count(others) = Count(at)
  BY <1>6 DEF Count
<1>8. Cardinality(bt[1]) \in Nat /\ Count(bt) = Cardinality(bt[1]) + Count(others)
  BY <1>0, CountWithout
<1>9. Count(at) \in Nat
  BY <1>1, OccurrencesFinite
<1> HIDE DEF others, S, T, shift
<1> QED
  BY <1>1, <1>7, <1>8, <1>9

-----------------------------------------------------------------------------
(* Counting in queues. *)

\* Where the elements of T are in q, and what is in q when in[e] is in e.
Positions(q, T) == {i \in 1 .. Len(q) : q[i] \in T}
Contents(q, in) == Count([i \in 1 .. Len(q) |-> in[q[i]]])

\* A push adds a position if the element counts.
LEMMA PositionsPushed ==
  ASSUME NEW S, NEW q \in Seq(S), NEW e \in S, NEW T
  PROVE  /\ IsFiniteSet(Positions(q, T)) /\ Cardinality(Positions(q, T)) \in Nat
         /\ Cardinality(Positions(Append(q, e), T)) =
              Cardinality(Positions(q, T)) + (IF e \in T THEN 1 ELSE 0)
<1>1. Len(q) \in Nat
  BY LenProperties
<1>2. IsFiniteSet(Positions(q, T)) /\ Cardinality(Positions(q, T)) \in Nat
  <2>1. IsFiniteSet(1 .. Len(q)) /\ Positions(q, T) \subseteq 1 .. Len(q)
    BY <1>1, FS_Interval DEF Positions
  <2> QED
    BY <2>1, FS_Subset, FS_CardinalityType
<1>3. /\ Len(Append(q, e)) = Len(q) + 1
      /\ \A i \in 1 .. Len(q) : Append(q, e)[i] = q[i]
      /\ Append(q, e)[Len(q) + 1] = e
  BY PushSeq
<1>4. CASE e \in T
  <2>1. /\ Positions(Append(q, e), T) = Positions(q, T) \cup {Len(q) + 1}
        /\ Len(q) + 1 \notin Positions(q, T)
    BY <1>1, <1>3, <1>4 DEF Positions
  <2> QED
    BY <1>2, <1>4, <2>1, FS_AddElement
<1>5. CASE e \notin T
  <2>1. Positions(Append(q, e), T) = Positions(q, T)
    BY <1>1, <1>3, <1>5 DEF Positions
  <2> QED
    BY <1>2, <1>5, <2>1
<1> QED
  BY <1>2, <1>4, <1>5

\* A pop takes the first position, if it counts, and moves the others.
LEMMA PositionsPopped ==
  ASSUME NEW S, NEW q \in Seq(S), q # <<>>, NEW T
  PROVE  /\ Cardinality(Positions(q, T)) \in Nat /\ Cardinality(Positions(Tail(q), T)) \in Nat
         /\ Cardinality(Positions(q, T)) =
              Cardinality(Positions(Tail(q), T)) + (IF Head(q) \in T THEN 1 ELSE 0)
<1>1. /\ Head(q) = q[1] /\ Len(q) \in Nat \ {0} /\ Len(Tail(q)) = Len(q) - 1
      /\ \A i \in 1 .. Len(Tail(q)) : Tail(q)[i] = q[i + 1]
  BY PopSeq
<1>2. /\ IsFiniteSet(Positions(q, T)) /\ Cardinality(Positions(q, T)) \in Nat
      /\ IsFiniteSet(Positions(Tail(q), T)) /\ Cardinality(Positions(Tail(q), T)) \in Nat
  <2>1. /\ IsFiniteSet(1 .. Len(q)) /\ Positions(q, T) \subseteq 1 .. Len(q)
        /\ IsFiniteSet(1 .. Len(Tail(q))) /\ Positions(Tail(q), T) \subseteq 1 .. Len(Tail(q))
    BY <1>1, FS_Interval DEF Positions
  <2> QED
    BY <2>1, FS_Subset, FS_CardinalityType
<1> DEFINE Behind == Positions(q, T) \ {1}
           shift  == [i \in Positions(Tail(q), T) |-> i + 1]
<1>3. shift \in Bijection(Positions(Tail(q), T), Behind)
  <2>1. \A i \in Positions(Tail(q), T) : i + 1 \in Behind
    BY <1>1 DEF Positions
  <2>2. \A j \in Behind : j - 1 \in Positions(Tail(q), T) /\ shift[j - 1] = j
    BY <1>1 DEF Positions
  <2>3. \A i, j \in Positions(Tail(q), T) : shift[i] = shift[j] => i = j
    BY <1>1 DEF Positions
  <2> QED
    BY <2>1, <2>2, <2>3, Fun_IsBij
<1>4. Cardinality(Positions(Tail(q), T)) = Cardinality(Behind)
  BY <1>2, <1>3, FS_Bijection DEF ExistsBijection
<1>5. CASE Head(q) \in T
  <2>1. 1 \in Positions(q, T)
    BY <1>1, <1>5 DEF Positions
  <2>2. Cardinality(Behind) = Cardinality(Positions(q, T)) - 1
    BY <1>2, <2>1, FS_RemoveElement
  <2> QED
    BY <1>2, <1>4, <1>5, <2>2
<1>6. CASE Head(q) \notin T
  <2>1. Behind = Positions(q, T)
    BY <1>1, <1>6 DEF Positions
  <2>2. Cardinality(Positions(Tail(q), T)) = Cardinality(Positions(q, T))
    BY <1>4, <2>1, Zenon
  <2> QED
    BY <1>2, <1>6, <2>2
<1> QED
  BY <1>5, <1>6

\* A push adds what is in the element.
LEMMA ContentsPushed ==
  ASSUME NEW S, NEW q \in Seq(S), NEW e \in S, NEW in, DOMAIN in = S,
         \A x \in S : IsFiniteSet(in[x])
  PROVE  /\ Contents(q, in) \in Nat /\ Cardinality(in[e]) \in Nat
         /\ Contents(Append(q, e), in) = Contents(q, in) + Cardinality(in[e])
<1> DEFINE n  == Len(q)
           at == [i \in 1 .. n |-> in[q[i]]]
           bt == [i \in 1 .. n + 1 |-> in[Append(q, e)[i]]]
<1>1. /\ n \in Nat /\ Len(Append(q, e)) = n + 1
      /\ \A i \in 1 .. n : Append(q, e)[i] = q[i] /\ q[i] \in S
      /\ Append(q, e)[n + 1] = e
  BY PushSeq, LenProperties, ElementOfSeq
<1>2. Finitely(at)
  <2>1. IsFiniteSet(1 .. n)
    BY <1>1, FS_Interval
  <2> QED
    BY <1>1, <2>1 DEF Finitely
<1>3. /\ DOMAIN at = 1 .. n /\ DOMAIN bt = 1 .. n + 1 /\ bt[n + 1] = in[e]
      /\ \A i \in 1 .. n : bt[i] = at[i]
  BY <1>1
<1>4. Contents(q, in) = Count(at) /\ Contents(Append(q, e), in) = Count(bt)
  BY <1>1 DEF Contents
<1> HIDE DEF n, at, bt
<1>5. Count(bt) = Count(at) + Cardinality(bt[n + 1])
  BY <1>1, <1>2, <1>3, CountBehind
<1> QED
  BY <1>2, <1>3, <1>4, <1>5, OccurrencesFinite, FS_CardinalityType

\* And a pop takes what is in the first element.
LEMMA ContentsPopped ==
  ASSUME NEW S, NEW q \in Seq(S), q # <<>>, NEW in, DOMAIN in = S,
         \A x \in S : IsFiniteSet(in[x])
  PROVE  /\ Contents(Tail(q), in) \in Nat /\ Cardinality(in[Head(q)]) \in Nat
         /\ Contents(q, in) = Contents(Tail(q), in) + Cardinality(in[Head(q)])
<1> DEFINE n  == Len(Tail(q))
           at == [i \in 1 .. n |-> in[Tail(q)[i]]]
           bt == [i \in 1 .. n + 1 |-> in[q[i]]]
<1>1. /\ n \in Nat /\ Len(q) = n + 1
      /\ \A i \in 1 .. n : Tail(q)[i] = q[i + 1] /\ i + 1 \in 1 .. n + 1
      /\ \A i \in 1 .. n + 1 : q[i] \in S
      /\ Head(q) = q[1] /\ Head(q) \in S
  BY PopSeq, LenProperties, ElementOfSeq
<1>2. Finitely(bt)
  <2>1. IsFiniteSet(1 .. n + 1)
    BY <1>1, FS_Interval
  <2> QED
    BY <1>1, <2>1 DEF Finitely
<1>3. /\ DOMAIN at = 1 .. n /\ DOMAIN bt = 1 .. n + 1 /\ bt[1] = in[Head(q)]
      /\ \A i \in 1 .. n : at[i] = bt[i + 1]
  BY <1>1
<1>4. Contents(Tail(q), in) = Count(at) /\ Contents(q, in) = Count(bt)
  BY <1>1 DEF Contents
<1> HIDE DEF n, at, bt
<1>5. Finitely(at) /\ Count(bt) = Count(at) + Cardinality(bt[1])
  BY <1>1, <1>2, <1>3, CountBefore
<1> QED
  BY <1>1, <1>3, <1>4, <1>5, OccurrencesFinite, FS_CardinalityType

-----------------------------------------------------------------------------
(* The places between the disk and the Parser. *)

Emittable  == {w \in Words : Cleaned[w] \in Tokens}
InPath     == [p \in Entries \cup {Empty} |-> InFile(p)]
InEachLine == [line \in Seq(Words) |-> InLine(line)]
InQueued   == [ilp \in Line \cup {LinePill} |-> InLine(ilp.line)]

\* A line holds finitely many tokens.
LEMMA LineFinite ==
  ASSUME NEW line \in Seq(Words)
  PROVE  IsFiniteSet(InLine(line)) /\ InLine(line) = Positions(line, Emittable)
<1>1. Len(line) \in Nat /\ \A i \in 1 .. Len(line) : line[i] \in Words
  BY LenProperties, ElementOfSeq
<1>2. InLine(line) \subseteq 1 .. Len(line) /\ IsFiniteSet(1 .. Len(line))
  BY <1>1, FS_Interval DEF InLine
<1> QED
  BY <1>1, <1>2, FS_Subset DEF InLine, Positions, Emittable

\* A file holds finitely many.
LEMMA FileFinite ==
  ASSUME NEW lines \in Seq(Seq(Words))
  PROVE  /\ IsFiniteSet(InLines(lines))
         /\ Cardinality(InLines(lines)) = Contents(lines, InEachLine)
<1> DEFINE at == [i \in 1 .. Len(lines) |-> InLine(lines[i])]
<1>1. Len(lines) \in Nat /\ \A i \in 1 .. Len(lines) : lines[i] \in Seq(Words)
  BY LenProperties, ElementOfSeq
<1>2. Finitely(at)
  <2>1. IsFiniteSet(1 .. Len(lines))
    BY <1>1, FS_Interval
  <2> QED
    BY <1>1, <2>1, LineFinite DEF Finitely
<1>3. at = [i \in 1 .. Len(lines) |-> InEachLine[lines[i]]]
  BY <1>1 DEF InEachLine
<1> QED
  BY <1>2, <1>3, OccurrencesFinite DEF InLines, Contents, Count

\* So every place holds finitely many, and the pills and an empty line none.
LEMMA Places ==
  /\ DOMAIN InPath = Entries \cup {Empty} /\ \A p \in Entries \cup {Empty} : IsFiniteSet(InPath[p])
  /\ DOMAIN InEachLine = Seq(Words) /\ \A line \in Seq(Words) : IsFiniteSet(InEachLine[line])
  /\ /\ DOMAIN InQueued = Line \cup {LinePill}
     /\ \A ilp \in Line \cup {LinePill} : IsFiniteSet(InQueued[ilp])
  /\ InFile(Empty) = {} /\ InLine(<<>>) = {} /\ InLine(LinePill.line) = {}
<1>1. \A p \in Entries \cup {Empty} : IsFiniteSet(InFile(p))
  <2>1. \A p \in Regular \ Unreadable : IsFiniteSet(InLines(Corpus[p]))
    BY CorpusAssumption, FileFinite
  <2> QED
    BY <2>1, FS_EmptySet DEF InFile
<1>2. \A ilp \in Line \cup {LinePill} : ilp.line \in Seq(Words)
  <2>1. <<>> \in Seq(Words)
    BY EmptySeq
  <2>2. LinePill.line = <<>>
    BY DEF LinePill
  <2>3. \A ilp \in Line : ilp.line \in Seq(Words)
    BY DEF Line
  <2> QED
    BY <2>1, <2>2, <2>3
<1>3. \A ilp \in Line \cup {LinePill} : IsFiniteSet(InLine(ilp.line))
  BY <1>2, LineFinite
<1>4. InFile(Empty) = {}
  BY CorpusAssumption DEF InFile
<1>5. InLine(<<>>) = {} /\ InLine(LinePill.line) = {}
  BY DEF InLine, LinePill
<1> QED
  BY <1>1, <1>3, <1>4, <1>5, LineFinite DEF InPath, InEachLine, InQueued

\* The reader's push to dirQueue.
LEMMA PathPushed ==
  ASSUME dirQueue \in Seq(Entries \cup {Empty}), NEW p \in Entries \cup {Empty},
         dirQueue' = Append(dirQueue, p)
  PROVE  /\ Listed \in Nat /\ Cardinality(InFile(p)) \in Nat
         /\ Listed' = Listed + Cardinality(InFile(p))
<1> DEFINE S == Entries \cup {Empty}
<1>1. \A q \in Seq(S) : Count([i \in 1 .. Len(q) |-> InFile(q[i])]) = Contents(q, InPath)
  BY ElementOfSeq DEF Contents, InPath
<1>2. Append(dirQueue, p) \in Seq(S)
  BY PushSeq
<1>3. Listed = Contents(dirQueue, InPath) /\ Listed' = Contents(Append(dirQueue, p), InPath)
  BY <1>1, <1>2 DEF Listed
<1>4. /\ Contents(dirQueue, InPath) \in Nat /\ Cardinality(InPath[p]) \in Nat
      /\ Contents(Append(dirQueue, p), InPath) = Contents(dirQueue, InPath) + Cardinality(InPath[p])
  <2>1. dirQueue \in Seq(S) /\ p \in S /\ DOMAIN InPath = S /\ \A x \in S : IsFiniteSet(InPath[x])
    BY Places
  <2> HIDE DEF S
  <2> QED
    BY <2>1, ContentsPushed
<1> QED
  BY <1>3, <1>4 DEF InPath

\* The coordinator's pop of dirQueue.
LEMMA PathPopped ==
  ASSUME dirQueue \in Seq(Entries \cup {Empty}), dirQueue # <<>>, dirQueue' = Tail(dirQueue)
  PROVE  /\ Listed' \in Nat /\ Cardinality(InFile(Head(dirQueue))) \in Nat
         /\ Listed = Listed' + Cardinality(InFile(Head(dirQueue)))
<1> DEFINE S == Entries \cup {Empty}
<1>1. \A q \in Seq(S) : Count([i \in 1 .. Len(q) |-> InFile(q[i])]) = Contents(q, InPath)
  BY ElementOfSeq DEF Contents, InPath
<1>2. Tail(dirQueue) \in Seq(S) /\ Head(dirQueue) \in S
  BY PopSeq
<1>3. Listed = Contents(dirQueue, InPath) /\ Listed' = Contents(Tail(dirQueue), InPath)
  BY <1>1, <1>2 DEF Listed
<1>4. /\ Contents(Tail(dirQueue), InPath) \in Nat /\ Cardinality(InPath[Head(dirQueue)]) \in Nat
      /\ Contents(dirQueue, InPath) =
           Contents(Tail(dirQueue), InPath) + Cardinality(InPath[Head(dirQueue)])
  BY ContentsPopped, Places
<1> QED
  BY <1>2, <1>3, <1>4 DEF InPath

\* The coordinator's push to lineQueue.
LEMMA LinePushed ==
  ASSUME lineQueue \in Seq(Line \cup {LinePill}), NEW ilp \in Line \cup {LinePill},
         lineQueue' = Append(lineQueue, ilp)
  PROVE  /\ Read \in Nat /\ Cardinality(InLine(ilp.line)) \in Nat
         /\ Read' = Read + Cardinality(InLine(ilp.line))
<1> DEFINE S == Line \cup {LinePill}
<1>1. \A q \in Seq(S) : Count([i \in 1 .. Len(q) |-> InLine(q[i].line)]) = Contents(q, InQueued)
  BY ElementOfSeq DEF Contents, InQueued
<1>2. Append(lineQueue, ilp) \in Seq(S)
  BY PushSeq
<1>3. Read = Contents(lineQueue, InQueued) /\ Read' = Contents(Append(lineQueue, ilp), InQueued)
  BY <1>1, <1>2 DEF Read
<1>4. /\ Contents(lineQueue, InQueued) \in Nat /\ Cardinality(InQueued[ilp]) \in Nat
      /\ Contents(Append(lineQueue, ilp), InQueued) =
           Contents(lineQueue, InQueued) + Cardinality(InQueued[ilp])
  <2>1. lineQueue \in Seq(S) /\ ilp \in S /\ DOMAIN InQueued = S /\ \A x \in S : IsFiniteSet(InQueued[x])
    BY Places
  <2> HIDE DEF S
  <2> QED
    BY <2>1, ContentsPushed
<1> QED
  BY <1>3, <1>4 DEF InQueued

\* A worker's pop of lineQueue.
LEMMA LinePopped ==
  ASSUME lineQueue \in Seq(Line \cup {LinePill}), lineQueue # <<>>, lineQueue' = Tail(lineQueue)
  PROVE  /\ Read' \in Nat /\ Cardinality(InLine(Head(lineQueue).line)) \in Nat
         /\ Read = Read' + Cardinality(InLine(Head(lineQueue).line))
<1> DEFINE S == Line \cup {LinePill}
<1>1. \A q \in Seq(S) : Count([i \in 1 .. Len(q) |-> InLine(q[i].line)]) = Contents(q, InQueued)
  BY ElementOfSeq DEF Contents, InQueued
<1>2. Tail(lineQueue) \in Seq(S) /\ Head(lineQueue) \in S
  BY PopSeq
<1>3. Read = Contents(lineQueue, InQueued) /\ Read' = Contents(Tail(lineQueue), InQueued)
  BY <1>1, <1>2 DEF Read
<1>4. /\ Contents(Tail(lineQueue), InQueued) \in Nat /\ Cardinality(InQueued[Head(lineQueue)]) \in Nat
      /\ Contents(lineQueue, InQueued) =
           Contents(Tail(lineQueue), InQueued) + Cardinality(InQueued[Head(lineQueue)])
  BY ContentsPopped, Places
<1> QED
  BY <1>2, <1>3, <1>4 DEF InQueued

\* A worker's push to parserQueue: a token counts, the pill does not.
LEMMA TokenPushed ==
  ASSUME parserQueue \in Seq(Tokens \cup {Empty}), NEW token \in Tokens \cup {Empty},
         parserQueue' = Append(parserQueue, token)
  PROVE  /\ Emitted \in Nat
         /\ Emitted' = Emitted + (IF token = Empty THEN 0 ELSE 1)
<1> DEFINE S == Tokens \cup {Empty}
<1>0. Empty \notin Tokens
  BY DEF Tokens
<1>1. \A q \in Seq(S) : {i \in 1 .. Len(q) : q[i] # Empty} = Positions(q, Tokens)
  BY <1>0, ElementOfSeq DEF Positions
<1>2. Append(parserQueue, token) \in Seq(S)
  BY PushSeq
<1>3. /\ Emitted = Cardinality(Positions(parserQueue, Tokens))
      /\ Emitted' = Cardinality(Positions(Append(parserQueue, token), Tokens))
  BY <1>1, <1>2 DEF Emitted
<1> QED
  BY <1>0, <1>3, PositionsPushed

\* The Parser's pop of parserQueue.
LEMMA TokenPopped ==
  ASSUME parserQueue \in Seq(Tokens \cup {Empty}), parserQueue # <<>>,
         parserQueue' = Tail(parserQueue)
  PROVE  /\ Emitted' \in Nat /\ Head(parserQueue) \in Tokens \cup {Empty}
         /\ Emitted = Emitted' + (IF Head(parserQueue) = Empty THEN 0 ELSE 1)
<1> DEFINE S == Tokens \cup {Empty}
<1>0. Empty \notin Tokens
  BY DEF Tokens
<1>1. \A q \in Seq(S) : {i \in 1 .. Len(q) : q[i] # Empty} = Positions(q, Tokens)
  BY <1>0, ElementOfSeq DEF Positions
<1>2. Tail(parserQueue) \in Seq(S) /\ Head(parserQueue) \in S
  BY PopSeq
<1>3. /\ Emitted = Cardinality(Positions(parserQueue, Tokens))
      /\ Emitted' = Cardinality(Positions(Tail(parserQueue), Tokens))
  BY <1>1, <1>2 DEF Emitted
<1>4. /\ Cardinality(Positions(Tail(parserQueue), Tokens)) \in Nat
      /\ Cardinality(Positions(parserQueue, Tokens)) =
           Cardinality(Positions(Tail(parserQueue), Tokens)) +
             (IF Head(parserQueue) \in Tokens THEN 1 ELSE 0)
  BY PositionsPopped
<1> QED
  BY <1>0, <1>2, <1>3, <1>4

\* The reader takes an entry off the list.
LEMMA EntryTaken ==
  ASSUME unseen \subseteq Entries, NEW entry \in unseen, unseen' = unseen \ {entry}
  PROVE  /\ Unlisted' \in Nat /\ Cardinality(InFile(entry)) \in Nat
         /\ Unlisted = Unlisted' + Cardinality(InFile(entry))
<1> DEFINE at     == [e \in unseen |-> InFile(e)]
           others == [e \in DOMAIN at \ {entry} |-> at[e]]
<1>1. Finitely(at)
  <2>1. IsFiniteSet(unseen)
    BY DirectoryAssumption, FS_Subset
  <2>2. \A e \in unseen : IsFiniteSet(InFile(e))
    BY Places DEF InPath
  <2> QED
    BY <2>1, <2>2 DEF Finitely
<1>2. Unlisted = Count(at)
  BY DEF Unlisted
<1>3. Unlisted' = Count(others)
  BY DEF Unlisted
<1>4. entry \in DOMAIN at /\ at[entry] = InFile(entry)
  OBVIOUS
<1>5. /\ Finitely(others) /\ Cardinality(at[entry]) \in Nat
      /\ Count(at) = Cardinality(at[entry]) + Count(others)
  BY <1>1, <1>4, CountWithout
<1>6. Count(others) \in Nat
  BY <1>5, OccurrencesFinite
<1> HIDE DEF at, others
<1> QED
  BY <1>2, <1>3, <1>4, <1>5, <1>6

\* The coordinator packs the first of its unread lines.
LEMMA LineTaken ==
  ASSUME unread \in Seq(Seq(Words)), unread # <<>>, unread' = Tail(unread)
  PROVE  /\ Unread' \in Nat /\ Head(unread) \in Seq(Words)
         /\ Cardinality(InLine(Head(unread))) \in Nat
         /\ Unread = Unread' + Cardinality(InLine(Head(unread)))
<1> DEFINE S == Seq(Words)
<1>1. Tail(unread) \in Seq(S) /\ Head(unread) \in S
  BY PopSeq
<1>2. Unread = Contents(unread, InEachLine) /\ Unread' = Contents(Tail(unread), InEachLine)
  BY <1>1, FileFinite DEF Unread
<1>3. /\ Contents(Tail(unread), InEachLine) \in Nat /\ Cardinality(InEachLine[Head(unread)]) \in Nat
      /\ Contents(unread, InEachLine) =
           Contents(Tail(unread), InEachLine) + Cardinality(InEachLine[Head(unread)])
  <2>1. unread \in Seq(S) /\ DOMAIN InEachLine = S /\ \A x \in S : IsFiniteSet(InEachLine[x])
    BY Places
  <2> HIDE DEF S
  <2> QED
    BY <2>1, ContentsPopped
<1> QED
  BY <1>1, <1>2, <1>3 DEF InEachLine

\* One worker's line changes, the others keep theirs.
LEMMA WordsChange ==
  ASSUME words \in [Workers -> Seq(Words)], NEW w \in Workers, NEW line \in Seq(Words),
         words' = [words EXCEPT ![w] = line]
  PROVE  /\ InWork \in Nat /\ InWork' \in Nat
         /\ Cardinality(InLine(words[w])) \in Nat /\ Cardinality(InLine(line)) \in Nat
         /\ InWork' + Cardinality(InLine(words[w])) = InWork + Cardinality(InLine(line))
<1> DEFINE at == [v \in Workers |-> InLine(words[v])]
           bt == [v \in Workers |-> InLine(words'[v])]
<1>1. words' \in [Workers -> Seq(Words)] /\ words'[w] = line
  OBVIOUS
<1>2. Finitely(at) /\ Finitely(bt)
  <2>1. \A v \in Workers : IsFiniteSet(InLine(words[v])) /\ IsFiniteSet(InLine(words'[v]))
    BY <1>1, LineFinite
  <2> QED
    BY <2>1, WorkersAssumption DEF Finitely
<1>3. /\ DOMAIN at = Workers /\ DOMAIN bt = Workers
      /\ \A v \in Workers \ {w} : at[v] = bt[v]
      /\ at[w] = InLine(words[w]) /\ bt[w] = InLine(line)
  OBVIOUS
<1>4. InWork = Count(at) /\ InWork' = Count(bt)
  BY DEF InWork
<1> HIDE DEF at, bt
<1>5. /\ Cardinality(at[w]) \in Nat /\ Cardinality(bt[w]) \in Nat
      /\ Count(bt) + Cardinality(at[w]) = Count(at) + Cardinality(bt[w])
  <2>1. w \in DOMAIN at /\ DOMAIN at = DOMAIN bt /\ \A v \in DOMAIN at \ {w} : at[v] = bt[v]
    BY <1>3
  <2> QED
    BY <1>2, <2>1, CountExcept
<1>6. Count(at) \in Nat /\ Count(bt) \in Nat
  BY <1>2, OccurrencesFinite
<1>7. Cardinality(at[w]) = Cardinality(InLine(words[w])) /\ Cardinality(bt[w]) = Cardinality(InLine(line))
  BY <1>3
<1> QED
  BY <1>4, <1>5, <1>6, <1>7

\* A worker has done with the first word of its line.
LEMMA WordTaken ==
  ASSUME NEW line \in Seq(Words), line # <<>>
  PROVE  /\ Cardinality(InLine(Tail(line))) \in Nat
         /\ Cardinality(InLine(line)) =
              Cardinality(InLine(Tail(line))) + (IF Cleaned[Head(line)] \in Tokens THEN 1 ELSE 0)
<1>1. Tail(line) \in Seq(Words) /\ Head(line) \in Words
  BY PopSeq
<1>2. InLine(line) = Positions(line, Emittable) /\ InLine(Tail(line)) = Positions(Tail(line), Emittable)
  BY <1>1, LineFinite
<1> QED
  BY <1>1, <1>2, PositionsPopped DEF Emittable

\* Every place holds a number of tokens.
LEMMA PlacesAreNumbers ==
  TypeOK => /\ Unlisted \in Nat /\ InHand \in Nat /\ Listed \in Nat /\ Unread \in Nat
            /\ Read \in Nat /\ InWork \in Nat /\ Emitted \in Nat
<1> SUFFICES ASSUME TypeOK
             PROVE  /\ Unlisted \in Nat /\ InHand \in Nat /\ Listed \in Nat /\ Unread \in Nat
                    /\ Read \in Nat /\ InWork \in Nat /\ Emitted \in Nat
  OBVIOUS
<1>t. /\ unseen \subseteq Entries /\ path \in Entries \cup {Empty}
      /\ dirQueue \in Seq(Entries \cup {Empty}) /\ unread \in Seq(Seq(Words))
      /\ lineQueue \in Seq(Line \cup {LinePill}) /\ words \in [Workers -> Seq(Words)]
      /\ parserQueue \in Seq(Tokens \cup {Empty})
  BY DEF TypeOK, ReaderTypeOK, ChannelsTypeOK, LexerTypeOK
<1>0. \A p \in Entries \cup {Empty} : IsFiniteSet(InFile(p))
  BY Places DEF InPath
<1>1. Unlisted \in Nat
  <2>1. IsFiniteSet(unseen)
    BY <1>t, DirectoryAssumption, FS_Subset
  <2>2. Finitely([e \in unseen |-> InFile(e)])
    BY <1>t, <1>0, <2>1 DEF Finitely
  <2> QED
    BY <2>2, OccurrencesFinite DEF Unlisted
<1>2. InHand \in Nat
  BY <1>t, <1>0, FS_CardinalityType DEF InHand
<1>3. Listed \in Nat
  <2>1. Len(dirQueue) \in Nat /\ \A i \in 1 .. Len(dirQueue) : dirQueue[i] \in Entries \cup {Empty}
    BY <1>t, LenProperties, ElementOfSeq
  <2>2. IsFiniteSet(1 .. Len(dirQueue))
    BY <2>1, FS_Interval
  <2>3. Finitely([i \in 1 .. Len(dirQueue) |-> InFile(dirQueue[i])])
    BY <1>0, <2>1, <2>2 DEF Finitely
  <2> QED
    BY <2>3, OccurrencesFinite DEF Listed
<1>4. Unread \in Nat
  BY <1>t, FileFinite, FS_CardinalityType DEF Unread
<1>5. Read \in Nat
  <2>1. /\ Len(lineQueue) \in Nat
        /\ \A i \in 1 .. Len(lineQueue) : lineQueue[i] \in Line \cup {LinePill}
    BY <1>t, LenProperties, ElementOfSeq
  <2>2. IsFiniteSet(1 .. Len(lineQueue))
    BY <2>1, FS_Interval
  <2>3. \A ilp \in Line \cup {LinePill} : IsFiniteSet(InLine(ilp.line))
    BY Places DEF InQueued
  <2>4. Finitely([i \in 1 .. Len(lineQueue) |-> InLine(lineQueue[i].line)])
    BY <2>1, <2>2, <2>3 DEF Finitely
  <2> QED
    BY <2>4, OccurrencesFinite DEF Read
<1>6. InWork \in Nat
  <2>1. \A w \in Workers : IsFiniteSet(InLine(words[w]))
    BY <1>t, LineFinite
  <2>2. Finitely([w \in Workers |-> InLine(words[w])])
    BY <2>1, WorkersAssumption DEF Finitely
  <2> QED
    BY <2>2, OccurrencesFinite DEF InWork
<1>7. Emitted \in Nat
  <2>1. Len(parserQueue) \in Nat
    BY <1>t, LenProperties
  <2>2. IsFiniteSet(1 .. Len(parserQueue))
    BY <2>1, FS_Interval
  <2>3. {i \in 1 .. Len(parserQueue) : parserQueue[i] # Empty} \subseteq 1 .. Len(parserQueue)
    OBVIOUS
  <2> QED
    BY <2>2, <2>3, FS_Subset, FS_CardinalityType DEF Emitted
<1> QED
  BY <1>1, <1>2, <1>3, <1>4, <1>5, <1>6, <1>7

\* A place keeps its tokens while its variable is left alone.
LEMMA PlacesLeftAlone ==
  /\ unseen' = unseen => Unlisted' = Unlisted
  /\ path' = path => InHand' = InHand
  /\ dirQueue' = dirQueue => Listed' = Listed
  /\ unread' = unread => Unread' = Unread
  /\ lineQueue' = lineQueue => Read' = Read
  /\ words' = words => InWork' = InWork
  /\ parserQueue' = parserQueue => Emitted' = Emitted
BY DEF Unlisted, InHand, Listed, Unread, Read, InWork, Emitted

-----------------------------------------------------------------------------
(* The inductive invariant. *)

\* Until the boot is given up the reader and the Lexer are told to go on, the Parser
\* starts last, and the Engine after the Parser has reported a success.
Onward ==
  /\ mainPc \in {"init", "startStore", "startReader"} => readerPc = "none"
  /\ mainPc = "spawn" => lexerRunning
  /\ mainPc = "startParser" => coordPc # "none"
  /\ ~GivenUp => /\ readerPc # "none" => readerRunning
                 /\ coordPc # "none" => lexerRunning
  /\ parserPc # "none" => coordPc # "none"
  /\ parserPc # "done" => promise = "unset"
  /\ mainPc \in {"startEngine", "serving"} /\ ~hasSearchIndex => promise = "value"

\* Only files are listed, and the pill of dirQueue comes behind all of them.
PathsEnd ==
  /\ path \in Regular \cup {Empty} /\ (path = Empty <=> readerPc # "push")
  /\ \A i \in 1 .. Len(dirQueue) : dirQueue[i] \in Regular \cup {Empty}
  /\ ~GivenUp =>
       /\ readerPc \in {"close", "done"} => unseen = {}
       /\ \A i \in 1 .. Len(dirQueue) :
            dirQueue[i] = Empty => i = Len(dirQueue) /\ readerPc = "done"
       /\ coordPc \in {"pills", "done"} => dirQueue = <<>> /\ readerPc = "done"

\* A thread holds tokens only where it works on them, and once a worker has taken a
\* pill no line is left in lineQueue.
LinesEnd ==
  /\ coordPc \notin {"read", "push"} => unread = <<>>
  /\ \A w \in Workers : workerPc[w] # "emit" => words[w] = <<>>
  /\ lexerRunning /\ coordPc # "none" /\ Emitting # Workers =>
       \A i \in 1 .. Len(lineQueue) : lineQueue[i] = LinePill

-----------------------------------------------------------------------------
(* What a step does to the number of tokens in flight. *)

\* A step of the reader moves the tokens of an entry from one place to the next.
LEMMA ReaderMoves ==
  ASSUME TypeOK, PathsEnd, Reader
  PROVE  InFlight' = InFlight
<1>t. /\ unseen \subseteq Entries /\ path \in Entries \cup {Empty}
      /\ dirQueue \in Seq(Entries \cup {Empty})
  BY DEF TypeOK, ReaderTypeOK, ChannelsTypeOK
<1>u. /\ Unread' = Unread /\ InWork' = InWork /\ Read' = Read /\ Emitted' = Emitted
  BY PlacesLeftAlone DEF Reader, ReaderStep, ReaderScan, ReaderPush, ReaderClose, lexerVars,
                         coordVars, workerVars, channelVars
<1>0. InHand = Cardinality(InFile(path)) /\ Cardinality(InFile(Empty)) = 0
  BY Places, FS_EmptySet DEF InHand
<1>1. CASE ReaderScan /\ UNCHANGED <<unseen, path>>
  <2>1. Unlisted' = Unlisted /\ InHand' = InHand /\ Listed' = Listed
    BY <1>1, PlacesLeftAlone DEF ReaderScan, channelVars
  <2> QED
    BY <1>u, <2>1 DEF InFlight
<1>2. ASSUME ReaderScan, NEW entry \in unseen, unseen' = unseen \ {entry},
             IF entry \in Regular THEN readerPc' = "push" /\ path' = entry
                                  ELSE UNCHANGED <<readerPc, path>>
      PROVE  InFlight' = InFlight
  <2>1. /\ Unlisted' \in Nat /\ Cardinality(InFile(entry)) \in Nat
        /\ Unlisted = Unlisted' + Cardinality(InFile(entry))
    BY <1>t, <1>2, EntryTaken
  <2>2. Listed' = Listed
    BY <1>2, PlacesLeftAlone DEF ReaderScan, channelVars
  <2>3. InHand' = InHand + Cardinality(InFile(entry))
    <3>1. CASE entry \in Regular
      <4>1. path = Empty
        BY <1>2 DEF ReaderScan, PathsEnd
      <4>2. InHand' = Cardinality(InFile(entry))
        BY <1>2, <3>1 DEF InHand
      <4> QED
        BY <1>0, <2>1, <4>1, <4>2
    <3>2. CASE entry \notin Regular
      <4>1. InFile(entry) = {}
        BY <3>2 DEF InFile
      <4>2. InHand' = InHand /\ InHand \in Nat
        BY <1>2, <3>2, PlacesLeftAlone, PlacesAreNumbers
      <4> QED
        BY <4>1, <4>2, FS_EmptySet
    <3> QED
      BY <3>1, <3>2
  <2> QED
    BY <1>u, <2>1, <2>2, <2>3, PlacesAreNumbers DEF InFlight
<1>3. CASE ReaderPush
  <2>1. Listed' = Listed + Cardinality(InFile(path))
    BY <1>3, <1>t, PathPushed DEF ReaderPush, PushDir
  <2>2. InHand' = 0
    BY <1>0, <1>3 DEF ReaderPush, InHand
  <2>3. Unlisted' = Unlisted
    BY <1>3, PlacesLeftAlone DEF ReaderPush
  <2> QED
    BY <1>0, <1>u, <2>1, <2>2, <2>3, PlacesAreNumbers DEF InFlight
<1>4. CASE ReaderClose
  <2>1. Listed' = Listed
    BY <1>0, <1>4, <1>t, PathPushed, PlacesAreNumbers DEF ReaderClose, PushDir
  <2>2. Unlisted' = Unlisted /\ InHand' = InHand
    BY <1>4, PlacesLeftAlone DEF ReaderClose
  <2> QED
    BY <1>u, <2>1, <2>2 DEF InFlight
<1> QED
  BY <1>1, <1>2, <1>3, <1>4 DEF Reader, ReaderStep, ReaderScan

\* A step of the coordinator does too, unless it closes a file because it was told to stop.
LEMMA CoordinatorMoves ==
  ASSUME TypeOK, PathsEnd, LinesEnd, Coordinator, Vanishing = {}
  PROVE  \/ InFlight' = InFlight
         \/ ~lexerRunning /\ coordPc = "read" /\ InFlight' \in Nat /\ InFlight' <= InFlight
<1>t. /\ unread \in Seq(Seq(Words)) /\ dirQueue \in Seq(Entries \cup {Empty})
      /\ lineQueue \in Seq(Line \cup {LinePill})
  BY DEF TypeOK, LexerTypeOK, ChannelsTypeOK
<1>u. /\ Unlisted' = Unlisted /\ InHand' = InHand /\ InWork' = InWork /\ Emitted' = Emitted
  BY PlacesLeftAlone DEF Coordinator, CoordStep, CoordCheck, CoordPop, CoordRead, CoordPush,
                         CoordPill, readerVars, workerVars, channelVars
<1>0. /\ Cardinality(InFile(Empty)) = 0 /\ Cardinality(InLine(LinePill.line)) = 0
      /\ Cardinality(InLines(<<>>)) = 0
  <2>1. InLines(<<>>) = {}
    BY DEF InLines, Occurrences
  <2> QED
    BY <2>1, Places, FS_EmptySet
<1>1. CASE CoordCheck
  <2>1. Listed' = Listed /\ Unread' = Unread /\ Read' = Read
    BY <1>1, PlacesLeftAlone DEF CoordCheck, channelVars
  <2> QED
    BY <1>u, <2>1 DEF InFlight
<1>2. CASE CoordPop
  <2> DEFINE popped == Head(dirQueue)
  <2>1. /\ Listed' \in Nat /\ Cardinality(InFile(popped)) \in Nat
        /\ Listed = Listed' + Cardinality(InFile(popped))
    BY <1>2, <1>t, PathPopped DEF CoordPop
  <2>2. Read' = Read
    BY <1>2, PlacesLeftAlone DEF CoordPop
  <2>3. Unread' = Unread + Cardinality(InFile(popped))
    <3>1. CASE unread' = unread /\ popped \in Unreadable \cup {Empty}
      <4>1. InFile(popped) = {}
        BY <3>1, Places DEF InFile
      <4>2. Unread' = Unread /\ Unread \in Nat
        BY <3>1, PlacesLeftAlone, PlacesAreNumbers
      <4> QED
        BY <4>1, <4>2, FS_EmptySet
    <3>2. CASE unread' = Corpus[popped] /\ popped \notin Unreadable \cup {Empty}
      <4>1. popped \in Regular
        <5>1. popped = dirQueue[1] /\ 1 \in 1 .. Len(dirQueue)
          BY <1>2, <1>t, PopSeq DEF CoordPop
        <5> QED
          BY <3>2, <5>1 DEF PathsEnd
      <4>2. InFile(popped) = InLines(Corpus[popped])
        BY <3>2, <4>1 DEF InFile
      <4>3. unread = <<>>
        BY <1>2 DEF CoordPop, LinesEnd
      <4>4. Unread = 0 /\ Unread' = Cardinality(InLines(Corpus[popped]))
        BY <1>0, <3>2, <4>3 DEF Unread
      <4> QED
        BY <2>1, <4>2, <4>4
    <3> QED
      BY <1>2, <3>1, <3>2 DEF CoordPop
  <2> HIDE DEF popped
  <2> QED
    BY <1>u, <2>1, <2>2, <2>3, PlacesAreNumbers DEF InFlight
<1>3. CASE CoordRead
  <2>1. Listed' = Listed /\ Read' = Read
    BY <1>3, PlacesLeftAlone DEF CoordRead, channelVars
  <2>2. CASE unread # <<>> /\ lexerRunning
    BY <1>3, <1>u, <2>1, <2>2, PlacesLeftAlone DEF CoordRead, InFlight
  <2>3. CASE unread = <<>>
    <3>1. unread' = unread
      BY <1>3, <2>3 DEF CoordRead
    <3> QED
      BY <1>u, <2>1, <3>1, PlacesLeftAlone DEF InFlight
  <2>4. CASE ~lexerRunning
    <3>1. unread' = <<>> /\ coordPc = "read"
      BY <1>3, <2>4 DEF CoordRead
    <3>2. Unread' = 0
      BY <1>0, <3>1 DEF Unread
    <3> QED
      BY <1>u, <2>1, <2>4, <3>1, <3>2, PlacesAreNumbers DEF InFlight
  <2> QED
    BY <2>2, <2>3, <2>4
<1>4. CASE CoordPush
  <2> DEFINE ilp == [filepath |-> file, line |-> Head(unread)]
  <2>1. unread # <<>> /\ file \in Entries
    BY <1>4 DEF CoordPush, TypeOK, LexerTypeOK
  <2>2. unread' = Tail(unread) /\ lineQueue' = Append(lineQueue, ilp)
    BY <1>4 DEF CoordPush, PushLine
  <2>3. /\ Unread' \in Nat /\ Head(unread) \in Seq(Words)
        /\ Cardinality(InLine(Head(unread))) \in Nat
        /\ Unread = Unread' + Cardinality(InLine(Head(unread)))
    BY <1>t, <2>1, <2>2, LineTaken
  <2>4. ilp \in Line \cup {LinePill} /\ ilp.line = Head(unread)
    BY <2>1, <2>3 DEF Line
  <2> HIDE DEF ilp
  <2>5. Read' = Read + Cardinality(InLine(ilp.line))
    BY <1>t, <2>2, <2>4, LinePushed
  <2>6. Listed' = Listed
    BY <1>4, PlacesLeftAlone DEF CoordPush
  <2> QED
    BY <1>u, <2>3, <2>4, <2>5, <2>6, PlacesAreNumbers DEF InFlight
<1>5. CASE CoordPill
  <2>1. Listed' = Listed /\ Unread' = Unread
    BY <1>5, PlacesLeftAlone DEF CoordPill
  <2>2. Read' = Read
    <3>1. CASE lineQueue' = lineQueue
      BY <3>1, PlacesLeftAlone
    <3>2. CASE lineQueue' = Append(lineQueue, LinePill)
      BY <1>0, <1>t, <3>2, LinePushed, PlacesAreNumbers
    <3> QED
      BY <1>5, <3>1, <3>2 DEF CoordPill, PushLine
  <2> QED
    BY <1>u, <2>1, <2>2 DEF InFlight
<1> QED
  BY <1>1, <1>2, <1>3, <1>4, <1>5 DEF Coordinator, CoordStep

\* A worker takes a line from the queue and emits its tokens one by one.
LEMMA WorkerMoves ==
  ASSUME TypeOK, LinesEnd, NEW w \in Workers, Worker(w)
  PROVE  InFlight' = InFlight
<1>t. /\ words \in [Workers -> Seq(Words)] /\ lineQueue \in Seq(Line \cup {LinePill})
      /\ parserQueue \in Seq(Tokens \cup {Empty})
  BY DEF TypeOK, LexerTypeOK, ChannelsTypeOK
<1>u. /\ Unlisted' = Unlisted /\ InHand' = InHand /\ Listed' = Listed /\ Unread' = Unread
  BY PlacesLeftAlone DEF Worker, WorkerStep, WorkerCheck, WorkerPop, WorkerEmit, WorkerLeave,
                         WorkerClose, WorkerClosing, readerVars, coordVars, channelVars
<1>0. Cardinality(InLine(<<>>)) = 0 /\ Cardinality(InLine(LinePill.line)) = 0
  BY Places, FS_EmptySet
<1>1. CASE WorkerCheck(w) \/ WorkerLeave(w) \/ WorkerClose(w)
  <2>1. Read' = Read /\ InWork' = InWork /\ Emitted' = Emitted
    BY <1>1, PlacesLeftAlone DEF WorkerCheck, WorkerLeave, WorkerClose, channelVars
  <2> QED
    BY <1>u, <2>1 DEF InFlight
<1>2. CASE WorkerPop(w)
  <2>1. Head(lineQueue) \in Line \cup {LinePill} /\ lineQueue # <<>> /\ lineQueue' = Tail(lineQueue)
    BY <1>2, <1>t, PopSeq DEF WorkerPop
  <2>2. /\ Read' \in Nat /\ Cardinality(InLine(Head(lineQueue).line)) \in Nat
        /\ Read = Read' + Cardinality(InLine(Head(lineQueue).line))
    BY <1>t, <2>1, LinePopped
  <2>3. InWork' = InWork + Cardinality(InLine(Head(lineQueue).line))
    <3>1. CASE Head(lineQueue) = LinePill
      <4>1. InWork' = InWork /\ InWork \in Nat
        BY <1>2, <3>1, PlacesLeftAlone, PlacesAreNumbers DEF WorkerPop
      <4> QED
        BY <1>0, <3>1, <4>1
    <3>2. CASE Head(lineQueue) # LinePill
      <4> DEFINE line == Head(lineQueue).line
      <4>1. line \in Seq(Words)
        BY <2>1, <3>2 DEF Line
      <4>2. words' = [words EXCEPT ![w] = line] /\ words[w] = <<>>
        BY <1>2, <3>2 DEF WorkerPop, LinesEnd
      <4> HIDE DEF line
      <4>3. /\ InWork \in Nat /\ InWork' \in Nat
            /\ Cardinality(InLine(words[w])) \in Nat /\ Cardinality(InLine(line)) \in Nat
            /\ InWork' + Cardinality(InLine(words[w])) = InWork + Cardinality(InLine(line))
        BY <1>t, <4>1, <4>2, WordsChange
      <4>4. InWork' = InWork + Cardinality(InLine(line))
        BY <1>0, <4>2, <4>3
      <4> QED
        BY <4>4 DEF line
    <3> QED
      BY <3>1, <3>2
  <2>4. Emitted' = Emitted
    BY <1>2, PlacesLeftAlone DEF WorkerPop
  <2> QED
    BY <1>u, <2>2, <2>3, <2>4, PlacesAreNumbers DEF InFlight
<1>3. CASE WorkerEmit(w)
  <2>1. Read' = Read
    BY <1>3, PlacesLeftAlone DEF WorkerEmit
  <2>2. CASE words[w] = <<>>
    <3>1. InWork' = InWork /\ Emitted' = Emitted
      BY <1>3, <2>2, PlacesLeftAlone DEF WorkerEmit
    <3> QED
      BY <1>u, <2>1, <3>1 DEF InFlight
  <2>3. CASE words[w] # <<>>
    <3> DEFINE line  == words[w]
               token == Cleaned[Head(line)]
    <3>1. line \in Seq(Words) /\ line # <<>> /\ Tail(line) \in Seq(Words) /\ Head(line) \in Words
      BY <1>t, <2>3, PopSeq
    <3>2. /\ words' = [words EXCEPT ![w] = Tail(line)]
          /\ IF token \in StopWords \cup {Empty} THEN UNCHANGED parserQueue ELSE PushToken(token)
      BY <1>3, <1>t, <2>3, Zenon DEF WorkerEmit
    <3>3. token \in Tokens <=> token \notin StopWords \cup {Empty}
      BY <3>1 DEF Tokens
    <3> HIDE DEF token
    <3>4. /\ Cardinality(InLine(Tail(line))) \in Nat
          /\ Cardinality(InLine(line)) =
               Cardinality(InLine(Tail(line))) + (IF token \in Tokens THEN 1 ELSE 0)
      BY <3>1, WordTaken DEF token
    <3>5. /\ InWork \in Nat /\ InWork' \in Nat
          /\ InWork' + Cardinality(InLine(line)) = InWork + Cardinality(InLine(Tail(line)))
      BY <1>t, <3>1, <3>2, WordsChange
    <3>6. Emitted' = Emitted + (IF token \in Tokens THEN 1 ELSE 0) /\ Emitted \in Nat
      <4>1. CASE token \in Tokens
        <5>1. parserQueue' = Append(parserQueue, token) /\ token # Empty
          BY <3>2, <3>3, <4>1 DEF PushToken
        <5> QED
          BY <1>t, <4>1, <5>1, TokenPushed
      <4>2. CASE token \notin Tokens
        <5>1. Emitted' = Emitted
          BY <3>2, <3>3, <4>2, PlacesLeftAlone
        <5> QED
          BY <4>2, <5>1, PlacesAreNumbers
      <4> QED
        BY <4>1, <4>2
    <3>7. InWork' + Emitted' = InWork + Emitted
      <4>1. PICK after \in Nat : after = Cardinality(InLine(Tail(line)))
        BY <3>4
      <4>2. PICK work \in Nat, emitted \in Nat, working \in Nat :
              work = InWork /\ emitted = Emitted /\ working = InWork'
        BY <3>5, <3>6
      <4>3. PICK one \in Nat : one = IF token \in Tokens THEN 1 ELSE 0
        OBVIOUS
      <4>4. /\ Cardinality(InLine(line)) = after + one
            /\ Emitted' = emitted + one
        BY <3>4, <3>6, <4>1, <4>2, <4>3, Zenon
      <4>5. working + (after + one) = work + after
        BY <3>5, <4>1, <4>2, <4>4, Zenon
      <4>6. working + (emitted + one) = work + emitted
        BY <4>5
      <4> QED
        BY <4>2, <4>4, <4>6, Zenon
    <3>8. Emitted' \in Nat
      BY <3>6
    <3> QED
      BY <1>u, <2>1, <3>5, <3>7, <3>8, PlacesAreNumbers DEF InFlight
  <2> QED
    BY <2>2, <2>3
<1>4. CASE WorkerClosing(w)
  <2>1. Read' = Read /\ InWork' = InWork
    BY <1>4, PlacesLeftAlone DEF WorkerClosing
  <2>2. Emitted' = Emitted
    BY <1>4, <1>t, TokenPushed DEF WorkerClosing, PushToken
  <2> QED
    BY <1>u, <2>1, <2>2 DEF InFlight
<1> QED
  BY <1>1, <1>2, <1>3, <1>4 DEF Worker, WorkerStep

\* The Parser indexes what it takes, and nothing else.
LEMMA ParserMoves ==
  ASSUME TypeOK, ParserThread
  PROVE  \/ /\ parserPc = "pop" /\ promise' = promise /\ InFlight' \in Nat
            /\ InFlight = InFlight' + 1 /\ tokensIndexed' = tokensIndexed + 1
         \/ InFlight' = InFlight /\ tokensIndexed' = tokensIndexed
<1>t. parserQueue \in Seq(Tokens \cup {Empty})
  BY DEF TypeOK, ChannelsTypeOK
<1>u. /\ Unlisted' = Unlisted /\ InHand' = InHand /\ Listed' = Listed /\ Unread' = Unread
      /\ Read' = Read /\ InWork' = InWork
  BY PlacesLeftAlone DEF ParserThread, ParserStep, ParserCheck, ParserPop, ParserSettle, readerVars,
                         lexerVars, channelVars
<1>1. CASE ParserCheck \/ ParserSettle
  <2>1. Emitted' = Emitted
    BY <1>1, PlacesLeftAlone DEF ParserCheck, ParserSettle, channelVars
  <2> QED
    BY <1>1, <1>u, <2>1 DEF InFlight, ParserCheck, ParserSettle
<1>2. CASE ParserPop
  <2>1. /\ Emitted' \in Nat
        /\ Emitted = Emitted' + (IF Head(parserQueue) = Empty THEN 0 ELSE 1)
    BY <1>2, <1>t, TokenPopped DEF ParserPop
  <2>2. /\ parserPc = "pop" /\ promise' = promise
        /\ tokensIndexed' = IF Head(parserQueue) = Empty THEN tokensIndexed ELSE tokensIndexed + 1
    BY <1>2 DEF ParserPop
  <2>3. CASE Head(parserQueue) = Empty
    <3>1. Emitted' \in Nat /\ Emitted = Emitted' + 0
      BY <2>1, <2>3, Zenon
    <3> QED
      BY <1>u, <2>2, <2>3, <3>1 DEF InFlight
  <2>4. CASE Head(parserQueue) # Empty
    <3>1. Emitted = Emitted' + 1
      BY <2>1, <2>4
    <3> QED
      BY <1>u, <2>1, <2>2, <2>4, <3>1, PlacesAreNumbers DEF InFlight
  <2> QED
    BY <2>3, <2>4
<1> QED
  BY <1>1, <1>2 DEF ParserThread, ParserStep

\* What the steps of the main thread leave to the threads: the tokens and the tree always,
\* the queues but for pills, and the threads where they are once the boot is given up.
LEMMA MainLeaves ==
  ASSUME MainStep \/ Signal \/ ScanThrows \/ EngineThread \/ Query \/ Gone
  PROVE  /\ UNCHANGED <<unseen, path, unread, words, tree, tokensIndexed, promise>>
         /\ \/ dirQueue' = dirQueue
            \/ GivenUp /\ dirQueue' = Append(dirQueue, Empty)
         /\ \/ lineQueue' = lineQueue
            \/ mainPc = "undoPills" /\ lineQueue' = Append(lineQueue, LinePill)
         /\ parserQueue' = parserQueue \/ parserQueue' = Append(parserQueue, Empty)
         /\ GivenUp => GivenUp' /\ UNCHANGED <<readerPc, coordPc, parserPc, workerPc>>
         /\ GivenUp' /\ ~GivenUp => UNCHANGED <<readerPc, coordPc, parserPc, workerPc>>
  <1> USE DEF channelVars, readerVars, lexerVars, parserVars, engineVars, kernalVars, vars,
              coordVars, workerVars, OthersUnchanged, PushDir, PushLine, PushToken, Main, GivenUp,
              Stopping
  <1>1. CASE InitAll \/ StartStore \/ StartReader
    BY <1>1 DEF InitAll, StartStore, StartReader, ReaderOnStart
  <1>2. CASE StartLexer
    BY <1>2 DEF StartLexer, LexerPrepare, SpawnWorker, SpawnCoordinator, LexerStopRunning
  <1>3. CASE UndoRecount \/ UndoPill \/ UndoJoin
    BY <1>3 DEF UndoRecount, UndoPill, UndoJoin, LexerRecount
  <1>4. CASE UndoClose
    BY <1>4 DEF UndoClose, CloseBy
  <1>5. CASE StartParser \/ AwaitIndexing \/ StartEngine \/ Serve
    BY <1>5 DEF StartParser, AwaitIndexing, StartEngine, Serve, ParserOnStart, StartFails
  <1>6. CASE StopEngine \/ StopReader \/ StopStore
    BY <1>6 DEF StopEngine, StopReader, StopStore, SkipStop, BeginStop, MainKeeps, ReaderOnStop
  <1>7. CASE StopParser
    BY <1>7 DEF StopParser, SkipStop, BeginStop, MainKeeps, ParserStopRunning
  <1>8. CASE StopLexer
    BY <1>8 DEF StopLexer, SkipStop, BeginStop, MainKeeps, LexerStopRunning
  <1>9. CASE StopLexerClose
    BY <1>9 DEF StopLexerClose, CloseBy, MainKeeps
  <1>10. CASE Signal \/ ScanThrows \/ EngineThread \/ Query \/ Gone
    BY <1>10 DEF Signal, ScanThrows, EngineThread, Query, Gone
  <1> QED BY <1>1, <1>2, <1>3, <1>4, <1>5, <1>6, <1>7, <1>8, <1>9, <1>10 DEF MainStep

\* The main thread only ever adds pills to the queues.
LEMMA MainMoves ==
  ASSUME TypeOK, MainStep \/ Signal \/ ScanThrows \/ EngineThread \/ Query \/ Gone
  PROVE  InFlight' = InFlight /\ tokensIndexed' = tokensIndexed /\ promise' = promise
<1>t. /\ dirQueue \in Seq(Entries \cup {Empty}) /\ lineQueue \in Seq(Line \cup {LinePill})
      /\ parserQueue \in Seq(Tokens \cup {Empty})
  BY DEF TypeOK, ChannelsTypeOK
<1>0. Cardinality(InFile(Empty)) = 0 /\ Cardinality(InLine(LinePill.line)) = 0
  BY Places, FS_EmptySet
<1>u. /\ UNCHANGED <<unseen, path, unread, words, tokensIndexed, promise>>
      /\ dirQueue' = dirQueue \/ dirQueue' = Append(dirQueue, Empty)
      /\ lineQueue' = lineQueue \/ lineQueue' = Append(lineQueue, LinePill)
      /\ parserQueue' = parserQueue \/ parserQueue' = Append(parserQueue, Empty)
  BY MainLeaves
<1>1. Listed' = Listed
  BY <1>0, <1>u, <1>t, PathPushed, PlacesLeftAlone, PlacesAreNumbers
<1>2. Read' = Read
  BY <1>0, <1>u, <1>t, LinePushed, PlacesLeftAlone, PlacesAreNumbers
<1>3. Emitted' = Emitted
  BY <1>u, <1>t, TokenPushed, PlacesLeftAlone, PlacesAreNumbers
<1>4. Unlisted' = Unlisted /\ InHand' = InHand /\ Unread' = Unread /\ InWork' = InWork
  BY <1>u, PlacesLeftAlone
<1> QED
  BY <1>1, <1>2, <1>3, <1>4, <1>u DEF InFlight

-----------------------------------------------------------------------------
(* The invariant is kept, and what it says at the end of the stream. *)

\* Onward is kept: a flag falls, and a start fails, only when the boot is given up.
LEMMA OnwardKept ==
  ASSUME KernalInv, Onward, Next
  PROVE  Onward'
<1>k. /\ mainPc = "startParser" => parserPc = "none"
      /\ mainPc \in {"startStore", "startReader", "startLexer", "spawn"} => coordPc = "none"
  <2>1. "Lexer" \in Subsystems
    BY DEF Subsystems
  <2> QED
    BY <2>1 DEF KernalInv, BootPhases, Lifecycle, ThreadsFollowState, NotStarted
<1>1. CASE MainStep \/ Signal \/ ScanThrows \/ EngineThread \/ Query \/ Gone
  <2>1. /\ promise' = promise
        /\ GivenUp => GivenUp'
        /\ GivenUp' => UNCHANGED <<readerPc, coordPc, parserPc>>
    BY <1>1, MainLeaves
  <2>2. CASE GivenUp'
    BY <2>1, <2>2 DEF Onward, GivenUp, Stopping
  <2>3. CASE ~GivenUp'
    <3> USE <2>3 DEF GivenUp, Stopping, Main, OthersUnchanged, channelVars, readerVars,
                     lexerVars, parserVars, engineVars, kernalVars, coordVars, workerVars, vars
    <3>1. CASE InitAll \/ StartStore
      BY <3>1 DEF Onward, InitAll, StartStore
    <3>2. CASE StartReader
      BY <3>2 DEF Onward, StartReader, ReaderOnStart
    <3>3. CASE StartLexer
      BY <3>3, <1>k DEF Onward, StartLexer, LexerPrepare, SpawnWorker, SpawnCoordinator
    <3>4. CASE StartParser
      BY <3>4, <1>k DEF Onward, StartParser, ParserOnStart, StartFails
    <3>5. CASE AwaitIndexing \/ StartEngine \/ Serve
      BY <3>5 DEF Onward, AwaitIndexing, StartEngine, Serve, StartFails
    <3>6. CASE UndoRecount \/ UndoPill \/ UndoJoin \/ UndoClose
      BY <3>6 DEF UndoRecount, UndoPill, UndoJoin, UndoClose, CloseBy
    <3>7. CASE StopEngine \/ StopParser \/ StopLexer
      BY <3>7 DEF StopEngine, StopParser, StopLexer, SkipStop, BeginStop
    <3>8. CASE StopLexerClose \/ StopReader \/ StopStore
      BY <3>8 DEF StopLexerClose, CloseBy, StopReader, StopStore, SkipStop, BeginStop
    <3>9. CASE Signal \/ ScanThrows \/ EngineThread \/ Query \/ Gone
      BY <3>9 DEF Onward, Signal, ScanThrows, EngineThread, Query, Gone, Alive
    <3> QED
      BY <1>1, <3>1, <3>2, <3>3, <3>4, <3>5, <3>6, <3>7, <3>8, <3>9 DEF MainStep
  <2> QED
    BY <2>2, <2>3
<1>2. CASE Reader
  BY <1>2 DEF Onward, Reader, ReaderStep, ReaderScan, ReaderPush, ReaderClose, lexerVars, parserVars,
              kernalVars, GivenUp
<1>3. CASE Coordinator
  BY <1>3 DEF Onward, Coordinator, CoordStep, CoordCheck, CoordPop, CoordRead, CoordPush, CoordPill,
              readerVars, parserVars, kernalVars, GivenUp
<1>4. CASE \E w \in Workers : Worker(w)
  BY <1>4 DEF Onward, Worker, WorkerStep, readerVars, coordVars, parserVars, kernalVars, GivenUp
<1>5. CASE ParserThread
  BY <1>5 DEF Onward, ParserThread, ParserStep, ParserCheck, ParserPop, ParserSettle, readerVars,
              lexerVars, kernalVars, GivenUp
<1> QED
  BY <1>1, <1>2, <1>3, <1>4, <1>5 DEF Next

\* PathsEnd is kept: the reader alone pushes to dirQueue, files first and then its pill,
\* and the coordinator goes on to its own pills when it has taken that one.
LEMMA PathsEndKept ==
  ASSUME KernalInv, Onward, PathsEnd, Next
  PROVE  PathsEnd'
<1>t. /\ dirQueue \in Seq(Entries \cup {Empty}) /\ unseen \subseteq Entries
      /\ Regular \subseteq Entries /\ Empty \notin Entries /\ Len(dirQueue) \in Nat
  BY CorpusAssumption, LenProperties DEF KernalInv, TypeOK, ChannelsTypeOK, ReaderTypeOK
<1>p. \A p \in Entries \cup {Empty} :
        /\ Len(Append(dirQueue, p)) = Len(dirQueue) + 1
        /\ \A i \in 1 .. Len(dirQueue) : Append(dirQueue, p)[i] = dirQueue[i]
        /\ Append(dirQueue, p)[Len(dirQueue) + 1] = p
        /\ \A i \in 1 .. Len(Append(dirQueue, p)) : i \in 1 .. Len(dirQueue) \/ i = Len(dirQueue) + 1
  BY <1>t, PushSeq
<1>1. CASE MainStep \/ Signal \/ ScanThrows \/ EngineThread \/ Query \/ Gone
  <2>1. /\ UNCHANGED <<unseen, path>>
        /\ \/ dirQueue' = dirQueue
           \/ GivenUp /\ dirQueue' = Append(dirQueue, Empty)
        /\ GivenUp => GivenUp'
        /\ GivenUp' => UNCHANGED <<readerPc, coordPc>>
    BY <1>1, MainLeaves
  <2>2. \A i \in 1 .. Len(dirQueue') : dirQueue'[i] \in Regular \cup {Empty}
    BY <1>p, <2>1 DEF PathsEnd
  <2>3. CASE GivenUp'
    BY <2>1, <2>2, <2>3 DEF PathsEnd
  <2>4. CASE ~GivenUp'
    <3>1. /\ readerPc' = readerPc \/ (readerPc = "none" /\ readerPc' = "scan")
          /\ coordPc' = coordPc \/ coordPc' = "check"
      <4> USE <2>4 DEF GivenUp, Stopping, Main, OthersUnchanged, channelVars, readerVars,
                       lexerVars, parserVars, engineVars, kernalVars, coordVars, workerVars, vars
      <4>1. CASE InitAll \/ StartStore \/ StartReader \/ StartLexer
        BY <4>1 DEF Onward, InitAll, StartStore, StartReader, StartLexer, ReaderOnStart,
                    LexerPrepare, SpawnWorker, SpawnCoordinator
      <4>2. CASE StartParser \/ AwaitIndexing \/ StartEngine \/ Serve
        BY <4>2 DEF StartParser, AwaitIndexing, StartEngine, Serve, StartFails
      <4>3. CASE UndoRecount \/ UndoPill \/ UndoJoin \/ UndoClose
        BY <4>3 DEF UndoRecount, UndoPill, UndoJoin, UndoClose, CloseBy
      <4>4. CASE StopEngine \/ StopParser \/ StopLexer
        BY <4>4 DEF StopEngine, StopParser, StopLexer, SkipStop, BeginStop
      <4>5. CASE StopLexerClose \/ StopReader \/ StopStore
        BY <4>5 DEF StopLexerClose, CloseBy, StopReader, StopStore, SkipStop, BeginStop
      <4>6. CASE Signal \/ ScanThrows \/ EngineThread \/ Query \/ Gone
        BY <4>6 DEF Signal, ScanThrows, EngineThread, Query, Gone
      <4> QED
        BY <1>1, <4>1, <4>2, <4>3, <4>4, <4>5, <4>6 DEF MainStep
    <3>2. ~GivenUp /\ dirQueue' = dirQueue
      BY <2>1, <2>4
    <3> QED
      BY <2>1, <2>2, <2>4, <3>1, <3>2 DEF PathsEnd
  <2> QED
    BY <2>3, <2>4
<1>2. CASE Reader
  <2>1. UNCHANGED <<mainPc, coordPc>> /\ (GivenUp' <=> GivenUp)
    BY <1>2 DEF Reader, kernalVars, lexerVars, coordVars, GivenUp
  <2>2. readerPc # "done"
    BY <1>2 DEF Reader, ReaderStep, ReaderScan, ReaderPush, ReaderClose
  <2>3. CASE ReaderScan
    BY <1>t, <2>1, <2>2, <2>3 DEF ReaderScan, channelVars, PathsEnd, Onward
  <2>4. CASE ReaderPush
    <3>1. path \in Regular /\ dirQueue' = Append(dirQueue, path) /\ readerPc' = "scan" /\ path' = Empty
      BY <2>4 DEF ReaderPush, PushDir, PathsEnd
    <3>2. /\ \A i \in 1 .. Len(dirQueue') : dirQueue'[i] \in Regular \cup {Empty}
          /\ ~GivenUp => \A i \in 1 .. Len(dirQueue') : dirQueue'[i] # Empty
      BY <1>p, <1>t, <2>2, <3>1 DEF PathsEnd
    <3> QED
      BY <2>1, <2>2, <3>1, <3>2 DEF PathsEnd
  <2>5. CASE ReaderClose
    <3>1. /\ dirQueue' = Append(dirQueue, Empty) /\ readerPc = "close" /\ readerPc' = "done"
          /\ UNCHANGED <<unseen, path>>
      BY <2>5 DEF ReaderClose, PushDir
    <3>2. /\ \A i \in 1 .. Len(dirQueue') : dirQueue'[i] \in Regular \cup {Empty}
          /\ ~GivenUp => \A i \in 1 .. Len(dirQueue') : dirQueue'[i] = Empty => i = Len(dirQueue')
      BY <1>p, <1>t, <2>2, <3>1 DEF PathsEnd
    <3> QED
      BY <2>1, <3>1, <3>2 DEF PathsEnd
  <2> QED
    BY <1>2, <2>3, <2>4, <2>5 DEF Reader, ReaderStep
<1>3. CASE Coordinator
  <2>1. UNCHANGED <<mainPc, readerPc, unseen, path>> /\ (GivenUp' <=> GivenUp)
    BY <1>3 DEF Coordinator, kernalVars, readerVars, GivenUp
  <2>2. CASE CoordPop
    <3>1. /\ dirQueue # <<>> /\ dirQueue' = Tail(dirQueue) /\ coordPc = "pop"
          /\ coordPc' \in {"pills", "done"} => Head(dirQueue) = Empty
      BY <2>2 DEF CoordPop
    <3>2. /\ Head(dirQueue) = dirQueue[1] /\ Len(dirQueue) \in Nat \ {0}
          /\ dirQueue' \in Seq(Entries \cup {Empty}) /\ Len(dirQueue') = Len(dirQueue) - 1
          /\ \A i \in 1 .. Len(dirQueue') : dirQueue'[i] = dirQueue[i + 1]
      BY <1>t, <3>1, PopSeq
    <3>3. \A i \in 1 .. Len(dirQueue') : i + 1 \in 1 .. Len(dirQueue)
      BY <3>2
    <3>4. \A i \in 1 .. Len(dirQueue') : dirQueue'[i] \in Regular \cup {Empty}
      BY <3>2, <3>3 DEF PathsEnd
    <3>5. ASSUME ~GivenUp
          PROVE  /\ \A i \in 1 .. Len(dirQueue') :
                      dirQueue'[i] = Empty => i = Len(dirQueue') /\ readerPc = "done"
                 /\ coordPc' \in {"pills", "done"} => dirQueue' = <<>> /\ readerPc = "done"
      <4>1. \A i \in 1 .. Len(dirQueue') :
              dirQueue'[i] = Empty => i = Len(dirQueue') /\ readerPc = "done"
        BY <3>2, <3>3, <3>5 DEF PathsEnd
      <4>2. ASSUME Head(dirQueue) = Empty PROVE dirQueue' = <<>> /\ readerPc = "done"
        <5>1. Len(dirQueue) = 1 /\ readerPc = "done"
          BY <3>2, <3>5, <4>2 DEF PathsEnd
        <5> QED
          BY <3>2, <5>1, EmptySeq
      <4> QED
        BY <3>1, <4>1, <4>2
    <3> QED
      BY <2>1, <3>4, <3>5 DEF PathsEnd
  <2>3. CASE CoordCheck \/ CoordRead \/ CoordPush \/ CoordPill
    BY <1>3, <2>1, <2>3 DEF CoordCheck, CoordRead, CoordPush, CoordPill, channelVars, PathsEnd, Onward
  <2> QED
    BY <1>3, <2>2, <2>3 DEF Coordinator, CoordStep
<1>4. CASE (\E w \in Workers : Worker(w)) \/ ParserThread
  <2>1. UNCHANGED <<mainPc, readerPc, unseen, path, coordPc, dirQueue>>
    BY <1>4 DEF Worker, WorkerStep, WorkerCheck, WorkerPop, WorkerEmit, WorkerLeave, WorkerClose,
                WorkerClosing, ParserThread, ParserStep, ParserCheck, ParserPop, ParserSettle,
                channelVars, kernalVars, readerVars, lexerVars, coordVars
  <2> QED
    BY <2>1 DEF PathsEnd, GivenUp
<1> QED
  BY <1>1, <1>2, <1>3, <1>4 DEF Next

\* LinesEnd is kept: while the Lexer runs a worker leaves by a pill only, the coordinator
\* pushes no line once it has pushed a pill, and there is no line behind a pill.
LEMMA LinesEndKept ==
  ASSUME KernalInv, LinesEnd, Next
  PROVE  LinesEnd'
<1>t. /\ lineQueue \in Seq(Line \cup {LinePill}) /\ LinePill \in Line \cup {LinePill}
      /\ words \in [Workers -> Seq(Words)] /\ Len(lineQueue) \in Nat
      /\ workerPc \in [Workers -> {"none", "check", "pop", "emit", "leave",
                                   "close", "closing", "done"}]
  BY LenProperties DEF KernalInv, TypeOK, ChannelsTypeOK, LexerTypeOK
<1>e. \A w \in Workers : w \in Emitting <=> workerPc[w] \in {"check", "pop", "emit"}
  BY DEF Emitting, MayEmit
<1>p. /\ \A i \in 1 .. Len(lineQueue) : Append(lineQueue, LinePill)[i] = lineQueue[i]
      /\ Append(lineQueue, LinePill)[Len(lineQueue) + 1] = LinePill
      /\ \A i \in 1 .. Len(Append(lineQueue, LinePill)) :
           i \in 1 .. Len(lineQueue) \/ i = Len(lineQueue) + 1
  BY <1>t, PushSeq
<1>1. CASE MainStep \/ Signal \/ ScanThrows \/ EngineThread \/ Query \/ Gone
  <2>1. /\ UNCHANGED <<unread, words>>
        /\ lineQueue' = lineQueue \/ (mainPc = "undoPills" /\ lineQueue' = Append(lineQueue, LinePill))
        /\ GivenUp => UNCHANGED <<coordPc, workerPc>>
        /\ GivenUp' /\ ~GivenUp => UNCHANGED <<coordPc, workerPc>>
    BY <1>1, MainLeaves
  <2>2. \/ UNCHANGED <<coordPc, workerPc>> /\ (lexerRunning' => lexerRunning \/ coordPc = "none")
        \/ /\ coordPc = "none" /\ coordPc' = "none" 
           /\ \E w \in Workers : workerPc[w] = "none" /\ workerPc' = [workerPc EXCEPT ![w] = "check"]
        \/ /\ coordPc = "none" /\ coordPc' = "check" /\ Spawned = Workers
           /\ UNCHANGED <<workerPc, lexerRunning, lineQueue>>
    <3>k. mainPc \in {"startLexer", "spawn"} => coordPc = "none"
      <4>1. "Lexer" \in Subsystems
        BY DEF Subsystems
      <4> QED
        BY <4>1 DEF KernalInv, Lifecycle, ThreadsFollowState, NotStarted
    <3> USE <3>k DEF Main, OthersUnchanged, channelVars, readerVars, lexerVars, parserVars, engineVars,
                     kernalVars, coordVars, workerVars, vars
    <3>1. CASE InitAll \/ StartStore \/ StartReader
      BY <3>1 DEF InitAll, StartStore, StartReader
    <3>2. CASE StartLexer
      BY <3>2 DEF StartLexer, LexerPrepare, SpawnWorker, SpawnCoordinator, LexerStopRunning
    <3>3. CASE StartParser \/ AwaitIndexing \/ StartEngine \/ Serve
      BY <3>3 DEF StartParser, AwaitIndexing, StartEngine, Serve
    <3>4. CASE UndoRecount \/ UndoPill \/ UndoJoin \/ UndoClose
      BY <3>4 DEF UndoRecount, UndoPill, UndoJoin, UndoClose, CloseBy, LexerRecount
    <3>5. CASE StopEngine \/ StopParser \/ StopLexer
      BY <3>5 DEF StopEngine, StopParser, StopLexer, LexerStopRunning
    <3>6. CASE StopLexerClose \/ StopReader \/ StopStore
      BY <3>6 DEF StopLexerClose, CloseBy, StopReader, StopStore
    <3>7. CASE Signal \/ ScanThrows \/ EngineThread \/ Query \/ Gone
      BY <3>7 DEF Signal, ScanThrows, EngineThread, Query, Gone
    <3> QED
      BY <1>1, <3>1, <3>2, <3>3, <3>4, <3>5, <3>6, <3>7 DEF MainStep
  <2>3. CASE UNCHANGED <<coordPc, workerPc>> /\ (lexerRunning' => lexerRunning \/ coordPc = "none")
    <3>1. Emitting' = Emitting
      BY <2>3 DEF Emitting, MayEmit
    <3>2. \/ lineQueue' = lineQueue
          \/ lineQueue' = Append(lineQueue, LinePill)
      BY <2>1
    <3> QED
      BY <1>p, <2>1, <2>3, <3>1, <3>2 DEF LinesEnd
  <2>4. ASSUME coordPc = "none", coordPc' = "none",
               NEW w \in Workers, workerPc[w] = "none", workerPc' = [workerPc EXCEPT ![w] = "check"]
        PROVE  LinesEnd'
    BY <1>t, <2>1, <2>4 DEF LinesEnd
  <2>5. CASE /\ coordPc = "none" /\ coordPc' = "check" /\ Spawned = Workers
             /\ UNCHANGED <<workerPc, lexerRunning, lineQueue>>
    <3>1. lexerRunning => Emitting' = Workers
      BY <2>5 DEF Emitting, MayEmit, KernalInv, NoPillYet, Spawned
    <3> QED
      BY <2>1, <2>5, <3>1 DEF LinesEnd
  <2> QED
    BY <2>2, <2>3, <2>4, <2>5
<1>2. CASE Coordinator
  <2>1. UNCHANGED <<lexerRunning, workerPc, words>> /\ Emitting' = Emitting
    BY <1>2 DEF Coordinator, CoordStep, workerVars, Emitting, MayEmit
  <2>2. CASE CoordCheck \/ CoordPop \/ CoordRead
    BY <2>1, <2>2 DEF CoordCheck, CoordPop, CoordRead, channelVars, LinesEnd
  <2>3. CASE CoordPush
    <3>1. lexerRunning => Emitting = Workers
      BY <2>3 DEF CoordPush, KernalInv, NoPillYet, Emitting
    <3> QED
      BY <2>1, <2>3, <3>1 DEF CoordPush, LinesEnd
  <2>4. CASE CoordPill
    <3>1. lineQueue' = lineQueue \/ lineQueue' = Append(lineQueue, LinePill)
      BY <2>4 DEF CoordPill, PushLine
    <3> QED
      BY <1>p, <2>1, <2>4, <3>1 DEF CoordPill, LinesEnd
  <2> QED
    BY <1>2, <2>2, <2>3, <2>4 DEF Coordinator, CoordStep
<1>3. ASSUME NEW w \in Workers, Worker(w) PROVE LinesEnd'
  <2>1. UNCHANGED <<lexerRunning, coordPc, unread>>
    BY <1>3 DEF Worker, WorkerStep, coordVars
  <2>2. \A v \in Workers \ {w} : workerPc'[v] = workerPc[v]
    BY <1>3, WorkerMovesAlone DEF KernalInv
  <2>3. \A v \in Workers : workerPc'[v] # "emit" => words'[v] = <<>>
    <3>1. CASE WorkerCheck(w) \/ WorkerLeave(w) \/ WorkerClose(w) \/ WorkerClosing(w)
      BY <1>t, <3>1 DEF WorkerCheck, WorkerLeave, WorkerClose, WorkerClosing, WorkerGoto, LinesEnd
    <3>2. CASE WorkerPop(w)
      BY <1>t, <3>2 DEF WorkerPop, WorkerGoto, LinesEnd
    <3>3. CASE WorkerEmit(w)
      BY <1>t, <3>3 DEF WorkerEmit, WorkerGoto, LinesEnd
    <3> QED
      BY <1>3, <3>1, <3>2, <3>3 DEF Worker, WorkerStep
  <2>4. ASSUME lexerRunning, coordPc # "none", Emitting' # Workers
        PROVE  \A i \in 1 .. Len(lineQueue') : lineQueue'[i] = LinePill
    <3>e. \A v \in Workers : v \in Emitting' <=> workerPc'[v] \in {"check", "pop", "emit"}
      BY DEF Emitting, MayEmit
    <3>1. CASE WorkerCheck(w) \/ WorkerLeave(w) \/ WorkerClose(w) \/ WorkerClosing(w) \/ WorkerEmit(w)
      <4>1. UNCHANGED lineQueue /\ (w \in Emitting' <=> w \in Emitting)
        BY <1>t, <1>e, <2>4, <3>e, <3>1 DEF WorkerCheck, WorkerLeave, WorkerClose, WorkerClosing,
                                        WorkerEmit, WorkerGoto, channelVars
      <4>2. Emitting' = Emitting
        BY <2>2, <4>1 DEF Emitting, MayEmit
      <4> QED
        BY <2>4, <4>1, <4>2 DEF LinesEnd
    <3>2. CASE WorkerPop(w)
      <4>1. /\ workerPc[w] = "pop" /\ lineQueue # <<>> /\ lineQueue' = Tail(lineQueue)
            /\ Head(lineQueue) # LinePill => workerPc'[w] = "emit"
        BY <1>t, <3>2 DEF WorkerPop, WorkerGoto
      <4>2. /\ Head(lineQueue) = lineQueue[1] /\ Len(lineQueue) \in Nat \ {0}
            /\ Len(lineQueue') = Len(lineQueue) - 1
            /\ \A i \in 1 .. Len(lineQueue') : lineQueue'[i] = lineQueue[i + 1]
        BY <1>t, <4>1, PopSeq
      <4>3. \A i \in 1 .. Len(lineQueue') : i + 1 \in 1 .. Len(lineQueue) /\ 1 < i + 1
        BY <4>2
      <4>4. CASE Head(lineQueue) = LinePill
        <5>1. 1 \in 1 .. Len(lineQueue)
          BY <4>2
        <5>2. coordPc \in {"pills", "done"}
          BY <2>4, <4>2, <4>4, <5>1 DEF KernalInv, NoPillYet
        <5> QED
          BY <2>4, <4>2, <4>3, <4>4, <5>1, <5>2 DEF KernalInv, OnePillPerWorker
      <4>5. CASE Head(lineQueue) # LinePill
        <5>1. Emitting' = Emitting
          BY <2>2, <4>1, <4>5 DEF Emitting, MayEmit
        <5> QED
          BY <2>4, <4>2, <4>3, <5>1 DEF LinesEnd
      <4> QED
        BY <4>4, <4>5
    <3> QED
      BY <1>3, <3>1, <3>2 DEF Worker, WorkerStep
  <2> QED
    BY <2>1, <2>3, <2>4 DEF LinesEnd
<1>4. CASE Reader \/ ParserThread
  <2>1. UNCHANGED <<lineQueue, lexerVars>>
    BY <1>4 DEF Reader, ReaderStep, ReaderScan, ReaderPush, ReaderClose, ParserThread, ParserStep,
                ParserCheck, ParserPop, ParserSettle, channelVars
  <2> QED
    BY <2>1 DEF lexerVars, coordVars, workerVars, LinesEnd, Emitting, MayEmit
<1> QED
  BY <1>1, <1>2, <1>3, <1>4 DEF Next

\* When the Parser has taken the end of the stream, and nobody has given the boot up, no
\* token is left anywhere before it: the worker that closed the queue was the last, so all
\* took a pill, so the coordinator was at its pills, so it had taken the reader's.
LEMMA NothingLeft ==
  ASSUME KernalInv, Onward, PathsEnd, LinesEnd, ~GivenUp, parserPc \in {"settle", "done"}
  PROVE  /\ unseen = {} /\ path = Empty /\ dirQueue = <<>> /\ unread = <<>>
         /\ lineQueue = <<>> /\ (\A w \in Workers : words[w] = <<>>) /\ parserQueue = <<>>
<1>t. TypeOK
  BY DEF KernalInv
<1>1. coordPc # "none" /\ lexerRunning
  BY DEF Onward
<1>2. Fed
  BY <1>t DEF KernalInv, BootPhases, TypeOK, KernalTypeOK, GivenUp
<1>3. Emitting = {}
  BY <1>2 DEF KernalInv, ClosingOrder, OneHolder, ClosedWhenDone, StreamEnded, Counted, Emitting,
              MayEmit
<1>4. Emitting # Workers
  BY <1>3, WorkersAssumption
<1>5. coordPc \in {"pills", "done"}
  BY <1>1, <1>4 DEF KernalInv, NoPillYet, Emitting
<1>6. dirQueue = <<>> /\ unseen = {} /\ path = Empty
  BY <1>5 DEF PathsEnd
<1>7. unread = <<>> /\ \A w \in Workers : words[w] = <<>>
  BY <1>3, <1>5 DEF LinesEnd, Emitting, MayEmit
<1>8. lineQueue = <<>>
  <2>1. /\ lineQueue \in Seq(Line \cup {LinePill}) /\ LinePill \in Line \cup {LinePill}
        /\ pillsDue \in Nat /\ Len(lineQueue) \in Nat
    BY <1>t, LenProperties DEF TypeOK, ChannelsTypeOK, LexerTypeOK
  <2>2. PillsQueued = Cardinality(PillsIn(lineQueue)) /\ PillsQueued \in Nat
    BY <1>t, PillsQueuedCounts
  <2>3. PillsQueued + pillsDue = 0
    BY <1>1, <1>3, <1>5, FS_EmptySet DEF KernalInv, OnePillPerWorker
  <2>4. Cardinality(PillsIn(lineQueue)) = 0
    BY <2>1, <2>2, <2>3
  <2>5. PillsIn(lineQueue) = {}
    <3>1. IsFiniteSet(PillsIn(lineQueue))
      BY <2>1, PillsPushed
    <3> QED
      BY <2>4, <3>1, FS_EmptySet
  <2>6. \A i \in 1 .. Len(lineQueue) : lineQueue[i] = LinePill
    BY <1>1, <1>4 DEF LinesEnd
  <2>7. Len(lineQueue) = 0
    BY <2>1, <2>5, <2>6 DEF PillsIn
  <2> QED
    BY <2>1, <2>7, EmptySeq
<1>9. parserQueue = <<>>
  BY <1>2 DEF KernalInv, ClosingOrder, PillLast
<1> QED
  BY <1>6, <1>7, <1>8, <1>9

\* An empty place holds no token.
LEMMA NoneInFlight ==
  ASSUME path = Empty, dirQueue = <<>>, unread = <<>>, lineQueue = <<>>,
         \A w \in Workers : words[w] = <<>>, parserQueue = <<>>
  PROVE  /\ InHand = 0 /\ Listed = 0 /\ Unread = 0 /\ Read = 0 /\ InWork = 0 /\ Emitted = 0
         /\ unseen = {} => Unlisted = 0
<1>1. InHand = 0
  BY Places, FS_EmptySet DEF InHand
<1>2. Listed = 0 /\ Read = 0 /\ Emitted = 0
  <2>1. /\ Len(dirQueue) = 0 /\ Len(lineQueue) = 0 /\ Len(parserQueue) = 0 /\ 1 .. 0 = {}
    OBVIOUS
  <2>2. Listed = 0
    BY <2>1, CountNone DEF Listed
  <2>3. Read = 0
    BY <2>1, CountNone DEF Read
  <2>4. {i \in 1 .. Len(parserQueue) : parserQueue[i] # Empty} = {}
    BY <2>1
  <2> QED
    BY <2>2, <2>3, <2>4, FS_EmptySet DEF Emitted
<1>3. Unread = 0
  <2>1. InLines(<<>>) = {}
    BY DEF InLines, Occurrences
  <2> QED
    BY <2>1, FS_EmptySet DEF Unread
<1>4. InWork = 0
  <2> DEFINE at == [w \in Workers |-> InLine(words[w])]
  <2>1. \A w \in DOMAIN at : at[w] = {}
    BY Places
  <2>2. Count(at) = 0
    <3> HIDE DEF at
    <3> QED
      BY <2>1, CountNone
  <2> QED
    BY <2>2 DEF InWork
<1>5. unseen = {} => Unlisted = 0
  BY CountNone DEF Unlisted
<1> QED
  BY <1>1, <1>2, <1>3, <1>4, <1>5

-----------------------------------------------------------------------------
(* Where the distinct tokens are. *)

\* The files and the lines that hold a token, and whether a queue holds one of them.
FilesWith(token)  == {entry \in Regular \ Unreadable : HasToken(Corpus[entry], token)}
LinesWith(token)  == {line \in Seq(Words) : \E j \in InLine(line) : Cleaned[line[j]] = token}
QueuedWith(token) == {ilp \in Line \cup {LinePill} : ilp.line \in LinesWith(token)}
Holds(q, T)       == \E i \in 1 .. Len(q) : q[i] \in T

\* A token of the corpus is in the tree or at one of the places on the way to it.
Somewhere(token) ==
  \/ token \in tree
  \/ \E entry \in unseen : entry \in FilesWith(token)
  \/ path \in FilesWith(token)
  \/ Holds(dirQueue, FilesWith(token))
  \/ Holds(unread, LinesWith(token))
  \/ Holds(lineQueue, QueuedWith(token))
  \/ \E w \in Workers : words[w] \in LinesWith(token)
  \/ Holds(parserQueue, {token})

\* A push adds what is pushed.
LEMMA HoldsPushed ==
  ASSUME NEW S, NEW q \in Seq(S), NEW e \in S, NEW T
  PROVE  Holds(Append(q, e), T) <=> Holds(q, T) \/ e \in T
<1>1. /\ Len(q) \in Nat /\ Len(Append(q, e)) = Len(q) + 1
      /\ \A i \in 1 .. Len(q) : Append(q, e)[i] = q[i]
      /\ Append(q, e)[Len(q) + 1] = e
  BY PushSeq, LenProperties
<1>2. \A i : i \in 1 .. Len(Append(q, e)) <=> i \in 1 .. Len(q) \/ i = Len(q) + 1
  BY <1>1
<1> QED
  BY <1>1, <1>2, Zenon DEF Holds

\* A pop takes the first element.
LEMMA HoldsPopped ==
  ASSUME NEW S, NEW q \in Seq(S), q # <<>>, NEW T
  PROVE  Holds(q, T) <=> Head(q) \in T \/ Holds(Tail(q), T)
<1>1. /\ Head(q) = q[1] /\ Len(q) \in Nat \ {0} /\ Len(Tail(q)) = Len(q) - 1
      /\ \A i \in 1 .. Len(Tail(q)) : Tail(q)[i] = q[i + 1]
  BY PopSeq
<1>2. /\ 1 \in 1 .. Len(q)
      /\ \A i \in 1 .. Len(Tail(q)) : i + 1 \in 1 .. Len(q)
      /\ \A j \in 1 .. Len(q) : j = 1 \/ \E i \in 1 .. Len(Tail(q)) : j = i + 1
  <2>1. \A j \in 1 .. Len(q) : j = 1 \/ (j - 1 \in 1 .. Len(Tail(q)) /\ j = (j - 1) + 1)
    BY <1>1
  <2> QED
    BY <1>1, <2>1
<1> QED
  BY <1>1, <1>2, Zenon DEF Holds

\* An empty queue holds nothing.
LEMMA HoldsNone ==
  ASSUME NEW T
  PROVE  ~Holds(<<>>, T)
BY DEF Holds

\* A file holds a token in one of its lines.
LEMMA FileHolds ==
  ASSUME NEW token, NEW entry \in Regular \ Unreadable
  PROVE  entry \in FilesWith(token) <=> Holds(Corpus[entry], LinesWith(token))
<1>1. Corpus[entry] \in Seq(Seq(Words))
  BY CorpusAssumption
<1>2. \A i \in 1 .. Len(Corpus[entry]) : Corpus[entry][i] \in Seq(Words)
  BY <1>1, ElementOfSeq
<1> QED
  BY <1>2 DEF FilesWith, HasToken, Holds, LinesWith

\* A line holds a token in its first word or in the others.
LEMMA LineHolds ==
  ASSUME NEW token \in Tokens, NEW line \in Seq(Words), line # <<>>
  PROVE  line \in LinesWith(token) <=>
           Cleaned[Head(line)] = token \/ Tail(line) \in LinesWith(token)
<1> DEFINE These == {word \in Words : Cleaned[word] = token}
<1>1. ASSUME NEW some \in Seq(Words)
      PROVE  some \in LinesWith(token) <=> Holds(some, These)
  <2>1. \A j \in 1 .. Len(some) : some[j] \in Words
    BY ElementOfSeq
  <2> QED
    BY <2>1 DEF LinesWith, InLine, Holds
<1>2. Tail(line) \in Seq(Words) /\ (Head(line) \in These <=> Cleaned[Head(line)] = token)
  BY PopSeq
<1>3. Holds(line, These) <=> Head(line) \in These \/ Holds(Tail(line), These)
  BY HoldsPopped
<1> QED
  BY <1>1, <1>2, <1>3

\* The pills, an empty path and an empty line hold no token.
LEMMA NoneHeld ==
  ASSUME NEW token \in Tokens
  PROVE  /\ Empty \notin FilesWith(token) /\ <<>> \notin LinesWith(token)
         /\ LinePill \notin QueuedWith(token) /\ Empty # token
<1>1. Empty \notin FilesWith(token) /\ Empty # token
  BY CorpusAssumption DEF FilesWith, Tokens
<1>2. <<>> \notin LinesWith(token)
  BY Places DEF LinesWith
<1>3. LinePill.line = <<>>
  BY DEF LinePill
<1> QED
  BY <1>1, <1>2, <1>3 DEF QueuedWith

-----------------------------------------------------------------------------
(* No step loses a distinct token or makes one up. *)

\* The reader drops an entry only when it is no file.
LEMMA ReaderKeeps ==
  ASSUME TypeOK, PathsEnd, Reader, NEW token \in Tokens
  PROVE  Somewhere(token)' <=> Somewhere(token)
<1>t. /\ dirQueue \in Seq(Entries \cup {Empty}) /\ path \in Entries \cup {Empty}
      /\ Empty \in Entries \cup {Empty}
  BY DEF TypeOK, ReaderTypeOK, ChannelsTypeOK
<1>f. \A entry : entry \in FilesWith(token) => entry \in Regular
  BY DEF FilesWith
<1>u. UNCHANGED <<tree, unread, lineQueue, words, parserQueue>>
  BY DEF Reader, ReaderStep, ReaderScan, ReaderPush, ReaderClose, parserVars, lexerVars, coordVars,
         workerVars, channelVars
<1>s. (\/ \E entry \in unseen : entry \in FilesWith(token)
       \/ path \in FilesWith(token)
       \/ Holds(dirQueue, FilesWith(token)))'
      <=> \/ \E entry \in unseen : entry \in FilesWith(token)
          \/ path \in FilesWith(token)
          \/ Holds(dirQueue, FilesWith(token))
  <2>1. CASE ReaderScan
    BY <1>f, <2>1, NoneHeld DEF ReaderScan, channelVars, PathsEnd
  <2>2. CASE ReaderPush
    <3>1. Holds(dirQueue', FilesWith(token)) <=> Holds(dirQueue, FilesWith(token)) \/ path \in FilesWith(token)
      BY <1>t, <2>2, HoldsPushed DEF ReaderPush, PushDir
    <3> QED
      BY <2>2, <3>1, NoneHeld DEF ReaderPush
  <2>3. CASE ReaderClose
    <3>1. Holds(dirQueue', FilesWith(token)) <=> Holds(dirQueue, FilesWith(token)) \/ Empty \in FilesWith(token)
      BY <1>t, <2>3, HoldsPushed DEF ReaderClose, PushDir
    <3> QED
      BY <2>3, <3>1, NoneHeld DEF ReaderClose
  <2> QED
    BY <2>1, <2>2, <2>3 DEF Reader, ReaderStep
<1> QED
  BY <1>s, <1>u DEF Somewhere

\* The coordinator closes a file half read only when it is told to stop.
LEMMA CoordinatorKeeps ==
  ASSUME TypeOK, PathsEnd, LinesEnd, Coordinator, Vanishing = {}, lexerRunning,
         NEW token \in Tokens
  PROVE  Somewhere(token)' <=> Somewhere(token)
<1>t. /\ unread \in Seq(Seq(Words)) /\ dirQueue \in Seq(Entries \cup {Empty})
      /\ lineQueue \in Seq(Line \cup {LinePill}) /\ LinePill \in Line \cup {LinePill}
  BY DEF TypeOK, LexerTypeOK, ChannelsTypeOK
<1>u. UNCHANGED <<tree, unseen, path, words, parserQueue>>
  BY DEF Coordinator, CoordStep, CoordCheck, CoordPop, CoordRead, CoordPush, CoordPill, parserVars,
         readerVars, workerVars, channelVars
<1>s. (\/ Holds(dirQueue, FilesWith(token))
       \/ Holds(unread, LinesWith(token))
       \/ Holds(lineQueue, QueuedWith(token)))'
      <=> \/ Holds(dirQueue, FilesWith(token))
          \/ Holds(unread, LinesWith(token))
          \/ Holds(lineQueue, QueuedWith(token))
  <2>1. CASE CoordCheck \/ CoordRead
    BY <2>1 DEF CoordCheck, CoordRead, channelVars
  <2>2. CASE CoordPop
    <3> DEFINE popped == Head(dirQueue)
    <3>1. /\ dirQueue # <<>> /\ dirQueue' = Tail(dirQueue) /\ lineQueue' = lineQueue
          /\ coordPc = "pop"
          /\ \/ popped \in Unreadable \cup {Empty} /\ unread' = unread
             \/ popped \notin Unreadable \cup {Empty} /\ unread' = Corpus[popped]
      BY <2>2 DEF CoordPop
    <3>2. Holds(dirQueue, FilesWith(token)) <=>
            popped \in FilesWith(token) \/ Holds(dirQueue', FilesWith(token))
      BY <1>t, <3>1, HoldsPopped
    <3>3. unread = <<>> /\ ~Holds(unread, LinesWith(token))
      BY <3>1, HoldsNone DEF LinesEnd
    <3>4. popped \in Regular \cup {Empty}
      <4>1. popped = dirQueue[1] /\ 1 \in 1 .. Len(dirQueue)
        BY <1>t, <3>1, PopSeq
      <4> QED
        BY <4>1 DEF PathsEnd
    <3>5. CASE popped \in Unreadable \cup {Empty} /\ unread' = unread
      <4>1. popped \notin FilesWith(token)
        BY <3>5, NoneHeld DEF FilesWith
      <4> QED
        BY <3>1, <3>2, <3>5, <4>1
    <3>6. CASE popped \notin Unreadable \cup {Empty} /\ unread' = Corpus[popped]
      <4>1. popped \in Regular \ Unreadable
        BY <3>4, <3>6
      <4>2. popped \in FilesWith(token) <=> Holds(unread', LinesWith(token))
        BY <3>6, <4>1, FileHolds
      <4> QED
        BY <3>1, <3>2, <3>3, <4>2
    <3> QED
      BY <3>1, <3>5, <3>6
  <2>3. CASE CoordPush
    <3> DEFINE ilp == [filepath |-> file, line |-> Head(unread)]
    <3>1. /\ lineQueue' = Append(lineQueue, ilp) /\ unread' = Tail(unread) /\ unread # <<>>
          /\ file \in Entries /\ dirQueue' = dirQueue
      BY <2>3 DEF CoordPush, PushLine, TypeOK, LexerTypeOK
    <3>2. Head(unread) \in Seq(Words)
      BY <1>t, <3>1, PopSeq
    <3>3. ilp \in Line \cup {LinePill} /\ ilp.line = Head(unread)
      BY <3>1, <3>2 DEF Line
    <3>4. ilp \in QueuedWith(token) <=> Head(unread) \in LinesWith(token)
      BY <3>3 DEF QueuedWith
    <3>5. Holds(unread, LinesWith(token)) <=>
            Head(unread) \in LinesWith(token) \/ Holds(unread', LinesWith(token))
      BY <1>t, <3>1, HoldsPopped
    <3> HIDE DEF ilp
    <3>6. Holds(lineQueue', QueuedWith(token)) <=>
            Holds(lineQueue, QueuedWith(token)) \/ ilp \in QueuedWith(token)
      BY <1>t, <3>1, <3>3, HoldsPushed
    <3> QED
      BY <3>1, <3>4, <3>5, <3>6
  <2>4. CASE CoordPill
    <3>1. UNCHANGED <<dirQueue, unread>> /\ lineQueue' \in {lineQueue, Append(lineQueue, LinePill)}
      BY <2>4 DEF CoordPill, PushLine
    <3>2. Holds(Append(lineQueue, LinePill), QueuedWith(token)) <=>
            Holds(lineQueue, QueuedWith(token)) \/ LinePill \in QueuedWith(token)
      BY <1>t, HoldsPushed
    <3> QED
      BY <3>1, <3>2, NoneHeld
  <2> QED
    BY <2>1, <2>2, <2>3, <2>4 DEF Coordinator, CoordStep
<1> QED
  BY <1>s, <1>u DEF Somewhere

\* A worker takes a line when it has finished the last one, and emits every word but the
\* stop words.
LEMMA WorkerKeeps ==
  ASSUME TypeOK, LinesEnd, NEW w \in Workers, Worker(w), NEW token \in Tokens
  PROVE  Somewhere(token)' <=> Somewhere(token)
<1>t. /\ words \in [Workers -> Seq(Words)] /\ parserQueue \in Seq(Tokens \cup {Empty})
      /\ lineQueue \in Seq(Line \cup {LinePill}) /\ Empty \in Tokens \cup {Empty}
  BY DEF TypeOK, LexerTypeOK, ChannelsTypeOK
<1>u. UNCHANGED <<tree, unseen, path, dirQueue, unread>>
  BY DEF Worker, WorkerStep, WorkerCheck, WorkerPop, WorkerEmit, WorkerLeave, WorkerClose,
         WorkerClosing, parserVars, readerVars, coordVars, channelVars
<1>v. \A v \in Workers \ {w} : words'[v] = words[v]
  BY <1>t DEF Worker, WorkerStep, WorkerCheck, WorkerPop, WorkerEmit, WorkerLeave, WorkerClose,
              WorkerClosing
<1>s. (\/ Holds(lineQueue, QueuedWith(token))
       \/ words[w] \in LinesWith(token)
       \/ Holds(parserQueue, {token}))'
      <=> \/ Holds(lineQueue, QueuedWith(token))
          \/ words[w] \in LinesWith(token)
          \/ Holds(parserQueue, {token})
  <2>1. CASE WorkerCheck(w) \/ WorkerLeave(w) \/ WorkerClose(w)
    BY <2>1 DEF WorkerCheck, WorkerLeave, WorkerClose, channelVars
  <2>2. CASE WorkerPop(w)
    <3> DEFINE ilp == Head(lineQueue)
    <3>1. /\ lineQueue # <<>> /\ lineQueue' = Tail(lineQueue) /\ parserQueue' = parserQueue
          /\ words[w] = <<>>
          /\ IF ilp = LinePill THEN words' = words ELSE words'[w] = ilp.line
      BY <1>t, <2>2 DEF WorkerPop, LinesEnd
    <3>2. ilp \in Line \cup {LinePill}
      BY <1>t, <3>1, PopSeq
    <3>3. Holds(lineQueue, QueuedWith(token)) <=>
            ilp \in QueuedWith(token) \/ Holds(lineQueue', QueuedWith(token))
      BY <1>t, <3>1, HoldsPopped
    <3>4. ilp \in QueuedWith(token) <=> words'[w] \in LinesWith(token)
      BY <3>1, <3>2, NoneHeld DEF QueuedWith
    <3> QED
      BY <3>1, <3>3, <3>4, NoneHeld
  <2>3. CASE WorkerEmit(w)
    <3>1. CASE words[w] = <<>>
      BY <2>3, <3>1 DEF WorkerEmit
    <3>2. CASE words[w] # <<>>
      <4> DEFINE line    == words[w]
                 emitted == Cleaned[Head(line)]
      <4>1. line \in Seq(Words) /\ line # <<>> /\ Head(line) \in Words
        BY <1>t, <3>2, PopSeq
      <4>2. /\ words'[w] = Tail(line) /\ lineQueue' = lineQueue
            /\ IF emitted \in StopWords \cup {Empty}
                 THEN parserQueue' = parserQueue
                 ELSE parserQueue' = Append(parserQueue, emitted)
        BY <1>t, <2>3, <3>2 DEF WorkerEmit, PushToken
      <4>3. emitted \in Tokens <=> emitted \notin StopWords \cup {Empty}
        BY <4>1 DEF Tokens
      <4>4. line \in LinesWith(token) <=> emitted = token \/ words'[w] \in LinesWith(token)
        BY <4>1, <4>2, LineHolds
      <4> HIDE DEF emitted
      <4>5. Holds(parserQueue', {token}) <=> Holds(parserQueue, {token}) \/ emitted = token
        <5>1. CASE emitted \in Tokens
          <6>1. Holds(Append(parserQueue, emitted), {token}) <=>
                  Holds(parserQueue, {token}) \/ emitted \in {token}
            BY <1>t, <5>1, HoldsPushed
          <6>2. parserQueue' = Append(parserQueue, emitted)
            BY <4>2, <4>3, <5>1
          <6> QED
            BY <6>1, <6>2
        <5>2. CASE emitted \notin Tokens
          BY <4>2, <4>3, <5>2
        <5> QED
          BY <5>1, <5>2
      <4> QED
        BY <4>2, <4>4, <4>5
    <3> QED
      BY <3>1, <3>2
  <2>4. CASE WorkerClosing(w)
    <3>1. Holds(parserQueue', {token}) <=> Holds(parserQueue, {token}) \/ Empty \in {token}
      BY <1>t, <2>4, HoldsPushed DEF WorkerClosing, PushToken
    <3> QED
      BY <2>4, <3>1, NoneHeld DEF WorkerClosing
  <2> QED
    BY <2>1, <2>2, <2>3, <2>4 DEF Worker, WorkerStep
<1> QED
  BY <1>s, <1>u, <1>v DEF Somewhere

\* The Parser puts what it takes into the tree.
LEMMA ParserKeeps ==
  ASSUME TypeOK, ParserThread, NEW token \in Tokens
  PROVE  Somewhere(token)' <=> Somewhere(token)
<1>t. parserQueue \in Seq(Tokens \cup {Empty})
  BY DEF TypeOK, ChannelsTypeOK
<1>u. UNCHANGED <<unseen, path, dirQueue, unread, lineQueue, words>>
  BY DEF ParserThread, ParserStep, ParserCheck, ParserPop, ParserSettle, readerVars, lexerVars,
         coordVars, workerVars, channelVars
<1>s. (token \in tree \/ Holds(parserQueue, {token}))' <=> token \in tree \/ Holds(parserQueue, {token})
  <2>1. CASE ParserCheck \/ ParserSettle
    BY <2>1 DEF ParserCheck, ParserSettle, channelVars
  <2>2. CASE ParserPop
    <3>1. /\ parserQueue # <<>> /\ parserQueue' = Tail(parserQueue)
          /\ IF Head(parserQueue) = Empty THEN tree' = tree ELSE tree' = tree \cup {Head(parserQueue)}
      BY <2>2 DEF ParserPop
    <3>2. Holds(parserQueue, {token}) <=> Head(parserQueue) \in {token} \/ Holds(parserQueue', {token})
      BY <1>t, <3>1, HoldsPopped
    <3> QED
      BY <3>1, <3>2, NoneHeld
  <2> QED
    BY <2>1, <2>2 DEF ParserThread, ParserStep
<1> QED
  BY <1>s, <1>u DEF Somewhere

\* The main thread, the user and a signal move no token.
LEMMA MainKeepsTokens ==
  ASSUME TypeOK, MainStep \/ Signal \/ ScanThrows \/ EngineThread \/ Query \/ Gone, NEW token \in Tokens
  PROVE  Somewhere(token)' <=> Somewhere(token)
<1>t. /\ dirQueue \in Seq(Entries \cup {Empty}) /\ Empty \in Entries \cup {Empty}
      /\ lineQueue \in Seq(Line \cup {LinePill}) /\ LinePill \in Line \cup {LinePill}
      /\ parserQueue \in Seq(Tokens \cup {Empty}) /\ Empty \in Tokens \cup {Empty}
  BY DEF TypeOK, ChannelsTypeOK
<1>1. /\ UNCHANGED <<unseen, path, unread, words, tree>>
      /\ dirQueue' \in {dirQueue, Append(dirQueue, Empty)}
      /\ lineQueue' \in {lineQueue, Append(lineQueue, LinePill)}
      /\ parserQueue' \in {parserQueue, Append(parserQueue, Empty)}
  BY MainLeaves
<1>2. Holds(dirQueue', FilesWith(token)) <=> Holds(dirQueue, FilesWith(token))
  <2>1. Holds(Append(dirQueue, Empty), FilesWith(token)) <=> Holds(dirQueue, FilesWith(token)) \/ Empty \in FilesWith(token)
    BY <1>t, HoldsPushed
  <2> QED
    BY <1>1, <2>1, NoneHeld
<1>3. Holds(lineQueue', QueuedWith(token)) <=> Holds(lineQueue, QueuedWith(token))
  <2>1. Holds(Append(lineQueue, LinePill), QueuedWith(token)) <=> Holds(lineQueue, QueuedWith(token)) \/ LinePill \in QueuedWith(token)
    BY <1>t, HoldsPushed
  <2> QED
    BY <1>1, <2>1, NoneHeld
<1>4. Holds(parserQueue', {token}) <=> Holds(parserQueue, {token})
  <2>1. Holds(Append(parserQueue, Empty), {token}) <=> Holds(parserQueue, {token}) \/ Empty \in {token}
    BY <1>t, HoldsPushed
  <2> QED
    BY <1>1, <2>1, NoneHeld
<1> QED
  BY <1>1, <1>2, <1>3, <1>4 DEF Somewhere

-----------------------------------------------------------------------------
(* The theorems. *)

\* Until the boot is given up every token of the corpus is indexed or at one place on the
\* way, counted and, as a distinct token, named.
Conserved ==
  ~GivenUp => /\ tokensIndexed + InFlight = CorpusTokens
              /\ Vocabulary = {token \in Tokens : Somewhere(token)}

JobInv == KernalInv /\ Onward /\ PathsEnd /\ LinesEnd /\ Conserved

\* At the start every token is on the disk.
LEMMA AtTheStart == Init => InFlight = CorpusTokens /\ JobInv
<1> SUFFICES ASSUME Init PROVE InFlight = CorpusTokens /\ JobInv
  OBVIOUS
<1>1. KernalInv
  BY InitInv
<1>2. /\ unseen = Entries /\ path = Empty /\ dirQueue = <<>> /\ unread = <<>>
      /\ lineQueue = <<>> /\ (\A w \in Workers : words[w] = <<>>) /\ parserQueue = <<>>
      /\ readerPc = "none" /\ coordPc = "none" /\ parserPc = "none" /\ mainPc = "init"
      /\ promise = "unset" /\ tokensIndexed = 0 /\ tree = {}
  BY DEF Init, ChannelsInit, ReaderInit, LexerInit, ParserInit
<1>3. Onward /\ PathsEnd /\ LinesEnd
  BY <1>2 DEF Onward, PathsEnd, LinesEnd
<1>4. Unlisted = CorpusTokens
  BY <1>2 DEF Unlisted, CorpusTokens
<1>5. InFlight = CorpusTokens /\ CorpusTokens \in Nat
  BY <1>1, <1>2, <1>4, NoneInFlight, PlacesAreNumbers DEF InFlight, KernalInv
<1>6. ASSUME NEW token \in Tokens
      PROVE  Somewhere(token) <=> \E entry \in Entries : entry \in FilesWith(token)
  BY <1>2, HoldsNone, NoneHeld DEF Somewhere
<1>7. Vocabulary = {token \in Tokens : Somewhere(token)}
  BY <1>6, CorpusAssumption DEF Vocabulary, FilesWith
<1> QED
  BY <1>1, <1>2, <1>3, <1>5, <1>7 DEF JobInv, Conserved

\* A boot given up stays given up.
LEMMA GivenUpStays == Next /\ GivenUp => GivenUp'
<1> SUFFICES ASSUME Next, GivenUp PROVE GivenUp'
  OBVIOUS
<1>1. CASE MainStep \/ Signal \/ ScanThrows \/ EngineThread \/ Query \/ Gone
  BY <1>1, MainLeaves
<1>2. CASE Reader \/ Coordinator \/ ParserThread \/ \E w \in Workers : Worker(w)
  BY <1>2 DEF Reader, Coordinator, ParserThread, Worker, kernalVars, GivenUp
<1> QED
  BY <1>1, <1>2 DEF Next

\* What a step does to the number of tokens in flight and to the verdict: the four steps
\* of an IndexJob, or none.
LEMMA StepOfTheJob ==
  ASSUME JobInv, Next, Vanishing = {}
  PROVE  \/ /\ promise = "unset" /\ InFlight' \in Nat /\ InFlight = InFlight' + 1
            /\ tokensIndexed' = tokensIndexed + 1 /\ promise' = promise /\ (GivenUp' <=> GivenUp)
         \/ /\ promise = "unset" /\ (InFlight = 0 \/ GivenUp)
            /\ promise' = IF tokensIndexed = 0 THEN "exception" ELSE "value"
            /\ InFlight' = InFlight /\ tokensIndexed' = tokensIndexed /\ (GivenUp' <=> GivenUp)
         \/ /\ GivenUp /\ GivenUp' /\ InFlight' \in Nat /\ InFlight' <= InFlight
            /\ tokensIndexed' = tokensIndexed /\ promise' = promise
         \/ /\ InFlight' = InFlight /\ tokensIndexed' = tokensIndexed /\ promise' = promise
            /\ GivenUp => GivenUp'
<1>t. KernalInv /\ TypeOK /\ Onward /\ PathsEnd /\ LinesEnd
  BY DEF JobInv, KernalInv
<1>1. CASE MainStep \/ Signal \/ ScanThrows \/ EngineThread \/ Query \/ Gone
  BY <1>1, <1>t, MainMoves, GivenUpStays
<1>2. CASE Reader
  BY <1>2, <1>t, ReaderMoves, GivenUpStays DEF Reader, parserVars
<1>3. CASE Coordinator
  <2>1. tokensIndexed' = tokensIndexed /\ promise' = promise
    BY <1>3 DEF Coordinator, parserVars
  <2>2. ~lexerRunning /\ coordPc = "read" => GivenUp
    BY <1>t DEF Onward
  <2> QED
    BY <1>3, <1>t, <2>1, <2>2, CoordinatorMoves, GivenUpStays
<1>4. CASE \E w \in Workers : Worker(w)
  BY <1>4, <1>t, WorkerMoves, GivenUpStays DEF Worker, parserVars
<1>5. CASE ParserThread
  <2>1. GivenUp' <=> GivenUp
    BY <1>5 DEF ParserThread, kernalVars, GivenUp
  <2>2. CASE ParserCheck \/ ParserPop
    <3>1. promise' = promise /\ (parserPc = "pop" => promise = "unset")
      BY <1>t, <2>2 DEF ParserCheck, ParserPop, Onward
    <3> QED
      BY <1>5, <1>t, <2>1, <3>1, ParserMoves
  <2>3. CASE ParserSettle
    <3>1. /\ promise = "unset" /\ parserPc = "settle" /\ tokensIndexed' = tokensIndexed
          /\ promise' = IF tokensIndexed = 0 THEN "exception" ELSE "value"
      BY <1>t, <2>3 DEF ParserSettle, Onward
    <3>2. InFlight' = InFlight
      BY <1>5, <1>t, <3>1, ParserMoves
    <3>3. InFlight = 0 \/ GivenUp
      BY <1>t, <3>1, NothingLeft, NoneInFlight DEF InFlight
    <3> QED
      BY <2>1, <3>1, <3>2, <3>3
  <2> QED
    BY <1>5, <2>2, <2>3 DEF ParserThread, ParserStep
<1> QED
  BY <1>1, <1>2, <1>3, <1>4, <1>5 DEF Next

\* So the count and the names are conserved.
LEMMA ConservedKept ==
  ASSUME JobInv, Next, Vanishing = {}
  PROVE  Conserved'
<1> SUFFICES ASSUME ~GivenUp'
             PROVE  /\ tokensIndexed' + InFlight' = CorpusTokens
                    /\ Vocabulary = {token \in Tokens : Somewhere(token)'}
  BY DEF Conserved
<1>1. ~GivenUp
  BY GivenUpStays
<1>t. TypeOK /\ Onward /\ PathsEnd /\ LinesEnd
  BY DEF JobInv, KernalInv
<1>2. /\ tokensIndexed + InFlight = CorpusTokens
      /\ Vocabulary = {token \in Tokens : Somewhere(token)}
  BY <1>1 DEF JobInv, Conserved
<1>3. tokensIndexed' + InFlight' = CorpusTokens
  <2>1. tokensIndexed \in Nat
    BY <1>t DEF TypeOK, ParserTypeOK
  <2>2. \/ InFlight' = InFlight /\ tokensIndexed' = tokensIndexed
        \/ InFlight' \in Nat /\ InFlight = InFlight' + 1 /\ tokensIndexed' = tokensIndexed + 1
    BY <1>1, StepOfTheJob
  <2>3. CASE InFlight' = InFlight /\ tokensIndexed' = tokensIndexed
    BY <1>2, <2>3
  <2>4. CASE InFlight' \in Nat /\ InFlight = InFlight' + 1 /\ tokensIndexed' = tokensIndexed + 1
    <3>1. PICK left \in Nat, done \in Nat : left = InFlight' /\ done = tokensIndexed
      BY <2>1, <2>4
    <3>2. done + (left + 1) = (done + 1) + left
      OBVIOUS
    <3> QED
      BY <1>2, <2>4, <3>1, <3>2
  <2> QED
    BY <2>2, <2>3, <2>4
<1>4. ASSUME NEW token \in Tokens PROVE Somewhere(token)' <=> Somewhere(token)
  <2>1. CASE MainStep \/ Signal \/ ScanThrows \/ EngineThread \/ Query \/ Gone
    BY <1>t, <2>1, MainKeepsTokens
  <2>2. CASE Reader
    BY <1>t, <2>2, ReaderKeeps
  <2>3. CASE Coordinator
    <3>1. lexerRunning
      BY <1>1, <1>t, <2>3 DEF Onward, Coordinator, CoordStep, CoordCheck, CoordPop, CoordRead,
                              CoordPush, CoordPill
    <3> QED
      BY <1>t, <2>3, <3>1, CoordinatorKeeps
  <2>4. CASE \E w \in Workers : Worker(w)
    BY <1>t, <2>4, WorkerKeeps
  <2>5. CASE ParserThread
    BY <1>t, <2>5, ParserKeeps
  <2> QED
    BY <2>1, <2>2, <2>3, <2>4, <2>5 DEF Next
<1> QED
  BY <1>2, <1>3, <1>4

\* JobInv is inductive.
LEMMA JobInvKept ==
  ASSUME Vanishing = {}, JobInv, [Next]_vars
  PROVE  JobInv'
<1>1. CASE Next
  <2>1. KernalInv'
    BY <1>1, NextInv DEF JobInv
  <2> QED
    BY <1>1, <2>1, OnwardKept, PathsEndKept, LinesEndKept, ConservedKept DEF JobInv
<1>2. CASE UNCHANGED vars
  <2>1. KernalInv'
    BY NextInv DEF JobInv
  <2>2. UNCHANGED <<unseen, path, dirQueue, unread, lineQueue, words, parserQueue>>
    BY <1>2 DEF vars, readerVars, channelVars, lexerVars, coordVars, workerVars
  <2>3. InFlight' = InFlight
    BY <2>2, PlacesLeftAlone DEF InFlight
  <2>4. Onward' /\ PathsEnd' /\ LinesEnd'
    BY <1>2 DEF JobInv, Onward, PathsEnd, LinesEnd, GivenUp, Emitting, MayEmit, vars, readerVars,
                channelVars, lexerVars, coordVars, workerVars, parserVars, kernalVars
  <2>5. /\ UNCHANGED <<tree, tokensIndexed>> /\ (GivenUp' <=> GivenUp)
    BY <1>2 DEF vars, parserVars, kernalVars, GivenUp
  <2>6. \A token : Somewhere(token)' <=> Somewhere(token)
    BY <2>2, <2>5 DEF Somewhere
  <2>7. Conserved'
    BY <2>3, <2>5, <2>6 DEF JobInv, Conserved
  <2> QED
    BY <2>1, <2>4, <2>7 DEF JobInv
<1> QED
  BY <1>1, <1>2

\* The count and the names of the tokens in flight, of any corpus, with any number of
\* workers and queues of any capacity, whatever fails and whenever the signal arrives.
THEOREM IndexingInvariant == ASSUME Vanishing = {} PROVE Spec => []JobInv
<1>1. Init => JobInv
  BY AtTheStart
<1>2. JobInv /\ [Next]_vars => JobInv'
  BY JobInvKept
<1> QED
  BY <1>1, <1>2, PTL DEF Spec

\* The Engine of a cold boot answers over a finished index: the Parser has reported a
\* success, every token of every readable file is counted and every distinct one is in the
\* tree, and none that the corpus does not have.
THEOREM IndexingServesCompleteIndex ==
  ASSUME Vanishing = {} PROVE Spec => []ServesCompleteIndex
<1>1. JobInv => ServesCompleteIndex
  <2> SUFFICES ASSUME JobInv, mainPc = "serving", ~hasSearchIndex
               PROVE  promise = "value" /\ tokensIndexed = CorpusTokens /\ tree = Vocabulary
    BY DEF ServesCompleteIndex
  <2>1. ~GivenUp
    BY DEF GivenUp, Stopping
  <2>2. promise = "value" /\ parserPc = "done"
    BY DEF JobInv, Onward
  <2>3. /\ unseen = {} /\ path = Empty /\ dirQueue = <<>> /\ unread = <<>>
        /\ lineQueue = <<>> /\ (\A w \in Workers : words[w] = <<>>) /\ parserQueue = <<>>
    BY <2>1, <2>2, NothingLeft DEF JobInv
  <2>4. InFlight = 0
    BY <2>3, NoneInFlight DEF InFlight
  <2>5. tokensIndexed \in Nat /\ tree \subseteq Tokens
    BY DEF JobInv, KernalInv, TypeOK, ParserTypeOK
  <2>6. tokensIndexed = CorpusTokens
    BY <2>1, <2>4, <2>5 DEF JobInv, Conserved
  <2>7. \A token \in Tokens : Somewhere(token) <=> token \in tree
    BY <2>3, HoldsNone, NoneHeld DEF Somewhere
  <2>8. tree = Vocabulary
    BY <2>1, <2>5, <2>7 DEF JobInv, Conserved
  <2> QED
    BY <2>2, <2>6, <2>8
<1> QED
  BY <1>1, IndexingInvariant, PTL

\* The reader, the coordinator, the workers and the Parser together implement one IndexJob:
\* a token is indexed once, the verdict comes when none is left, and only a boot that was
\* given up drops tokens or decides early.
THEOREM IndexingImplementsIndexJob ==
  ASSUME Vanishing = {} PROVE Spec => ImplementsIndexJob
<1>1. Init => Job!JobInit
  <2> SUFFICES ASSUME Init PROVE Job!JobInit
    OBVIOUS
  <2>1. InFlight = CorpusTokens
    BY AtTheStart
  <2> QED
    BY <2>1 DEF Job!JobInit, Init, ParserInit, GivenUp, Stopping
<1>2. JobInv /\ [Next]_vars => [Job!JobNext]_(Job!jobVars)
  <2> SUFFICES ASSUME JobInv, [Next]_vars PROVE [Job!JobNext]_(Job!jobVars)
    OBVIOUS
  <2> USE DEF Job!jobVars, Job!JobNext
  <2>1. CASE UNCHANGED vars
    <3>1. UNCHANGED <<unseen, path, dirQueue, unread, lineQueue, words, parserQueue>>
      BY <2>1 DEF vars, readerVars, channelVars, lexerVars, coordVars, workerVars
    <3>2. InFlight' = InFlight
      BY <3>1, PlacesLeftAlone DEF InFlight
    <3> QED
      BY <2>1, <3>2 DEF vars, parserVars, kernalVars, GivenUp
  <2>2. ASSUME promise = "unset", InFlight' \in Nat, InFlight = InFlight' + 1,
               tokensIndexed' = tokensIndexed + 1, promise' = promise, GivenUp' <=> GivenUp
        PROVE  Job!IndexOne
    <3>1. PICK left \in Nat : left = InFlight'
      BY <2>2
    <3>2. left + 1 > 0 /\ left = (left + 1) - 1
      OBVIOUS
    <3>3. InFlight = left + 1
      BY <2>2, <3>1, Zenon
    <3>4. InFlight > 0 /\ InFlight' = InFlight - 1
      BY <3>1, <3>2, <3>3, Zenon
    <3>5. GivenUp' = GivenUp
      BY <2>2 DEF GivenUp
    <3> QED
      BY <2>2, <3>4, <3>5 DEF Job!IndexOne
  <2>3. ASSUME promise = "unset", InFlight = 0 \/ GivenUp,
               promise' = IF tokensIndexed = 0 THEN "exception" ELSE "value",
               InFlight' = InFlight, tokensIndexed' = tokensIndexed, GivenUp' <=> GivenUp
        PROVE  Job!Decide
    BY <2>3 DEF Job!Decide, GivenUp
  <2>4. ASSUME GivenUp, GivenUp', InFlight' \in Nat, InFlight' <= InFlight,
               tokensIndexed' = tokensIndexed, promise' = promise
        PROVE  Job!DropTokens \/ UNCHANGED Job!jobVars
    <3>1. InFlight \in Nat
      BY PlacesAreNumbers DEF JobInv, KernalInv, InFlight
    <3> QED
      BY <2>4, <3>1 DEF Job!DropTokens, GivenUp
  <2>5. ASSUME InFlight' = InFlight, tokensIndexed' = tokensIndexed, promise' = promise,
               GivenUp => GivenUp'
        PROVE  Job!CancelJob \/ UNCHANGED Job!jobVars
    BY <2>5 DEF Job!CancelJob, GivenUp
  <2>6. CASE Next
    BY <2>2, <2>3, <2>4, <2>5, <2>6, StepOfTheJob
  <2> QED
    BY <2>1, <2>6
<1> QED
  BY <1>1, <1>2, IndexingInvariant, PTL DEF Spec, ImplementsIndexJob, Job!JobSpec
=============================================================================

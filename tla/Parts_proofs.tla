--------------------------- MODULE Parts_proofs -----------------------------
(***************************************************************************)
(* Three parts that stand alone.  The lock-free ring delivers its items in *)
(* order, once each, for any size and any width of the indices, also once  *)
(* they have wrapped around.  The binary search tree is a set of words,    *)
(* and what its nodes are and how they hang together is sound, over any    *)
(* history of calls.  The two FileManagers leave in their file what was    *)
(* written, however the kernel cuts, interrupts or fails the calls.        *)
(***************************************************************************)
EXTENDS SpscRing, BSTree, FileManager, FiniteSetTheorems, WellFoundedInduction, SequenceTheorems, TLAPS

-----------------------------------------------------------------------------
(* The lock-free ring: division and remainder. *)

\* A number is its quotient times the divisor, plus the remainder.
LEMMA DivModInt ==
  ASSUME NEW x \in Int, NEW m \in Int, m > 0
  PROVE  x = m * (x \div m) + (x % m)
  BY SMTT(30)

\* The same for naturals, with the ranges of the two.
LEMMA DivMod ==
  ASSUME NEW x \in Nat, NEW m \in Nat \ {0}
  PROVE  /\ x % m \in 0 .. m - 1 /\ x \div m \in Nat
         /\ x = m * (x \div m) + (x % m)
  <1>1. x % m \in 0 .. m - 1 /\ x \div m \in Nat
    OBVIOUS
  <1>2. x = m * (x \div m) + (x % m)
    BY DivModInt
  <1> QED BY <1>1, <1>2

\* A remainder is the only one there is.
LEMMA ModUnique ==
  ASSUME NEW x \in Nat, NEW m \in Nat \ {0}, NEW q \in Nat, NEW r \in 0 .. m - 1,
         x = (m * q) + r
  PROVE  x % m = r
  OBVIOUS

\* What the provers need to be told of a product.
LEMMA Times ==
  ASSUME NEW m \in Nat, NEW a \in Nat, NEW b \in Nat
  PROVE  /\ m * a \in Nat /\ m * (a + b) = m * a + m * b /\ m * 1 = m
         /\ (m * a) * b = m * (a * b)
         /\ a < b => m * a + m <= m * b
         /\ a <= b => m * a <= m * b
  <1>1. m * a \in Nat /\ m * (a + b) = m * a + m * b /\ m * 1 = m
    BY SMTT(30)
  <1>2. (m * a) * b = m * (a * b)
    BY SMTT(30)
  <1>3. a < b => m * a + m <= m * b
    BY SMTT(30)
  <1>4. a <= b => m * a <= m * b
    BY SMTT(30)
  <1> QED BY <1>1, <1>2, <1>3, <1>4

\* The remainder of the next number: an index that wraps.
LEMMA ModNext ==
  ASSUME NEW x \in Nat, NEW m \in Nat \ {0}
  PROVE  (x + 1) % m = IF (x % m) + 1 = m THEN 0 ELSE (x % m) + 1
  <1> DEFINE q == x \div m
             r == x % m
  <1>1. q \in Nat /\ r \in 0 .. m - 1 /\ x = (m * q) + r
    BY DivMod
  <1> HIDE DEF q, r
  <1>2. CASE r + 1 = m
    <2>1. m * (q + 1) = m * q + m /\ m * q \in Nat
      BY <1>1, Times
    <2>2. x + 1 = m * (q + 1) + 0
      BY <1>1, <1>2, <2>1
    <2>3. (x + 1) % m = 0
      BY <2>2, <1>1, ModUnique
    <2> QED BY <2>3, <1>2 DEF r
  <1>3. CASE r + 1 # m
    <2>1. x + 1 = m * q + (r + 1)
      BY <1>1, Times
    <2>2. (x + 1) % m = r + 1
      BY <2>1, <1>1, <1>3, ModUnique
    <2> QED BY <2>2, <1>3 DEF r
  <1> QED BY <1>2, <1>3

\* Numbers less than a divisor apart have different remainders.
LEMMA ModNear ==
  ASSUME NEW m \in Nat \ {0}, NEW a \in Nat, NEW b \in Nat, a < b, b < a + m
  PROVE  a % m # b % m
  <1> DEFINE q(x) == x \div m
             r(x) == x % m
             p(x) == m * q(x)
  <1>1. \A x \in Nat: q(x) \in Nat /\ r(x) \in 0 .. m - 1 /\ p(x) \in Nat /\ x = p(x) + r(x)
    BY DivMod, Times
  <1>2. q(a) < q(b) => p(a) + m <= p(b)
    BY <1>1, Times
  <1>3. q(b) <= q(a) => p(b) <= p(a)
    BY <1>1, Times
  <1> HIDE DEF q, r, p
  <1> SUFFICES ASSUME r(a) = r(b) PROVE FALSE
    BY DEF r
  <1>4. q(a) < q(b) \/ q(b) <= q(a)
    BY <1>1
  <1> QED BY <1>1, <1>2, <1>3, <1>4

\* A remainder by a multiple of n keeps the remainder by n: why SIZE divides IndexValues.
LEMMA ModMod ==
  ASSUME NEW x \in Nat, NEW m \in Nat \ {0}, NEW n \in Nat \ {0}, m % n = 0
  PROVE  (x % m) % n = x % n
  <1> DEFINE c == m \div n
             q == x \div m
             w == x % m
             d == w \div n
             s == w % n
  <1>1. c \in Nat /\ m = n * c
    <2>1. c \in Nat /\ m = n * c + (m % n)
     BY DivMod
    <2>2. n * c \in Nat
     BY <2>1, Times
    <2> QED BY <2>1, <2>2
  <1>2. q \in Nat /\ w \in Nat /\ x = m * q + w
    BY DivMod
  <1>3. d \in Nat /\ s \in 0 .. n - 1 /\ w = n * d + s
    BY <1>2, DivMod
  <1> HIDE DEF c, q, w, d, s
  <1>4. m * q = n * (c * q) /\ c * q \in Nat
    BY <1>1, <1>2, Times
  <1>5. n * (c * q + d) = n * (c * q) + n * d /\ n * (c * q) \in Nat /\ n * d \in Nat /\ c * q + d \in Nat
    BY <1>3, <1>4, Times
  <1>6. x = n * (c * q + d) + s
    BY <1>2, <1>3, <1>4, <1>5
  <1>7. x % n = s
    BY <1>3, <1>5, <1>6, ModUnique
  <1> QED BY <1>7 DEF s, w

-----------------------------------------------------------------------------
(* The lock-free ring: the invariant. *)

\* The index of a count, and the slot of the item that many have gone before.
Index(n) == n % IndexValues
Place(n) == n % SIZE

\* The indices are the counts, reduced to a machine word.
Indices == /\ pushed \in Nat /\ popped \in Nat
           /\ popped <= pushed /\ pushed - popped <= SIZE
           /\ write_index = Index(pushed) /\ read_index = Index(popped)

\* Every item pushed and not popped is in its slot.
Stored == /\ slots \in [0 .. SIZE - 1 -> Nat]
          /\ \A k \in popped .. pushed - 1 : slots[Place(k)] = k + 1

\* What each side has loaded of its own index is current, and what it has seen of the
\* other's has only become safer since.
Sides ==
  /\ producer \in [at : {"idle", "loadRead", "fill", "publish"}, write : Nat]
  /\ consumer \in [at : {"idle", "loadWrite", "take", "release"}, read : Nat, item : Nat]
  /\ producer.at # "idle" => producer.write = write_index
  /\ producer.at \in {"fill", "publish"} => pushed - popped < SIZE
  /\ producer.at = "publish" => slots[Place(pushed)] = pushed + 1
  /\ consumer.at # "idle" => consumer.read = read_index
  /\ consumer.at \in {"take", "release"} => popped < pushed
  /\ consumer.at = "release" => consumer.item = popped + 1

Refusals == /\ refused = "full" => pushed - popped = SIZE
            /\ refused = "empty" => pushed = popped \/ Wrapped

RingInv == Indices /\ Stored /\ Sides /\ Refusals

\* Both counts reduce to the slot their index names, and an index moves as its count does.
LEMMA IndexOfCount ==
  ASSUME NEW n \in Nat
  PROVE  /\ Index(n) \in 0 .. IndexValues - 1
         /\ Slot(Index(n)) = Place(n)
         /\ Place(n) \in 0 .. SIZE - 1
         /\ Plus1(Index(n)) = Index(n + 1)
         /\ n < IndexValues => Index(n) = n
  <1>1. SIZE \in Nat \ {0} /\ IndexValues \in Nat \ {0} /\ IndexValues % SIZE = 0
    BY RingAssumption
  <1>2. n % IndexValues \in 0 .. IndexValues - 1 /\ n % SIZE \in 0 .. SIZE - 1
    BY <1>1, DivMod
  <1>3. Slot(n % IndexValues) = n % SIZE
    BY <1>1, ModMod DEF Slot
  <1>4. Plus1(n % IndexValues) = (n + 1) % IndexValues
    BY <1>1, ModNext DEF Plus1
  <1>5. n < IndexValues => n % IndexValues = n
    BY <1>1
  <1> QED BY <1>2, <1>3, <1>4, <1>5 DEF Index, Place

\* The distance FullTest computes in words is the one between the counts, which are
\* never as far apart as words can tell.
LEMMA Distance ==
  ASSUME NEW a \in Nat, NEW b \in Nat, a <= b, b - a <= SIZE
  PROVE  Minus(Index(b), Index(a)) = b - a
  <1>1. SIZE \in Nat \ {0} /\ IndexValues \in Nat \ {0} /\ SIZE < IndexValues
    BY RingAssumption
  <1> DEFINE p(x) == IndexValues * (x \div IndexValues)
             q(x) == x \div IndexValues
             r(x) == x % IndexValues
  <1>2. \A x \in Nat : /\ q(x) \in Nat /\ r(x) \in 0 .. IndexValues - 1
                       /\ p(x) \in Nat /\ x = p(x) + r(x)
    BY <1>1, DivMod, Times
  <1>3. p(b) = p(a) \/ p(b) = p(a) + IndexValues
    <2>1. q(a) <= q(b)
      <3>1. q(b) < q(a) => p(b) + IndexValues <= p(a)
        BY <1>1, <1>2, Times
      <3> HIDE DEF p, q, r
      <3>2. /\ q(a) \in Nat /\ q(b) \in Nat /\ p(a) \in Nat /\ p(b) \in Nat
            /\ r(a) \in 0 .. IndexValues - 1 /\ r(b) \in 0 .. IndexValues - 1
            /\ a = p(a) + r(a) /\ b = p(b) + r(b)
        BY <1>2
      <3> QED BY <1>1, <3>1, <3>2
    <2>2. q(b) <= q(a) + 1
      <3>1. q(a) + 1 < q(b) => (IndexValues * (q(a) + 1)) + IndexValues <= p(b)
        BY <1>1, <1>2, Times
      <3>2. IndexValues * (q(a) + 1) = p(a) + IndexValues
        BY <1>1, <1>2, Times
      <3> HIDE DEF p, q, r
      <3>3. /\ q(a) \in Nat /\ q(b) \in Nat /\ p(a) \in Nat /\ p(b) \in Nat
            /\ r(a) \in 0 .. IndexValues - 1 /\ r(b) \in 0 .. IndexValues - 1
            /\ a = p(a) + r(a) /\ b = p(b) + r(b)
        BY <1>2
      <3> QED BY <1>1, <3>1, <3>2, <3>3
    <2>3. q(b) = q(a) \/ q(b) = q(a) + 1
      <3>1. q(a) \in Int /\ q(b) \in Int
        BY <1>2
      <3> HIDE DEF p, q, r
      <3> QED BY <2>1, <2>2, <3>1
    <2>4. IndexValues * (q(a) + 1) = p(a) + IndexValues
      BY <1>1, <1>2, Times
    <2> QED BY <2>3, <2>4
  <1> HIDE DEF p, q
  <1>4. Minus(r(b), r(a)) = b - a
    <2> HIDE DEF r
    <2>1. r(a) \in Int /\ r(b) \in Int /\ p(a) \in Int /\ p(b) \in Int
      BY <1>2
    <2>2. CASE p(b) = p(a)
      <3>1. b - a = r(b) - r(a) /\ r(b) >= r(a)
        <4>1. a = p(a) + r(a) /\ b = p(b) + r(b)
          BY <1>2
        <4> QED BY <2>1, <2>2, <4>1
      <3> QED BY <3>1 DEF Minus
    <2>3. CASE p(b) = p(a) + IndexValues
      <3>1. b - a = r(b) - r(a) + IndexValues
        <4>1. a = p(a) + r(a) /\ b = p(b) + r(b)
          BY <1>2
        <4> QED BY <1>1, <2>1, <2>3, <4>1
      <3>2. ~(r(b) >= r(a))
        BY <1>1, <2>1, <3>1
      <3> QED BY <3>1, <3>2 DEF Minus
    <2> QED BY <1>3, <2>2, <2>3
  <1> QED BY <1>4 DEF r, Index

-----------------------------------------------------------------------------
(* The lock-free ring: the steps. *)

\* It holds of the empty ring.
LEMMA RingInitInv == RingInit => RingInv
  <1> SUFFICES ASSUME RingInit PROVE RingInv
    OBVIOUS
  <1>1. SIZE \in Nat \ {0} /\ IndexValues \in Nat \ {0} /\ 0 < IndexValues
    BY RingAssumption
  <1>2. Index(0) = 0
    BY <1>1, IndexOfCount
  <1>3. pushed = 0 /\ popped = 0
    BY DEF RingInit
  <1>4. Indices /\ Refusals
    <2>1. pushed - popped <= SIZE /\ popped <= pushed
      BY <1>1, <1>3
    <2>2. write_index = 0 /\ read_index = 0 /\ refused = ""
      BY DEF RingInit
    <2> QED BY <1>2, <1>3, <2>1, <2>2 DEF Indices, Refusals
  <1>5. Stored
    <2>1. slots \in [0 .. SIZE - 1 -> Nat]
      BY DEF RingInit
    <2>2. \A k \in popped .. pushed - 1 : FALSE
      BY <1>3
    <2> QED BY <2>1, <2>2 DEF Stored
  <1>6. Sides
    BY DEF RingInit, Sides
  <1> QED BY <1>4, <1>5, <1>6 DEF RingInv

\* The producer's steps.  It may fill the slot of the next item: that slot holds none
\* that is still to be popped.
LEMMA ProducerInv ==
  ASSUME RingInv, PushLoadWrite \/ PushLoadRead \/ PushFill \/ PushPublish
  PROVE  RingInv'
  <1> USE DEF RingInv
  <1>s. SIZE \in Nat \ {0}
    BY RingAssumption
  <1>n. /\ pushed \in Nat /\ popped \in Nat
        /\ Place(pushed) \in 0 .. SIZE - 1
        /\ Slot(write_index) = Place(pushed)
        /\ Plus1(write_index) = Index(pushed + 1)
    BY IndexOfCount DEF Indices
  <1>1. CASE PushLoadWrite
    <2>1. write_index \in Nat
      BY IndexOfCount DEF Indices
    <2> QED BY <1>1, <2>1 DEF PushLoadWrite, Indices, Stored, Sides, Refusals, Wrapped
  <1>2. CASE PushLoadRead
    <2>1. FullTest(producer.write, read_index) <=> pushed - popped >= SIZE
      BY <1>2, Distance DEF PushLoadRead, FullTest, Sides, Indices
    <2>2. CASE pushed - popped >= SIZE
      <3>1. /\ producer' = [producer EXCEPT !.at = "idle"] /\ refused' = "full"
            /\ UNCHANGED <<write_index, read_index, slots, consumer, pushed, popped>>
        BY <1>2, <2>1, <2>2 DEF PushLoadRead
      <3> QED BY <1>s, <2>2, <3>1 DEF Indices, Stored, Sides, Refusals, Wrapped
    <2>3. CASE ~(pushed - popped >= SIZE)
      <3>1. /\ producer' = [producer EXCEPT !.at = "fill"] /\ refused' = ""
            /\ producer.at = "loadRead"
            /\ UNCHANGED <<write_index, read_index, slots, consumer, pushed, popped>>
        BY <1>2, <2>1, <2>3 DEF PushLoadRead
      <3>2. pushed - popped < SIZE
        BY <1>n, <1>s, <2>3
      <3>3. Indices' /\ Stored' /\ Refusals'
        BY <3>1 DEF Indices, Stored, Refusals
      <3> QED BY <3>1, <3>2, <3>3 DEF Sides
    <2> QED BY <2>2, <2>3
  <1>3. CASE PushFill
    <2>1. /\ slots' = [slots EXCEPT ![Place(pushed)] = pushed + 1]
          /\ producer' = [producer EXCEPT !.at = "publish"]
          /\ producer.at = "fill" /\ refused' = ""
          /\ UNCHANGED <<write_index, read_index, consumer, pushed, popped>>
      BY <1>3, <1>n DEF PushFill, Sides
    <2>2. \A k \in popped .. pushed - 1 : Place(k) # Place(pushed)
      <3> TAKE k \in popped .. pushed - 1
      <3>1. k \in Nat /\ k < pushed /\ pushed < k + SIZE
        <4>1. pushed - popped < SIZE
          BY <2>1 DEF Sides
        <4> QED BY <1>n, <1>s, <4>1
      <3> QED BY <1>n, <1>s, <3>1, ModNear DEF Place
    <2>3. \A k \in popped .. pushed - 1 : Place(k) \in 0 .. SIZE - 1
      BY <1>n, IndexOfCount
    <2>4. Stored'
      <3>1. pushed + 1 \in Nat
        BY <1>n
      <3>2. slots' \in [0 .. SIZE - 1 -> Nat]
        BY <1>n, <2>1, <3>1 DEF Stored
      <3>3. \A k \in popped .. pushed - 1 : slots'[Place(k)] = slots[Place(k)]
        BY <2>1, <2>2, <2>3 DEF Stored
      <3> QED BY <2>1, <3>2, <3>3 DEF Stored
    <2>5. slots'[Place(pushed)] = pushed + 1
      BY <1>n, <2>1 DEF Stored
    <2> QED BY <2>1, <2>4, <2>5 DEF Indices, Sides, Refusals, Wrapped
  <1>4. CASE PushPublish
    <2>1. /\ write_index' = Index(pushed + 1) /\ pushed' = pushed + 1
          /\ producer' = [producer EXCEPT !.at = "idle"] /\ refused' = ""
          /\ pushed - popped < SIZE /\ slots[Place(pushed)] = pushed + 1
          /\ UNCHANGED <<read_index, slots, consumer, popped>>
      BY <1>4, <1>n DEF PushPublish, Sides
    <2>a. /\ pushed' \in Nat /\ popped <= pushed' /\ pushed' - popped <= SIZE
          /\ pushed' - 1 = pushed
      <3>1. pushed' = pushed + 1 /\ pushed - popped < SIZE /\ popped <= pushed
        BY <2>1 DEF Indices
      <3> QED BY <1>n, <1>s, <3>1
    <2>2. Indices'
      BY <2>1, <2>a DEF Indices
    <2>3. Stored'
      <3>1. \A k \in popped .. pushed : k \in popped .. pushed - 1 \/ k = pushed
        BY <1>n
      <3> QED BY <2>1, <2>a, <3>1 DEF Stored
    <2>4. Sides'
      <3>1. consumer.at \in {"take", "release"} => popped < pushed'
        <4>1. pushed' = pushed + 1 /\ popped <= pushed
          BY <2>1 DEF Indices
        <4> QED BY <1>n, <4>1
      <3>2. producer'.at = "idle" /\ producer' \in [at : {"idle", "loadRead", "fill", "publish"}, write : Nat]
        BY <2>1 DEF Sides
      <3> QED BY <2>1, <3>1, <3>2 DEF Sides
    <2>5. Refusals'
      BY <2>1 DEF Refusals
    <2> QED BY <2>2, <2>3, <2>4, <2>5
  <1> QED BY <1>1, <1>2, <1>3, <1>4

\* The consumer's steps.  What it takes is the item after the last one popped.
LEMMA ConsumerInv ==
  ASSUME RingInv, PopLoadRead \/ PopLoadWrite \/ PopTake \/ PopRelease
  PROVE  RingInv'
  <1> USE DEF RingInv
  <1>s. SIZE \in Nat \ {0}
    BY RingAssumption
  <1>n. /\ pushed \in Nat /\ popped \in Nat
        /\ Slot(read_index) = Place(popped)
        /\ Plus1(read_index) = Index(popped + 1)
    BY IndexOfCount DEF Indices
  <1>1. CASE PopLoadRead
    <2>1. read_index \in Nat
      BY <1>n, IndexOfCount DEF Indices
    <2>2. Indices' /\ Stored' /\ Refusals'
      BY <1>1 DEF PopLoadRead, Indices, Stored, Refusals, Wrapped
    <2> QED BY <1>1, <2>1, <2>2 DEF PopLoadRead, Sides
  <1>2. CASE PopLoadWrite
    <2>1. /\ consumer.at = "loadWrite" /\ consumer.read = read_index
          /\ UNCHANGED <<write_index, read_index, slots, producer, pushed, popped>>
      BY <1>2 DEF PopLoadWrite, Sides
    <2>2. CASE EmptyTest(consumer.read, write_index)
      <3>1. consumer' = [consumer EXCEPT !.at = "idle"] /\ refused' = "empty"
        BY <1>2, <2>2 DEF PopLoadWrite
      <3>2. pushed = popped \/ Wrapped
        <4> SUFFICES ASSUME ~Wrapped PROVE pushed = popped
          OBVIOUS
        <4>1. write_index = pushed /\ read_index = popped
          BY <1>n, IndexOfCount, RingAssumption DEF Wrapped, Indices
        <4> QED BY <1>n, <2>1, <2>2, <4>1 DEF EmptyTest, Indices
      <3> QED BY <2>1, <3>1, <3>2 DEF Indices, Stored, Sides, Refusals, Wrapped
    <2>3. CASE ~EmptyTest(consumer.read, write_index)
      <3>1. consumer' = [consumer EXCEPT !.at = "take"] /\ refused' = ""
        BY <1>2, <2>3 DEF PopLoadWrite
      <3>2. pushed # popped
        <4>1. write_index \in Int /\ read_index \in Int
          BY IndexOfCount DEF Indices
        <4> QED BY <2>1, <2>3, <4>1 DEF EmptyTest, Indices
      <3>3. popped < pushed
        BY <1>n, <3>2 DEF Indices
      <3> QED BY <2>1, <3>1, <3>3 DEF Indices, Stored, Sides, Refusals, Wrapped
    <2> QED BY <2>2, <2>3
  <1>3. CASE PopTake
    <2>1. /\ consumer' = [consumer EXCEPT !.at = "release", !.item = slots[Place(popped)]]
          /\ consumer.at = "take" /\ refused' = ""
          /\ UNCHANGED <<write_index, read_index, slots, producer, pushed, popped>>
      BY <1>3, <1>n DEF PopTake, Sides
    <2>2. slots[Place(popped)] = popped + 1
      <3>1. popped < pushed
        BY <2>1 DEF Sides
      <3>2. popped \in popped .. pushed - 1
        BY <1>n, <3>1
      <3> QED BY <3>2 DEF Stored
    <2>3. Indices' /\ Stored' /\ Refusals'
      BY <2>1 DEF Indices, Stored, Refusals
    <2>4. popped + 1 \in Nat
      BY <1>n
    <2> QED BY <2>1, <2>2, <2>3, <2>4 DEF Sides
  <1>4. CASE PopRelease
    <2>1. /\ read_index' = Index(popped + 1) /\ popped' = popped + 1
          /\ consumer' = [consumer EXCEPT !.at = "idle"] /\ refused' = "" /\ popped < pushed
          /\ UNCHANGED <<write_index, slots, producer, pushed>>
      BY <1>4, <1>n DEF PopRelease, Sides
    <2>a. /\ popped' \in Nat /\ popped' <= pushed /\ pushed - popped' <= SIZE
          /\ pushed - popped' < SIZE
          /\ \A k \in popped' .. pushed - 1 : k \in popped .. pushed - 1
      <3>1. popped' = popped + 1 /\ popped < pushed /\ pushed - popped <= SIZE
        BY <2>1 DEF Indices
      <3> QED BY <1>n, <1>s, <3>1
    <2>2. Indices'
      BY <2>1, <2>a DEF Indices
    <2>3. Stored'
      BY <2>1, <2>a DEF Stored
    <2>4. Sides'
      BY <2>1, <2>a DEF Sides
    <2>5. Refusals'
      BY <2>1 DEF Refusals
    <2> QED BY <2>2, <2>3, <2>4, <2>5
  <1> QED BY <1>1, <1>2, <1>3, <1>4

\* push and pop, one thread each and no lock: the items come out in the order they went
\* in, a slot is not written again before it has been read, and a call is refused only
\* when the buffer was full or empty, as long as write_index has not wrapped around; for
\* any size that divides the values of an index.
THEOREM SpscRingFifo == RingInit /\ [][RingNext]_ringVars => []LockFreeFifo
  <1>1. RingInv /\ [RingNext]_ringVars => RingInv'
    <2> SUFFICES ASSUME RingInv, [RingNext]_ringVars PROVE RingInv'
      OBVIOUS
    <2>1. CASE UNCHANGED ringVars
      BY <2>1 DEF ringVars, RingInv, Indices, Stored, Sides, Refusals, Wrapped
    <2> QED BY <2>1, ProducerInv, ConsumerInv DEF RingNext
  <1>2. RingInv => LockFreeFifo
    BY DEF RingInv, Indices, Sides, Refusals, LockFreeFifo
  <1> QED BY <1>1, <1>2, RingInitInv, PTL

-----------------------------------------------------------------------------
(* The binary search tree: a descent goes from a place to the next until the place is an end. *)

\* A set of natural numbers that is not empty has a least one.
LEMMA LeastNumber ==
  ASSUME NEW T, T \subseteq Nat, T # {}
  PROVE  \E i \in T : \A j \in T : i <= j
<1>1. PICK i \in T : \A j \in T : <<j, i>> \notin OpToRel(<, Nat)
  BY NatLessThanWellFounded, WFMin
<1>2. \A j \in T : i <= j
  <2> TAKE j \in T
  <2>1. <<j, i>> \in Nat \X Nat /\ i \in Nat /\ j \in Nat
    OBVIOUS
  <2>2. ~(<<j, i>>[1] < <<j, i>>[2])
    BY <1>1, <2>1, Zenon DEF OpToRel
  <2>3. ~(j < i)
    BY <2>2
  <2> QED BY <2>1, <2>3
<1> QED BY <1>2

\* Of the elements of a set that have a rank one has the least.
LEMMA LeastRank ==
  ASSUME NEW T, T # {}, NEW rank, \A x \in T : rank[x] \in Nat
  PROVE  \E x \in T : \A y \in T : ~(rank[y] < rank[x])
<1> DEFINE ranks == {rank[x] : x \in T}
<1>1. ranks \subseteq Nat /\ ranks # {}
  OBVIOUS
<1>2. PICK i \in ranks : \A j \in ranks : i <= j
  <2> HIDE DEF ranks
  <2> QED BY <1>1, LeastNumber
<1>3. PICK x \in T : rank[x] = i
  OBVIOUS
<1>4. \A y \in T : rank[y] \in ranks /\ rank[y] \in Nat
  OBVIOUS
<1> HIDE DEF ranks
<1>5. \A y \in T : rank[x] <= rank[y]
  BY <1>2, <1>3, <1>4
<1> QED BY <1>3, <1>4, <1>5

\* A descent is a function: the end of a place is the one that no set closed under the
\* next place can be without.
LEMMA DescentExists ==
  ASSUME NEW S, NEW E \in SUBSET S, NEW next \in [S \ E -> S]
  PROVE  \E f : f = [x \in S |-> IF x \in E THEN x ELSE f[next[x]]]
<1> DEFINE Closed(P) == \A y \in P \ E : next[y] \in P
           ends == [x \in S |-> {e \in E : \A P \in SUBSET S : Closed(P) /\ x \in P => e \in P}]
           f    == [x \in S |-> CHOOSE e : e \in ends[x]]
<1>1. ASSUME NEW x \in E PROVE f[x] = x
  <2>1. Closed({x}) /\ {x} \in SUBSET S /\ x \in S
    OBVIOUS
  <2>2. ends[x] = {x}
    BY <2>1
  <2> QED BY <2>1, <2>2
<1>2. ASSUME NEW x \in S \ E PROVE f[x] = f[next[x]]
  <2>1. next[x] \in S
    OBVIOUS
  <2>2. ASSUME NEW e \in ends[x] PROVE e \in ends[next[x]]
    <3>1. e \in E /\ \A P \in SUBSET S : Closed(P) /\ x \in P => e \in P
      BY <2>2
    <3>2. ASSUME NEW P \in SUBSET S, Closed(P), next[x] \in P PROVE e \in P
      <4>1. Closed(P \cup {x}) /\ P \cup {x} \in SUBSET S
        BY <3>2
      <4>2. e \in P \cup {x}
        BY <3>1, <4>1
      <4> QED BY <3>1, <4>2
    <3> QED BY <2>1, <3>1, <3>2
  <2>3. ASSUME NEW e \in ends[next[x]] PROVE e \in ends[x]
    <3>1. e \in E /\ \A P \in SUBSET S : Closed(P) /\ next[x] \in P => e \in P
      BY <2>1, <2>3
    <3>2. ASSUME NEW P \in SUBSET S, Closed(P), x \in P PROVE e \in P
      BY <3>1, <3>2
    <3> QED BY <3>1, <3>2
  <2>4. ends[x] = ends[next[x]]
    <3> HIDE DEF ends
    <3> QED BY <2>2, <2>3
  <2> HIDE DEF ends
  <2> QED BY <2>1, <2>4
<1>3. f = [x \in S |-> IF x \in E THEN x ELSE f[next[x]]]
  <2>1. \A x \in S : f[x] = IF x \in E THEN x ELSE f[next[x]]
    <3> HIDE DEF f
    <3> QED BY <1>1, <1>2
  <2>2. f = [x \in S |-> f[x]]
    OBVIOUS
  <2> HIDE DEF f
  <2> QED BY <2>1, <2>2
<1> QED BY <1>3

\* f follows next through S until an end in E, and the rank falls on the way.
Descends(S, E, next, f, rank) ==
  /\ E \in SUBSET S /\ next \in [S \ E -> S] /\ rank \in [S -> Nat]
  /\ \A x \in S : f[x] = IF x \in E THEN x ELSE f[next[x]]
  /\ \A x \in S \ E : rank[next[x]] < rank[x]

\* Such a descent ends, and ends within every closed set it begins in.
LEMMA DescentStays ==
  ASSUME NEW S, NEW E, NEW next, NEW f, NEW rank, Descends(S, E, next, f, rank)
  PROVE  \A P \in SUBSET S : (\A x \in P \ E : next[x] \in P)
                                => \A start \in P : f[start] \in P \cap E
<1>0. /\ E \in SUBSET S /\ next \in [S \ E -> S] /\ rank \in [S -> Nat]
      /\ \A x \in S : f[x] = IF x \in E THEN x ELSE f[next[x]]
      /\ \A x \in S \ E : rank[next[x]] < rank[x]
  BY DEF Descends
<1> TAKE P \in SUBSET S
<1> HAVE \A x \in P \ E : next[x] \in P
<1> DEFINE bad == {x \in P : f[x] \notin P \cap E}
<1>1. SUFFICES ASSUME bad # {} PROVE FALSE
  OBVIOUS
<1>2. PICK x \in bad : \A y \in bad : ~(rank[y] < rank[x])
  <2>1. \A y \in bad : rank[y] \in Nat
    BY <1>0
  <2> HIDE DEF bad
  <2> QED BY <1>1, <2>1, LeastRank
<1>3. x \in S /\ f[x] = IF x \in E THEN x ELSE f[next[x]]
  BY <1>0
<1>4. CASE x \in E
  BY <1>3, <1>4
<1>5. CASE x \notin E
  <2>1. next[x] \in P /\ rank[next[x]] < rank[x]
    BY <1>0, <1>3, <1>5
  <2>2. next[x] \notin bad
    BY <1>2, <2>1
  <2> QED BY <1>2, <1>3, <1>5, <2>1, <2>2
<1> QED BY <1>4, <1>5

-----------------------------------------------------------------------------
(* The binary search tree: its shape, the pointer in each reference, and what is below each node. *)

Branches     == {"left", "right"}
RefsOf(A) == {RootRef} \cup (A \X Branches)

\* below is the witness that nothing is reached twice or from itself: the nodes at and
\* under each pointer, all of them under the root's.
Shape(A, ptr, below) ==
  /\ A \in SUBSET (Nat \ {Null}) /\ IsFiniteSet(A)
  /\ ptr \in [RefsOf(A) -> {Null} \cup A]
  /\ \A r, s \in RefsOf(A) : ptr[r] = ptr[s] /\ ptr[r] # Null => r = s
  /\ below \in [{Null} \cup A -> SUBSET A]
  /\ below[Null] = {} /\ below[ptr[RootRef]] = A
  /\ \A a \in A : /\ below[a] = {a} \cup below[ptr[<<a, "left">>]] \cup below[ptr[<<a, "right">>]]
                  /\ \A side \in Branches : a \notin below[ptr[<<a, side>>]]

\* The order of the values: what is on the left of a node is less, on the right greater.
Sorted(A, ptr, below, val) ==
  \A a \in A : /\ \A b \in below[ptr[<<a, "left">>]]  : val[b] < val[a]
               /\ \A b \in below[ptr[<<a, "right">>]] : val[b] > val[a]

\* The references are the root's and two of each node, all different.
LEMMA References ==
  ASSUME NEW A, A \in SUBSET (Nat \ {Null})
  PROVE  /\ RootRef \in RefsOf(A) /\ RootRef[1] = Null
         /\ \A a \in A, side \in Branches : /\ <<a, side>> \in RefsOf(A) /\ <<a, side>> # RootRef
                                        /\ <<a, side>>[1] = a /\ <<a, side>>[2] = side
         /\ \A r \in RefsOf(A) : r # RootRef => /\ r[1] \in A /\ r[2] \in Branches /\ r = <<r[1], r[2]>>
         /\ "left" \in Branches /\ "right" \in Branches
<1>1. RootRef = <<Null, "root">>
  BY DEF RootRef
<1> QED BY <1>1 DEF RefsOf, Branches

\* A node is below itself and so is what is below its children; and nothing else.
LEMMA BelowSides ==
  ASSUME NEW A, NEW ptr, NEW below, Shape(A, ptr, below), NEW a \in A
  PROVE  /\ a \in below[a]
         /\ \A side \in Branches : /\ ptr[<<a, side>>] \in {Null} \cup A
                               /\ below[ptr[<<a, side>>]] \subseteq below[a] \ {a}
         /\ \A b \in below[a] : b = a \/ \E side \in Branches : b \in below[ptr[<<a, side>>]]
         /\ below[a] \subseteq A
<1>1. /\ below[a] = {a} \cup below[ptr[<<a, "left">>]] \cup below[ptr[<<a, "right">>]]
      /\ \A side \in Branches : a \notin below[ptr[<<a, side>>]]
      /\ \A side \in Branches : ptr[<<a, side>>] \in {Null} \cup A
      /\ below[a] \subseteq A
  BY References DEF Shape
<1>2. \A side \in Branches : side = "left" \/ side = "right"
  BY DEF Branches
<1>3. "left" \in Branches /\ "right" \in Branches
  BY DEF Branches
<1> QED BY <1>1, <1>2, <1>3

\* Descending makes the set below smaller.
LEMMA BelowRank ==
  ASSUME NEW A, NEW ptr, NEW below, Shape(A, ptr, below)
  PROVE  /\ \A p \in {Null} \cup A : Cardinality(below[p]) \in Nat
         /\ \A a \in A, side \in Branches : Cardinality(below[ptr[<<a, side>>]]) < Cardinality(below[a])
<1>1. \A p \in {Null} \cup A : below[p] \in SUBSET A
  BY DEF Shape
<1>2. \A p \in {Null} \cup A : IsFiniteSet(below[p]) /\ Cardinality(below[p]) \in Nat
  BY <1>1, FS_Subset, FS_CardinalityType DEF Shape
<1>3. ASSUME NEW a \in A, NEW side \in Branches
      PROVE  Cardinality(below[ptr[<<a, side>>]]) < Cardinality(below[a])
  <2> DEFINE inner == below[ptr[<<a, side>>]]
  <2>1. inner \in SUBSET below[a] /\ inner # below[a] /\ ptr[<<a, side>>] \in {Null} \cup A
    BY BelowSides
  <2>2. IsFiniteSet(below[a]) /\ Cardinality(below[a]) \in Nat /\ Cardinality(inner) \in Nat
    BY <1>2, <2>1
  <2>3. Cardinality(inner) <= Cardinality(below[a]) /\ Cardinality(inner) # Cardinality(below[a])
    <3> HIDE DEF inner
    <3> QED BY <2>1, <2>2, FS_Subset
  <2> QED BY <2>2, <2>3
<1> QED BY <1>2, <1>3

\* The walk that clear makes visits what is below.
LEMMA BelowIsTheOne ==
  ASSUME NEW A, NEW ptr, NEW below, Shape(A, ptr, below), NEW f,
         f = [a \in {Null} \cup A |->
                IF a = Null THEN {} ELSE {a} \cup f[ptr[<<a, "left">>]] \cup f[ptr[<<a, "right">>]]]
  PROVE  f = below
<1> DEFINE wrong == {a \in {Null} \cup A : f[a] # below[a]}
<1>1. \A a \in {Null} \cup A :
        f[a] = IF a = Null THEN {} ELSE {a} \cup f[ptr[<<a, "left">>]] \cup f[ptr[<<a, "right">>]]
  OBVIOUS
<1>2. ASSUME wrong # {} PROVE FALSE
  <2> DEFINE rank == [p \in {Null} \cup A |-> Cardinality(below[p])]
  <2>1. \A a \in wrong : rank[a] \in Nat
    BY BelowRank
  <2>2. PICK a \in wrong : \A b \in wrong : ~(rank[b] < rank[a])
    <3> HIDE DEF wrong, rank
    <3> QED BY <1>2, <2>1, LeastRank
  <2>3. a # Null /\ a \in A
    BY <1>1 DEF Shape
  <2>4. \A side \in Branches : f[ptr[<<a, side>>]] = below[ptr[<<a, side>>]]
    <3> TAKE side \in Branches
    <3>1. ptr[<<a, side>>] \in {Null} \cup A
      BY <2>3, BelowSides
    <3>2. rank[ptr[<<a, side>>]] < rank[a]
      BY <2>3, <3>1, BelowRank
    <3> QED BY <2>2, <3>1, <3>2
  <2>5. below[a] = {a} \cup below[ptr[<<a, "left">>]] \cup below[ptr[<<a, "right">>]]
    BY <2>3 DEF Shape
  <2>6. f[a] = {a} \cup f[ptr[<<a, "left">>]] \cup f[ptr[<<a, "right">>]]
    BY <1>1, <2>3
  <2>7. f[a] = below[a]
    BY <2>4, <2>5, <2>6 DEF Branches
  <2> QED BY <2>7
<1>3. \A a \in {Null} \cup A : f[a] = below[a]
  BY <1>2
<1>4. f = [a \in {Null} \cup A |-> f[a]] /\ below = [a \in {Null} \cup A |-> below[a]]
  BY DEF Shape
<1> QED BY <1>3, <1>4

\* What a reference points to is below a node only when the node it is in is, too.
LEMMA ReferenceBelow ==
  ASSUME NEW A, NEW ptr, NEW below, Shape(A, ptr, below),
         NEW r \in RefsOf(A), NEW p \in {Null} \cup A, ptr[r] \in below[p], p # ptr[r]
  PROVE  r # RootRef /\ r[1] \in below[p]
<1> DEFINE wrong == {q \in {Null} \cup A : /\ ptr[r] \in below[q] /\ q # ptr[r]
                                           /\ ~(r # RootRef /\ r[1] \in below[q])}
<1>1. SUFFICES ASSUME wrong # {} PROVE FALSE
  OBVIOUS
<1> DEFINE rank == [q \in {Null} \cup A |-> Cardinality(below[q])]
<1>2. \A q \in wrong : rank[q] \in Nat
  BY BelowRank
<1>3. PICK q \in wrong : \A b \in wrong : ~(rank[b] < rank[q])
  <2> HIDE DEF wrong, rank
  <2> QED BY <1>1, <1>2, LeastRank
<1>4. q \in A /\ ptr[r] \in below[q] /\ q # ptr[r]
  BY DEF Shape
<1>5. PICK side \in Branches : ptr[r] \in below[ptr[<<q, side>>]]
  BY <1>4, BelowSides
<1> DEFINE inner == ptr[<<q, side>>]
<1>6. inner \in {Null} \cup A /\ below[inner] \subseteq below[q] /\ q \in below[q]
  BY <1>4, BelowSides
<1>7. rank[inner] < rank[q]
  BY <1>4, <1>6, BelowRank
<1>8. CASE inner = ptr[r]
  <2>1. ptr[r] # Null /\ <<q, side>> \in RefsOf(A)
    BY <1>4, References DEF Shape
  <2>2. r = <<q, side>>
    BY <1>8, <2>1 DEF Shape
  <2>3. r # RootRef /\ r[1] = q
    BY <1>4, <2>2, References DEF Shape
  <2> QED BY <1>6, <2>3
<1>9. CASE inner # ptr[r]
  <2>1. inner \notin wrong
    BY <1>3, <1>7
  <2>2. r # RootRef /\ r[1] \in below[inner]
    BY <1>5, <1>6, <1>9, <2>1
  <2> QED BY <1>6, <2>2
<1> QED BY <1>8, <1>9

-----------------------------------------------------------------------------
(* The binary search tree: searching. *)

\* Where the value v goes from a reference, and the references it goes no further from.
Side(v, w)      == IF v < w THEN "left" ELSE "right"
Stops(A, ptr, val, v) == {r \in RefsOf(A) : ptr[r] = Null \/ val[ptr[r]] = v}
Onto(A, ptr, val, v)  == [r \in RefsOf(A) \ Stops(A, ptr, val, v) |-> <<ptr[r], Side(v, val[ptr[r]])>>]

\* Every node above the reference r has sent the value v to the side that r is on.
OnTheWay(A, ptr, below, val, v, r) ==
  \A a \in A : /\ r = <<a, "left">> \/ r[1] \in below[ptr[<<a, "left">>]] => v < val[a]
               /\ r = <<a, "right">> \/ r[1] \in below[ptr[<<a, "right">>]] => v > val[a]

\* The search for v ends where every node above sends it, and at the node that has v if
\* there is one.
LEMMA SearchEnds ==
  ASSUME NEW A, NEW ptr, NEW below, Shape(A, ptr, below),
         NEW val \in [A -> Int], Sorted(A, ptr, below, val), NEW v \in Int, NEW f,
         f = [r \in RefsOf(A) |-> IF r \in Stops(A, ptr, val, v) THEN r
                                  ELSE f[Onto(A, ptr, val, v)[r]]]
  PROVE  /\ f[RootRef] \in RefsOf(A)
         /\ ptr[f[RootRef]] # Null => val[ptr[f[RootRef]]] = v
         /\ OnTheWay(A, ptr, below, val, v, f[RootRef])
         /\ \A b \in A : val[b] = v => ptr[f[RootRef]] = b
<1> DEFINE S    == RefsOf(A)
           E    == Stops(A, ptr, val, v)
           next == Onto(A, ptr, val, v)
           rank == [r \in S |-> Cardinality(below[ptr[r]])]
<1>1. /\ A \in SUBSET (Nat \ {Null}) /\ RootRef \in S
      /\ \A r \in S : ptr[r] \in {Null} \cup A
  BY References DEF Shape
<1>2. ASSUME NEW r \in S \ E
      PROVE  /\ ptr[r] \in A /\ val[ptr[r]] # v /\ val[ptr[r]] \in Int
             /\ \/ v < val[ptr[r]] /\ next[r] = <<ptr[r], "left">>
                \/ v > val[ptr[r]] /\ next[r] = <<ptr[r], "right">>
  <2>1. ptr[r] \in A /\ val[ptr[r]] # v /\ val[ptr[r]] \in Int
    BY <1>1 DEF Stops
  <2>2. next[r] = <<ptr[r], Side(v, val[ptr[r]])>>
    BY DEF Onto
  <2> HIDE DEF next, E
  <2> QED BY <2>1, <2>2 DEF Side
<1>3. ASSUME NEW r \in S \ E
      PROVE  /\ \E side \in Branches : next[r] = <<ptr[r], side>>
             /\ next[r] \in S
  <2>1. \E side \in Branches : next[r] = <<ptr[r], side>>
    <3> HIDE DEF next, E
    <3> QED BY <1>2, References, <1>1
  <2> HIDE DEF next, E
  <2> QED BY <1>1, <1>2, <2>1, References
<1>4. E \in SUBSET S /\ next \in [S \ E -> S]
  <2>1. E \in SUBSET S
    BY DEF Stops
  <2>2. next = [r \in S \ E |-> next[r]]
    BY DEF Onto
  <2> HIDE DEF S, E, next
  <2> QED BY <1>3, <2>1, <2>2
<1>5. rank \in [S -> Nat] /\ \A r \in S \ E : rank[next[r]] < rank[r]
  <2>1. \A r \in S : Cardinality(below[ptr[r]]) \in Nat
    BY <1>1, BelowRank
  <2>2. ASSUME NEW r \in S \ E PROVE rank[next[r]] < rank[r]
    <3>1. PICK side \in Branches : next[r] = <<ptr[r], side>>
      BY <1>3
    <3>2. rank[next[r]] = Cardinality(below[ptr[<<ptr[r], side>>]]) /\ rank[r] = Cardinality(below[ptr[r]])
      BY <1>3, <3>1
    <3> HIDE DEF rank, next
    <3> QED BY <1>2, <3>2, BelowRank
  <2> HIDE DEF next, E, S
  <2> QED BY <2>1, <2>2
<1>6. ASSUME NEW P \in SUBSET S, RootRef \in P, \A r \in P \ E : next[r] \in P
      PROVE  f[RootRef] \in P \cap E
  <2> HIDE DEF S, E, next, rank
  <2>1. \A r \in S : f[r] = IF r \in E THEN r ELSE f[next[r]]
    BY DEF S, E, next
  <2>2. /\ E \in SUBSET S /\ next \in [S \ E -> S] /\ rank \in [S -> Nat]
        /\ \A x \in S \ E : rank[next[x]] < rank[x]
    BY <1>4, <1>5
  <2>4. Descends(S, E, next, f, rank)
    BY <2>1, <2>2 DEF Descends
  <2>3. \A Q \in SUBSET S : (\A x \in Q \ E : next[x] \in Q) => \A start \in Q : f[start] \in Q \cap E
    BY <2>4, DescentStays
  <2> QED BY <1>6, <2>3
<1>7. f[RootRef] \in S \cap E
  <2> HIDE DEF E, next
  <2> QED BY <1>1, <1>3, <1>6
<1>8. OnTheWay(A, ptr, below, val, v, f[RootRef])
  <2> DEFINE P == {r \in S : OnTheWay(A, ptr, below, val, v, r)}
  <2>1. RootRef \in P
    <3>1. \A a \in A : RootRef # <<a, "left">> /\ RootRef # <<a, "right">>
      BY <1>1, References
    <3>2. \A p \in {Null} \cup A : RootRef[1] \notin below[p]
      BY <1>1, References DEF Shape
    <3>3. \A a \in A : ptr[<<a, "left">>] \in {Null} \cup A /\ ptr[<<a, "right">>] \in {Null} \cup A
      BY <1>1, References
    <3> QED BY <1>1, <3>1, <3>2, <3>3 DEF OnTheWay
  <2>2. ASSUME NEW r \in P \ E PROVE next[r] \in P
    <3>1. r \in S \ E /\ OnTheWay(A, ptr, below, val, v, r)
      OBVIOUS
    <3>2. next[r] \in S /\ next[r][1] = ptr[r] /\ ptr[r] \in A
      BY <1>1, <1>2, <1>3, <3>1, References
    <3> DEFINE n == next[r]
    <3>3. ASSUME NEW a \in A, NEW side \in Branches, n[1] \in below[ptr[<<a, side>>]]
          PROVE  r = <<a, side>> \/ r[1] \in below[ptr[<<a, side>>]]
      <4>1. <<a, side>> \in S /\ ptr[<<a, side>>] \in {Null} \cup A
        BY <1>1, References
      <4>2. CASE ptr[<<a, side>>] = ptr[r]
        BY <3>1, <3>2, <4>1, <4>2, <1>1 DEF Shape
      <4>3. CASE ptr[<<a, side>>] # ptr[r]
        BY <3>1, <3>2, <3>3, <4>1, <4>3, ReferenceBelow
      <4> QED BY <4>2, <4>3
    <3>4. ASSUME NEW a \in A
          PROVE  /\ n = <<a, "left">> => v < val[a]
                 /\ n = <<a, "right">> => v > val[a]
      <4>1. CASE v < val[ptr[r]] /\ n = <<ptr[r], "left">>
        BY <4>1
      <4>2. CASE v > val[ptr[r]] /\ n = <<ptr[r], "right">>
        BY <4>2
      <4> QED BY <1>2, <3>1, <4>1, <4>2
    <3> HIDE DEF n
    <3>5. OnTheWay(A, ptr, below, val, v, n)
      BY <3>1, <3>3, <3>4 DEF OnTheWay, Branches
    <3> QED BY <3>2, <3>5 DEF n
  <2>3. f[RootRef] \in P
    <3> HIDE DEF E, next
    <3> QED BY <1>6, <2>1, <2>2
  <2> QED BY <2>3
<1>9. ASSUME NEW b \in A, val[b] = v PROVE ptr[f[RootRef]] = b
  <2> DEFINE P == {r \in S : b \in below[ptr[r]]}
  <2>1. RootRef \in P
    BY <1>1 DEF Shape
  <2>2. ASSUME NEW r \in P \ E PROVE next[r] \in P
    <3>1. r \in S \ E /\ b \in below[ptr[r]]
      OBVIOUS
    <3>2. next[r] \in S /\ ptr[r] \in A /\ b # ptr[r]
      BY <1>2, <1>3, <1>9, <3>1
    <3>3. b \in below[ptr[<<ptr[r], "left">>]] \/ b \in below[ptr[<<ptr[r], "right">>]]
      <4> HIDE DEF next, E, S
      <4> QED BY <3>1, <3>2, BelowSides DEF Branches
    <3>4. /\ b \in below[ptr[<<ptr[r], "left">>]] => v < val[ptr[r]]
          /\ b \in below[ptr[<<ptr[r], "right">>]] => v > val[ptr[r]]
      BY <1>9, <3>2 DEF Sorted
    <3>5. val[ptr[r]] \in Int
      BY <1>2, <3>1
    <3>6. b \in below[ptr[next[r]]]
      <4>1. CASE v < val[ptr[r]] /\ next[r] = <<ptr[r], "left">>
        BY <3>3, <3>4, <3>5, <4>1
      <4>2. CASE v > val[ptr[r]] /\ next[r] = <<ptr[r], "right">>
        BY <3>3, <3>4, <3>5, <4>2
      <4> QED BY <1>2, <3>1, <4>1, <4>2
    <3> QED BY <3>2, <3>6
  <2>3. f[RootRef] \in P /\ f[RootRef] \in E
    <3> HIDE DEF E, next
    <3> QED BY <1>6, <2>1, <2>2
  <2> DEFINE p == ptr[f[RootRef]]
  <2>4. b \in below[p] /\ p \in {Null} \cup A
    BY <1>1, <2>3
  <2>5. p # Null /\ p \in A
    BY <2>4 DEF Shape
  <2>6. val[p] = v
    BY <2>3, <2>5 DEF Stops
  <2>7. b = p \/ b \in below[ptr[<<p, "left">>]] \/ b \in below[ptr[<<p, "right">>]]
    <3> HIDE DEF p
    <3> QED BY <2>4, <2>5, BelowSides DEF Branches
  <2>8. val[b] \in Int /\ (b # p => val[b] < val[p] \/ val[b] > val[p])
    <3> HIDE DEF p
    <3> QED BY <2>5, <2>7 DEF Sorted
  <2> HIDE DEF p
  <2>9. b = p
    BY <1>9, <2>6, <2>8
  <2> QED BY <2>9 DEF p
<1>10. ptr[f[RootRef]] # Null => val[ptr[f[RootRef]]] = v
  BY <1>7 DEF Stops
<1> QED BY <1>7, <1>8, <1>9, <1>10

\* The walk to the left from a reference ends at the node of the least value below it.
LEMMA LeastEnds ==
  ASSUME NEW A, NEW ptr, NEW below, Shape(A, ptr, below),
         NEW val \in [A -> Int], Sorted(A, ptr, below, val), NEW f,
         f = [r \in {r \in RefsOf(A) : ptr[r] # Null} |->
                IF ptr[<<ptr[r], "left">>] = Null THEN r ELSE f[<<ptr[r], "left">>]],
         NEW from \in RefsOf(A), ptr[from] # Null
  PROVE  /\ f[from] \in RefsOf(A) /\ ptr[f[from]] \in below[ptr[from]]
         /\ ptr[<<ptr[f[from]], "left">>] = Null
         /\ \A b \in below[ptr[from]] : b = ptr[f[from]] \/ val[b] > val[ptr[f[from]]]
<1> DEFINE S    == {r \in RefsOf(A) : ptr[r] # Null}
           E    == {r \in S : ptr[<<ptr[r], "left">>] = Null}
           next == [r \in S \ E |-> <<ptr[r], "left">>]
           rank == [r \in S |-> Cardinality(below[ptr[r]])]
           top  == below[ptr[from]]
           P    == {r \in S : /\ below[ptr[r]] \subseteq top
                              /\ \A b \in top \ below[ptr[r]], c \in below[ptr[r]] : val[b] > val[c]}
<1>1. /\ A \in SUBSET (Nat \ {Null}) /\ \A r \in S : ptr[r] \in A /\ below[ptr[r]] \subseteq A
      /\ "left" \in Branches /\ "right" \in Branches
  BY References DEF Shape
<1>2. E \in SUBSET S /\ next \in [S \ E -> S]
  <2>1. \A r \in S \ E : <<ptr[r], "left">> \in S
    BY <1>1, References
  <2> QED BY <2>1
<1>3. rank \in [S -> Nat] /\ \A r \in S \ E : rank[next[r]] < rank[r]
  <2>1. \A r \in S : Cardinality(below[ptr[r]]) \in Nat
    BY <1>1, BelowRank
  <2>2. ASSUME NEW r \in S \ E PROVE rank[next[r]] < rank[r]
    <3>1. next[r] = <<ptr[r], "left">> /\ next[r] \in S
      BY <1>2
    <3>2. rank[next[r]] = Cardinality(below[ptr[<<ptr[r], "left">>]]) /\ rank[r] = Cardinality(below[ptr[r]])
      BY <3>1
    <3> HIDE DEF rank, next
    <3> QED BY <1>1, <3>2, BelowRank
  <2> HIDE DEF next, E, S
  <2> QED BY <2>1, <2>2
<1>4. P \in SUBSET S /\ from \in P
  OBVIOUS
<1>5. ASSUME NEW r \in P \ E PROVE next[r] \in P
  <2>1. r \in S \ E /\ next[r] \in S /\ next[r] = <<ptr[r], "left">>
    BY <1>2
  <2> DEFINE inner == below[ptr[<<ptr[r], "left">>]]
  <2>2. ptr[r] \in A /\ ptr[next[r]] = ptr[<<ptr[r], "left">>]
    BY <1>1, <2>1
  <2>3. inner \subseteq below[ptr[r]] /\ inner \subseteq top /\ top \subseteq A
    BY <1>1, <2>2, BelowSides
  <2>4. ASSUME NEW b \in top \ inner, NEW c \in inner PROVE val[b] > val[c]
    <3>1. val[b] \in Int /\ val[c] \in Int /\ val[ptr[r]] \in Int
      BY <2>2, <2>3
    <3>2. CASE b \notin below[ptr[r]]
      BY <2>3, <3>2
    <3>3. CASE b = ptr[r]
      BY <2>2, <3>3, <3>1 DEF Sorted
    <3>4. CASE b \in below[ptr[<<ptr[r], "right">>]]
      BY <2>2, <3>4, <3>1 DEF Sorted
    <3>5. b \in below[ptr[r]] => b = ptr[r] \/ b \in below[ptr[<<ptr[r], "right">>]]
      BY <2>2, BelowSides DEF Branches
    <3> QED BY <3>2, <3>3, <3>4, <3>5
  <2> HIDE DEF S, E, next, top
  <2> QED BY <2>1, <2>2, <2>3, <2>4
<1>6. f[from] \in P \cap E
  <2>1. \A r \in S : f[r] = IF r \in E THEN r ELSE f[next[r]]
    <3>1. \A r \in S : (IF ptr[<<ptr[r], "left">>] = Null THEN r ELSE f[<<ptr[r], "left">>])
                        = (IF r \in E THEN r ELSE f[next[r]])
      OBVIOUS
    <3> HIDE DEF E, next
    <3> QED BY <3>1
  <2>2. /\ E \in SUBSET S /\ next \in [S \ E -> S] /\ rank \in [S -> Nat]
        /\ \A x \in S \ E : rank[next[x]] < rank[x]
    BY <1>2, <1>3
  <2> HIDE DEF S, E, next, rank, P
  <2>4. Descends(S, E, next, f, rank)
    BY <2>1, <2>2 DEF Descends
  <2>3. \A Q \in SUBSET S : (\A x \in Q \ E : next[x] \in Q) => \A start \in Q : f[start] \in Q \cap E
    BY <2>4, DescentStays
  <2> QED BY <1>4, <1>5, <2>3
<1> DEFINE m == ptr[f[from]]
<1>7. m \in A /\ ptr[<<m, "left">>] = Null /\ f[from] \in P
  BY <1>1, <1>6
<1>8. m \in top
  BY <1>7, BelowSides
<1>9. ASSUME NEW b \in top PROVE b = m \/ val[b] > val[m]
  <2>1. m \in below[m] /\ (b \in below[m] => b = m \/ b \in below[ptr[<<m, "right">>]])
    <3>1. below[ptr[<<m, "left">>]] = {}
      BY <1>7 DEF Shape
    <3> HIDE DEF m
    <3> QED BY <1>7, <3>1, BelowSides DEF Branches
  <2>2. CASE b \notin below[m]
    BY <1>7, <2>1, <2>2
  <2>3. CASE b \in below[ptr[<<m, "right">>]]
    BY <1>7, <2>3 DEF Sorted
  <2> QED BY <2>1, <2>2, <2>3
<1> QED BY <1>6, <1>7, <1>8, <1>9

-----------------------------------------------------------------------------
(* The binary search tree: what an insertion and a removal make of the shape. *)

\* A new node put in a reference, and a node cut out of one with c in its place.
Grown(A, ptr, ref, new) == [r \in RefsOf(A \cup {new}) |->
                              IF r = ref THEN new ELSE IF r \in RefsOf(A) THEN ptr[r] ELSE Null]
ValueAdded(A, val, new, v) == [a \in A \cup {new} |-> IF a = new THEN v ELSE val[a]]
Cut(A, ptr, ref, c) == [r \in RefsOf(A \ {ptr[ref]}) |-> IF r = ref THEN c ELSE ptr[r]]

\* The only child of a node, or Null, and what is below a reference when x is cut out.
OnlyChild(ptr, x, c) == \/ ptr[<<x, "left">>] = Null /\ c = ptr[<<x, "right">>]
                        \/ ptr[<<x, "right">>] = Null /\ c = ptr[<<x, "left">>]
BelowCut(A, ptr, below, x, ptr2, below2) ==
  \A r \in RefsOf(A \ {x}) : below2[ptr2[r]] = below[ptr[r]] \ {x}

\* The least of some nodes, and the values when that of x has moved to a.
Least(x, nodes, val) == x \in nodes /\ \A b \in nodes : b = x \/ val[b] > val[x]
ValuesMoved(A, val, a, x, val2) == \A b \in A \ {x} : val2[b] = IF b = a THEN val[x] ELSE val[b]

\* A new node with a value put where the search for the value has ended: it is below the
\* nodes that the reference is below.
LEMMA ShapeGrown ==
  ASSUME NEW A, NEW ptr, NEW below, Shape(A, ptr, below),
         NEW val \in [A -> Int], Sorted(A, ptr, below, val), NEW v \in Int,
         NEW ref \in RefsOf(A), ptr[ref] = Null, OnTheWay(A, ptr, below, val, v, ref),
         NEW new \in Nat \ {Null}, new \notin A
  PROVE  \E below2 : /\ Shape(A \cup {new}, Grown(A, ptr, ref, new), below2)
                     /\ Sorted(A \cup {new}, Grown(A, ptr, ref, new), below2,
                               ValueAdded(A, val, new, v))
<1> DEFINE ptr2 == Grown(A, ptr, ref, new)
           val2 == ValueAdded(A, val, new, v)
<1>0. /\ ptr2 = [r \in RefsOf(A \cup {new}) |->
                   IF r = ref THEN new ELSE IF r \in RefsOf(A) THEN ptr[r] ELSE Null]
      /\ val2 = [a \in A \cup {new} |-> IF a = new THEN v ELSE val[a]]
  BY DEF Grown, ValueAdded
<1> HIDE DEF ptr2, val2
<1> DEFINE B      == A \cup {new}
           Add(q) == IF ref[1] \in below[q] THEN {new} ELSE {}
           below2 == [q \in {Null} \cup B |-> IF q = new THEN {new} ELSE below[q] \cup Add(q)]
<1>1. /\ A \in SUBSET (Nat \ {Null}) /\ B \in SUBSET (Nat \ {Null}) /\ IsFiniteSet(B)
      /\ \A q \in {Null} \cup A : below[q] \subseteq A
      /\ \A r \in RefsOf(A) : ptr[r] \in {Null} \cup A
      /\ "left" \in Branches /\ "right" \in Branches
  BY FS_AddElement DEF Shape, Branches
<1>2. /\ \A r \in RefsOf(A) : r \in RefsOf(B) /\ r # <<new, "left">> /\ r # <<new, "right">>
      /\ \A r \in RefsOf(B) : r \in RefsOf(A) \/ r = <<new, "left">> \/ r = <<new, "right">>
      /\ <<new, "left">> \in RefsOf(B) /\ <<new, "right">> \in RefsOf(B)
  BY <1>1 DEF RefsOf, RootRef, Branches
<1>3. /\ ptr2[ref] = new /\ \A r \in RefsOf(A) : r # ref => ptr2[r] = ptr[r]
      /\ ptr2[<<new, "left">>] = Null /\ ptr2[<<new, "right">>] = Null
  BY <1>0, <1>2 DEF RefsOf
<1>4. ptr2 \in [RefsOf(B) -> {Null} \cup B]
  BY <1>0, <1>1, <1>2, <1>3
<1>5. \A r, s \in RefsOf(B) : ptr2[r] = ptr2[s] /\ ptr2[r] # Null => r = s
  <2>1. \A r \in RefsOf(A) : ptr[r] # new
    BY <1>1
  <2>2. \A r, s \in RefsOf(A) : ptr[r] = ptr[s] /\ ptr[r] # Null => r = s
    BY DEF Shape
  <2>3. \A r \in RefsOf(B) : ptr2[r] # Null => r \in RefsOf(A)
    BY <1>2, <1>3
  <2>4. \A r \in RefsOf(A) : ptr2[r] = new <=> r = ref
    BY <1>3, <2>1
  <2> HIDE DEF B
  <2> QED BY <1>3, <2>2, <2>3, <2>4
<1>6. /\ below2 \in [{Null} \cup B -> SUBSET B]
      /\ below2[Null] = {} /\ below2[new] = {new}
      /\ \A q \in {Null} \cup A : below2[q] = below[q] \cup Add(q)
  <2>1. below[Null] = {}
    BY DEF Shape
  <2> QED BY <1>1, <2>1
<1>7. \A r \in RefsOf(A) : below2[ptr2[r]] = below[ptr[r]] \cup (IF r = ref THEN {new} ELSE Add(ptr[r]))
  <2> TAKE r \in RefsOf(A)
  <2>1. CASE r = ref
    BY <1>3, <1>6, <2>1 DEF Shape
  <2>2. CASE r # ref
    BY <1>1, <1>3, <1>6, <2>2
  <2> QED BY <2>1, <2>2
<1> HIDE DEF below2
<1>8. below2[ptr2[RootRef]] = B
  <2>1. RootRef \in RefsOf(A) /\ below[ptr[RootRef]] = A
    BY References DEF Shape
  <2>2. CASE ref = RootRef
    BY <1>7, <2>1, <2>2
  <2>3. CASE ref # RootRef
    <3>1. ref[1] \in A
      BY <1>1, <2>3, References
    <3> QED BY <1>7, <2>1, <2>3, <3>1
  <2> QED BY <2>2, <2>3
<1>9. ASSUME NEW a \in A
      PROVE  /\ below2[a] = {a} \cup below2[ptr2[<<a, "left">>]] \cup below2[ptr2[<<a, "right">>]]
             /\ \A side \in Branches : a \notin below2[ptr2[<<a, side>>]]
  <2> DEFINE l == <<a, "left">>
             r == <<a, "right">>
  <2>1. /\ l \in RefsOf(A) /\ r \in RefsOf(A) /\ l # r /\ l[1] = a /\ r[1] = a
        /\ (ref[1] = a => ref = l \/ ref = r)
    <3>1. Null # a
      BY <1>1
    <3> QED BY <1>1, <3>1 DEF RefsOf, RootRef, Branches
  <2>2. /\ below2[a] = below[a] \cup Add(a)
        /\ below2[ptr2[l]] = below[ptr[l]] \cup (IF l = ref THEN {new} ELSE Add(ptr[l]))
        /\ below2[ptr2[r]] = below[ptr[r]] \cup (IF r = ref THEN {new} ELSE Add(ptr[r]))
    BY <1>6, <1>7, <2>1
  <2>3. /\ below[a] = {a} \cup below[ptr[l]] \cup below[ptr[r]]
        /\ a \notin below[ptr[l]] /\ a \notin below[ptr[r]]
    BY <1>1 DEF Shape
  <2>4. a # new
    OBVIOUS
  <2>5. Add(a) = (IF l = ref THEN {new} ELSE Add(ptr[l])) \cup (IF r = ref THEN {new} ELSE Add(ptr[r]))
    <3>1. CASE ref = l
      BY <2>1, <2>3, <3>1
    <3>2. CASE ref = r
      BY <2>1, <2>3, <3>2
    <3>3. CASE ref # l /\ ref # r
      <4>1. ref[1] # a
        BY <2>1, <3>3
      <4> HIDE DEF l, r
      <4> QED BY <2>3, <3>3, <4>1
    <3> QED BY <3>1, <3>2, <3>3
  <2>6. below2[a] = {a} \cup below2[ptr2[l]] \cup below2[ptr2[r]]
    <3> HIDE DEF l, r
    <3> QED BY <2>2, <2>3, <2>5
  <2>7. a \notin below2[ptr2[l]] /\ a \notin below2[ptr2[r]]
    <3> HIDE DEF l, r
    <3> QED BY <2>2, <2>3, <2>4
  <2> QED BY <2>6, <2>7 DEF Branches
<1>10. Shape(B, ptr2, below2)
  <2>1. /\ below2[new] = {new} \cup below2[ptr2[<<new, "left">>]] \cup below2[ptr2[<<new, "right">>]]
        /\ \A side \in Branches : new \notin below2[ptr2[<<new, side>>]]
    BY <1>3, <1>6 DEF Branches
  <2>2. \A a \in B :
          /\ below2[a] = {a} \cup below2[ptr2[<<a, "left">>]] \cup below2[ptr2[<<a, "right">>]]
          /\ \A side \in Branches : a \notin below2[ptr2[<<a, side>>]]
    <3> TAKE a \in B
    <3>1. CASE a = new
      BY <2>1, <3>1
    <3>2. CASE a \in A
      BY <1>9, <3>2
    <3> QED BY <3>1, <3>2
  <2> HIDE DEF B, Add
  <2> QED BY <1>1, <1>4, <1>5, <1>6, <1>8, <2>2 DEF Shape
<1>11. Sorted(B, ptr2, below2, val2)
  <2>1. val2[new] = v /\ \A a \in A : val2[a] = val[a]
    BY <1>0
  <2>2. ASSUME NEW a \in A
        PROVE  /\ \A b \in below2[ptr2[<<a, "left">>]]  : val2[b] < val2[a]
               /\ \A b \in below2[ptr2[<<a, "right">>]] : val2[b] > val2[a]
    <3>1. <<a, "left">> \in RefsOf(A) /\ <<a, "right">> \in RefsOf(A)
      BY <1>1, References
    <3>2. /\ \A b \in below2[ptr2[<<a, "left">>]] :
               \/ b \in below[ptr[<<a, "left">>]]
               \/ b = new /\ (ref = <<a, "left">> \/ ref[1] \in below[ptr[<<a, "left">>]])
          /\ \A b \in below2[ptr2[<<a, "right">>]] :
               \/ b \in below[ptr[<<a, "right">>]]
               \/ b = new /\ (ref = <<a, "right">> \/ ref[1] \in below[ptr[<<a, "right">>]])
      <4>1. \A r \in RefsOf(A) : \A b \in below2[ptr2[r]] :
              \/ b \in below[ptr[r]]
              \/ b = new /\ (ref = r \/ ref[1] \in below[ptr[r]])
        BY <1>7
      <4> QED BY <3>1, <4>1
    <3>3. below[ptr[<<a, "left">>]] \subseteq A /\ below[ptr[<<a, "right">>]] \subseteq A
      BY <1>1, <3>1
    <3>4. /\ ref = <<a, "left">> \/ ref[1] \in below[ptr[<<a, "left">>]] => v < val[a]
          /\ ref = <<a, "right">> \/ ref[1] \in below[ptr[<<a, "right">>]] => v > val[a]
      BY DEF OnTheWay
    <3>5. /\ \A b \in below[ptr[<<a, "left">>]]  : val[b] < val[a]
          /\ \A b \in below[ptr[<<a, "right">>]] : val[b] > val[a]
      BY DEF Sorted
    <3> QED BY <2>1, <3>2, <3>3, <3>4, <3>5
  <2>3. below2[ptr2[<<new, "left">>]] = {} /\ below2[ptr2[<<new, "right">>]] = {}
    BY <1>3, <1>6
  <2> QED BY <2>2, <2>3 DEF Sorted
<1> QED BY <1>10, <1>11 DEF ptr2, val2

\* A node with at most one child cut out, its child in its place.
LEMMA ShapeCut ==
  ASSUME NEW A, NEW ptr, NEW below, Shape(A, ptr, below),
         NEW ref \in RefsOf(A), NEW x, x = ptr[ref], x # Null, NEW c, OnlyChild(ptr, x, c)
  PROVE  /\ ref \in RefsOf(A \ {x})
         /\ \E below2 : /\ Shape(A \ {x}, Cut(A, ptr, ref, c), below2)
                        /\ BelowCut(A, ptr, below, x, Cut(A, ptr, ref, c), below2)
<1> DEFINE ptr2 == Cut(A, ptr, ref, c)
<1>0. ptr2 = [r \in RefsOf(A \ {x}) |-> IF r = ref THEN c ELSE ptr[r]]
  BY DEF Cut
<1> HIDE DEF ptr2
<1> DEFINE B == A \ {x}
           below2 == [q \in {Null} \cup (A \ {x}) |-> below[q] \ {x}]
<1>1. /\ A \in SUBSET (Nat \ {Null}) /\ B \in SUBSET (Nat \ {Null}) /\ IsFiniteSet(B) /\ x \in A
      /\ \A q \in {Null} \cup A : below[q] \subseteq A
      /\ \A r \in RefsOf(A) : ptr[r] \in {Null} \cup A
      /\ "left" \in Branches /\ "right" \in Branches
  BY FS_RemoveElement DEF Shape, Branches
<1>2. /\ \A r \in RefsOf(B) : r \in RefsOf(A) /\ r # <<x, "left">> /\ r # <<x, "right">>
      /\ \A r \in RefsOf(A) : r \in RefsOf(B) \/ r = <<x, "left">> \/ r = <<x, "right">>
      /\ <<x, "left">> \in RefsOf(A) /\ <<x, "right">> \in RefsOf(A)
  BY <1>1 DEF RefsOf, RootRef, Branches
<1>3. ref \in RefsOf(B)
  <2>1. ref # <<x, "left">> /\ ref # <<x, "right">>
    BY <1>1, BelowSides
  <2> QED BY <1>2, <2>1
<1>4. c \in {Null} \cup B /\ below[c] = below[x] \ {x} /\ x \notin below[c]
  <2>1. c \in {Null} \cup A
    BY <1>1, <1>2 DEF OnlyChild
  <2>2. below[x] = {x} \cup below[c] /\ x \notin below[c]
    <3>1. /\ below[x] = {x} \cup below[ptr[<<x, "left">>]] \cup below[ptr[<<x, "right">>]]
          /\ x \notin below[ptr[<<x, "left">>]] /\ x \notin below[ptr[<<x, "right">>]]
          /\ below[Null] = {}
      BY <1>1 DEF Shape
    <3> QED BY <3>1 DEF OnlyChild
  <2>3. c # x
    BY <1>1, <2>2, BelowSides
  <2> QED BY <2>1, <2>2, <2>3
<1>5. /\ ptr2[ref] = c /\ \A r \in RefsOf(B) : r # ref => ptr2[r] = ptr[r] /\ ptr[r] # x
      /\ ptr2 \in [RefsOf(B) -> {Null} \cup B]
  <2>1. \A r \in RefsOf(B) : r # ref => ptr[r] # x
    BY <1>2 DEF Shape
  <2>2. ptr2[ref] = c /\ \A r \in RefsOf(B) : r # ref => ptr2[r] = ptr[r]
    BY <1>0, <1>3
  <2>3. \A r \in RefsOf(B) : ptr2[r] \in {Null} \cup B
    BY <1>1, <1>2, <1>4, <2>1, <2>2
  <2>4. ptr2 = [r \in RefsOf(B) |-> ptr2[r]]
    BY <1>0
  <2> QED BY <2>1, <2>2, <2>3, <2>4
<1>6. \A r, s \in RefsOf(B) : ptr2[r] = ptr2[s] /\ ptr2[r] # Null => r = s
  <2>1. ASSUME NEW r \in RefsOf(B), r # ref, c # Null PROVE ptr[r] # c
    BY <1>2, <2>1 DEF Shape, OnlyChild
  <2>2. \A r, s \in RefsOf(B) : ptr[r] = ptr[s] /\ ptr[r] # Null => r = s
    BY <1>2 DEF Shape
  <2> QED BY <1>5, <2>1, <2>2
<1>7. /\ below2 \in [{Null} \cup B -> SUBSET B] /\ below2[Null] = {}
      /\ \A q \in {Null} \cup B : below2[q] = below[q] \ {x}
  BY <1>1 DEF Shape
<1> HIDE DEF below2
<1>8. \A r \in RefsOf(B) : below2[ptr2[r]] = below[ptr[r]] \ {x}
  <2> TAKE r \in RefsOf(B)
  <2>1. CASE r = ref
    BY <1>4, <1>5, <1>7, <2>1
  <2>2. CASE r # ref
    <3>1. ptr2[r] = ptr[r] /\ ptr[r] \in {Null} \cup B
      BY <1>1, <1>2, <1>5, <2>2
    <3> QED BY <1>7, <3>1
  <2> QED BY <2>1, <2>2
<1>9. below2[ptr2[RootRef]] = B
  <2>1. RootRef \in RefsOf(B) /\ below[ptr[RootRef]] = A
    BY <1>1, References DEF Shape
  <2> QED BY <1>8, <2>1
<1>10. ASSUME NEW a \in B
       PROVE  /\ below2[a] = {a} \cup below2[ptr2[<<a, "left">>]] \cup below2[ptr2[<<a, "right">>]]
              /\ \A side \in Branches : a \notin below2[ptr2[<<a, side>>]]
  <2>1. /\ below[a] = {a} \cup below[ptr[<<a, "left">>]] \cup below[ptr[<<a, "right">>]]
        /\ a \notin below[ptr[<<a, "left">>]] /\ a \notin below[ptr[<<a, "right">>]] /\ a # x
    BY <1>1 DEF Shape
  <2>2. <<a, "left">> \in RefsOf(B) /\ <<a, "right">> \in RefsOf(B)
    BY <1>1, References
  <2>3. /\ below2[ptr2[<<a, "left">>]] = below[ptr[<<a, "left">>]] \ {x}
        /\ below2[ptr2[<<a, "right">>]] = below[ptr[<<a, "right">>]] \ {x}
        /\ below2[a] = below[a] \ {x}
    BY <1>7, <1>8, <2>2
  <2>4. \A side \in Branches : side = "left" \/ side = "right"
    BY DEF Branches
  <2> QED BY <2>1, <2>3, <2>4
<1>11. Shape(B, ptr2, below2)
  BY <1>1, <1>5, <1>6, <1>7, <1>9, <1>10 DEF Shape
<1> QED BY <1>3, <1>8, <1>11 DEF BelowCut, ptr2

-----------------------------------------------------------------------------
(* The binary search tree: the tree on the heap. *)

Pointers == [r \in RefsOf(DOMAIN node) |-> At(r)]
ValuesOf == [a \in DOMAIN node |-> node[a].value]

NodeTypes == /\ node \in [DOMAIN node -> [value : Values, left : Nat, right : Nat]]
             /\ root \in Nat

\* The heap holds a tree whose values are in order.
IsTree(below) == /\ Shape(DOMAIN node, Pointers, below)
                 /\ Sorted(DOMAIN node, Pointers, below, ValuesOf)
TreeInv == NodeTypes /\ \E below : IsTree(below)

\* What the heap says of the references and the values.
LEMMA OnTheHeap ==
  ASSUME NodeTypes, NEW below, IsTree(below)
  PROVE  /\ Refs = RefsOf(DOMAIN node) /\ DOMAIN node \in SUBSET (Nat \ {Null})
         /\ IsFiniteSet(DOMAIN node)
         /\ \A r \in Refs : At(r) \in {Null} \cup DOMAIN node /\ Pointers[r] = At(r)
         /\ \A a \in DOMAIN node : /\ At(<<a, "left">>) = node[a].left
                                  /\ At(<<a, "right">>) = node[a].right
                                  /\ <<a, "left">> \in Refs /\ <<a, "right">> \in Refs
         /\ ValuesOf \in [DOMAIN node -> Int] /\ ValuesOf \in [DOMAIN node -> Values]
         /\ \A a \in DOMAIN node : ValuesOf[a] = node[a].value /\ node[a].value \in Values
<1> DEFINE A == DOMAIN node
<1>1. /\ A \in SUBSET (Nat \ {Null}) /\ IsFiniteSet(A)
      /\ Pointers \in [RefsOf(A) -> {Null} \cup A]
  BY DEF IsTree, Shape
<1>2. Refs = RefsOf(A)
  BY DEF Refs, RefsOf, Branches
<1>3. \A r \in Refs : Pointers[r] = At(r) /\ At(r) \in {Null} \cup A
  BY <1>1, <1>2 DEF Pointers
<1>4. \A a \in A : /\ At(<<a, "left">>) = node[a].left /\ At(<<a, "right">>) = node[a].right
                   /\ <<a, "left">> \in Refs /\ <<a, "right">> \in Refs
  <2> TAKE a \in A
  <2>1. "left" \in Branches /\ "right" \in Branches /\ "left" # "right"
    BY DEF Branches
  <2>2. /\ <<a, "left">> \in RefsOf(A) /\ <<a, "left">> # RootRef
        /\ <<a, "left">>[1] = a /\ <<a, "left">>[2] = "left"
        /\ <<a, "right">> \in RefsOf(A) /\ <<a, "right">> # RootRef
        /\ <<a, "right">>[1] = a /\ <<a, "right">>[2] = "right"
    <3> HIDE DEF A
    <3> QED BY <1>1, <2>1, References
  <2> QED BY <1>2, <2>1, <2>2 DEF At
<1>5. \A a \in A : node[a].value \in Values /\ node[a].value \in Int
  BY ValuesAssumption DEF NodeTypes
<1> QED BY <1>1, <1>2, <1>3, <1>4, <1>5 DEF ValuesOf

\* GetNodeRef is the search, and finds the value or its place.
LEMMA GetNodeRefFinds ==
  ASSUME NodeTypes, NEW below, IsTree(below), NEW value \in Values
  PROVE  /\ GetNodeRef(value) \in Refs
         /\ At(GetNodeRef(value)) # Null => /\ At(GetNodeRef(value)) \in DOMAIN node
                                            /\ node[At(GetNodeRef(value))].value = value
         /\ OnTheWay(DOMAIN node, Pointers, below, ValuesOf, value, GetNodeRef(value))
         /\ \A b \in DOMAIN node : node[b].value = value => At(GetNodeRef(value)) = b
<1> DEFINE A == DOMAIN node
           stops == Stops(A, Pointers, ValuesOf, value)
           next  == Onto(A, Pointers, ValuesOf, value)
           Turn(f, ref) == IF At(ref) = Null THEN ref
                           ELSE IF node[At(ref)].value = value THEN ref
                           ELSE f[<<At(ref), IF value < node[At(ref)].value THEN "left" ELSE "right">>]
           descend == CHOOSE f : f = [ref \in Refs |-> Turn(f, ref)]
<1>1. GetNodeRef(value) = descend[RootRef]
  BY DEF GetNodeRef
<1>2. stops \in SUBSET Refs /\ next \in [Refs \ stops -> Refs]
  <2>1. stops \in SUBSET Refs
    BY OnTheHeap DEF Stops
  <2>2. next = [r \in Refs \ stops |-> <<Pointers[r], Side(value, ValuesOf[Pointers[r]])>>]
    BY OnTheHeap DEF Onto
  <2>3. \A r \in Refs \ stops : Pointers[r] \in A
    BY OnTheHeap DEF Stops
  <2>4. \A r \in Refs \ stops : <<Pointers[r], Side(value, ValuesOf[Pointers[r]])>> \in Refs
    BY <2>3, OnTheHeap DEF Side
  <2> HIDE DEF stops, next
  <2> QED BY <2>1, <2>2, <2>4
<1>3. ASSUME NEW f, NEW r \in Refs
      PROVE  Turn(f, r) = IF r \in stops THEN r ELSE f[next[r]]
  <2>1. Pointers[r] = At(r) /\ At(r) \in {Null} \cup A /\ Refs = RefsOf(A)
    BY OnTheHeap
  <2>2. CASE At(r) = Null
    BY <2>1, <2>2 DEF Stops
  <2>3. CASE At(r) # Null
    <3>1. ValuesOf[At(r)] = node[At(r)].value /\ At(r) \in A
      BY <2>1, <2>3, OnTheHeap
    <3>2. r \in stops <=> node[At(r)].value = value
      BY <2>1, <2>3, <3>1 DEF Stops
    <3>3. r \notin stops =>
            next[r] = <<At(r), IF value < node[At(r)].value THEN "left" ELSE "right">>
      BY <2>1, <3>1 DEF Onto, Side
    <3> HIDE DEF stops, next
    <3> QED BY <2>3, <3>2, <3>3
  <2> QED BY <2>1, <2>2, <2>3
<1>4. descend = [ref \in Refs |-> IF ref \in stops THEN ref ELSE descend[next[ref]]]
  <2>1. \A f : [ref \in Refs |-> Turn(f, ref)] = [ref \in Refs |-> IF ref \in stops THEN ref ELSE f[next[ref]]]
    <3> HIDE DEF Turn, stops, next
    <3> QED BY <1>3
  <2>2. \E f : f = [ref \in Refs |-> IF ref \in stops THEN ref ELSE f[next[ref]]]
    <3> HIDE DEF stops, next
    <3> QED BY <1>2, DescentExists
  <2>3. \E f : f = [ref \in Refs |-> Turn(f, ref)]
    <3> HIDE DEF Turn, stops, next
    <3> QED BY <2>1, <2>2
  <2>4. descend = [ref \in Refs |-> Turn(descend, ref)]
    <3> HIDE DEF Turn, stops, next
    <3> QED BY <2>3
  <2> HIDE DEF Turn, stops, next, descend
  <2> QED BY <2>1, <2>4
<1> DEFINE r == descend[RootRef]
<1>5. /\ r \in RefsOf(A)
      /\ Pointers[r] # Null => ValuesOf[Pointers[r]] = value
      /\ OnTheWay(A, Pointers, below, ValuesOf, value, r)
      /\ \A b \in A : ValuesOf[b] = value => Pointers[r] = b
  <2>1. value \in Int /\ ValuesOf \in [A -> Int] /\ Refs = RefsOf(A)
    BY OnTheHeap, ValuesAssumption
  <2>2. Shape(A, Pointers, below) /\ Sorted(A, Pointers, below, ValuesOf)
    BY DEF IsTree
  <2> HIDE DEF descend, A
  <2> QED BY <1>4, <2>1, <2>2, SearchEnds
<1> HIDE DEF descend
<1>6. Pointers[r] = At(r) /\ At(r) \in {Null} \cup A /\ r \in Refs
  BY <1>5, OnTheHeap
<1> QED BY <1>1, <1>5, <1>6, OnTheHeap

\* What search finds is what the nodes hold.
LEMMA SearchIsMember ==
  ASSUME NodeTypes, NEW below, IsTree(below)
  PROVE  {value \in Values : Search(value)} = {node[a].value : a \in DOMAIN node}
<1>1. ASSUME NEW value \in Values
      PROVE  Search(value) <=> \E a \in DOMAIN node : node[a].value = value
  <2>1. \A a \in DOMAIN node : a # Null
    BY OnTheHeap
  <2> QED BY <2>1, GetNodeRefFinds DEF Search
<1>2. \A a \in DOMAIN node : node[a].value \in Values
  BY OnTheHeap
<1> QED BY <1>1, <1>2

\* Below is what the shape says, and the tree is sound.
LEMMA TreeInvIsSound == TreeInv => TreeIsSound
<1> SUFFICES ASSUME NodeTypes, NEW below, IsTree(below) PROVE TreeIsSound
  BY DEF TreeInv
<1> DEFINE A == DOMAIN node
           Turn(f, a) == IF a = Null THEN {} ELSE {a} \cup f[node[a].left] \cup f[node[a].right]
           under == CHOOSE f : f = [a \in {Null} \cup A |-> Turn(f, a)]
<1>1. \A pointer : Below(pointer) = under[pointer]
  BY DEF Below
<1>2. /\ below \in [{Null} \cup A -> SUBSET A] /\ below[Null] = {} /\ Null \notin A
      /\ \A a \in A : below[a] = {a} \cup below[node[a].left] \cup below[node[a].right]
  <2>1. \A a \in A : /\ Pointers[<<a, "left">>] = node[a].left
                     /\ Pointers[<<a, "right">>] = node[a].right
    BY OnTheHeap
  <2>2. Shape(A, Pointers, below)
    BY DEF IsTree
  <2> HIDE DEF A
  <2>3. /\ below \in [{Null} \cup A -> SUBSET A] /\ below[Null] = {} /\ A \in SUBSET (Nat \ {Null})
        /\ \A a \in A : below[a] = {a} \cup below[Pointers[<<a, "left">>]]
                                        \cup below[Pointers[<<a, "right">>]]
    BY <2>2 DEF Shape
  <2> QED BY <2>1, <2>3
<1>3. under = [a \in {Null} \cup A |-> Turn(under, a)]
  <2>1. below = [a \in {Null} \cup A |-> Turn(below, a)]
    <3>1. \A a \in {Null} \cup A : below[a] = Turn(below, a)
      BY <1>2
    <3>2. below = [a \in {Null} \cup A |-> below[a]]
      BY <1>2
    <3> HIDE DEF Turn
    <3> QED BY <3>1, <3>2
  <2> HIDE DEF Turn
  <2> QED BY <2>1
<1>4. under = below
  <2>1. \A a \in A : /\ Pointers[<<a, "left">>] = node[a].left
                     /\ Pointers[<<a, "right">>] = node[a].right
    BY OnTheHeap
  <2>2. under = [a \in {Null} \cup A |->
                   IF a = Null THEN {} ELSE {a} \cup under[Pointers[<<a, "left">>]]
                                              \cup under[Pointers[<<a, "right">>]]]
    <3> HIDE DEF under
    <3> QED BY <1>3, <2>1
  <2> HIDE DEF under, A
  <2>3. Shape(A, Pointers, below)
    BY DEF IsTree, A
  <2> QED BY <2>2, <2>3, BelowIsTheOne
<1> HIDE DEF under
<1>5. Below(root) = A
  <2>1. Pointers[RootRef] = root
    BY OnTheHeap DEF At, Refs
  <2> QED BY <1>1, <1>4, <2>1 DEF IsTree, Shape
<1>6. \A r, s \in Refs : At(r) = At(s) /\ At(r) # Null => r = s
  BY OnTheHeap DEF IsTree, Shape
<1>7. \A a \in A : /\ \A b \in Below(node[a].left)  : node[b].value < node[a].value
                   /\ \A b \in Below(node[a].right) : node[b].value > node[a].value
  <2> TAKE a \in A
  <2>1. /\ Pointers[<<a, "left">>] = node[a].left /\ node[a].left \in {Null} \cup A
        /\ Pointers[<<a, "right">>] = node[a].right /\ node[a].right \in {Null} \cup A
    BY OnTheHeap
  <2>2. Below(node[a].left) \subseteq A /\ Below(node[a].right) \subseteq A
    BY <1>1, <1>2, <1>4, <2>1
  <2>3. \A b \in A : ValuesOf[b] = node[b].value
    BY OnTheHeap
  <2> QED BY <1>1, <1>4, <2>1, <2>2, <2>3 DEF IsTree, Sorted
<1> QED BY <1>5, <1>6, <1>7 DEF TreeIsSound

-----------------------------------------------------------------------------
(* The binary search tree: the operations. *)

\* The reference in a heap: as At, of any root and heap.
AtIn(r, top, heap) ==
  IF r = RootRef THEN top ELSE IF r[2] = "left" THEN heap[r[1]].left ELSE heap[r[1]].right

\* PointAt changes one reference and no value.
LEMMA PointAtMoves ==
  ASSUME NEW heap, heap \in [DOMAIN heap -> [value : Values, left : Nat, right : Nat]],
         DOMAIN heap \in SUBSET (Nat \ {Null}), root \in Nat,
         NEW ref \in RefsOf(DOMAIN heap), NEW p \in Nat, PointAt(ref, p, heap)
  PROVE  /\ DOMAIN node' = DOMAIN heap /\ NodeTypes'
         /\ \A a \in DOMAIN heap : node'[a].value = heap[a].value
         /\ \A r \in RefsOf(DOMAIN heap) : At(r)' = IF r = ref THEN p ELSE AtIn(r, root, heap)
<1> DEFINE A == DOMAIN heap
           T == [value : Values, left : Nat, right : Nat]
<1>1. \A a \in A : heap[a] \in T
  OBVIOUS
<1>2. CASE ref = RootRef
  <2>1. root' = p /\ node' = heap
    BY <1>2 DEF PointAt
  <2>2. \A r \in RefsOf(A) : At(r)' = IF r = ref THEN p ELSE AtIn(r, root, heap)
    BY <1>2, <2>1 DEF At, AtIn
  <2> QED BY <2>1, <2>2 DEF NodeTypes
<1>3. CASE ref # RootRef
  <2>1. ref[1] \in A /\ ref[2] \in Branches /\ ref = <<ref[1], ref[2]>>
    BY <1>3, References
  <2> DEFINE n == heap[ref[1]]
             new == IF ref[2] = "left" THEN [n EXCEPT !.left = p] ELSE [n EXCEPT !.right = p]
  <2>2. root' = root /\ node' = [a \in A |-> IF a # ref[1] THEN heap[a] ELSE new]
    <3>1. root' = root
      BY <1>3 DEF PointAt
    <3>2. node' = IF ref[2] = "left" THEN [heap EXCEPT ![ref[1]].left = p]
                                     ELSE [heap EXCEPT ![ref[1]].right = p]
      BY <1>3 DEF PointAt
    <3> QED BY <2>1, <3>1, <3>2
  <2>3. /\ new \in T /\ new.value = n.value
        /\ new.left = IF ref[2] = "left" THEN p ELSE n.left
        /\ new.right = IF ref[2] = "left" THEN n.right ELSE p
    BY <1>1, <2>1
  <2> HIDE DEF new
  <2>4. DOMAIN node' = A /\ node' \in [A -> T] /\ \A a \in A : node'[a].value = heap[a].value
    BY <1>1, <2>2, <2>3
  <2>5. ASSUME NEW r \in RefsOf(A)
        PROVE  At(r)' = IF r = ref THEN p ELSE AtIn(r, root, heap)
    <3>1. At(r)' = IF r = RootRef THEN root' ELSE IF r[2] = "left" THEN node'[r[1]].left ELSE node'[r[1]].right
      BY DEF At
    <3>2. CASE r = RootRef
      BY <1>3, <2>2, <3>1, <3>2 DEF AtIn
    <3>3. CASE r # RootRef
      <4>1. r[1] \in A /\ r[2] \in Branches /\ r = <<r[1], r[2]>>
        BY <3>3, References
      <4>2. CASE r = ref
        BY <2>1, <2>2, <2>3, <3>1, <3>3, <4>1, <4>2 DEF Branches
      <4>3. CASE r # ref /\ r[1] = ref[1]
        <5>1. r[2] # ref[2]
          BY <2>1, <4>1, <4>3
        <5>2. node'[r[1]] = new
          BY <2>2, <4>1, <4>3
        <5> QED BY <2>1, <2>3, <3>1, <3>3, <4>1, <4>3, <5>1, <5>2 DEF AtIn, Branches
      <4>4. CASE r # ref /\ r[1] # ref[1]
        <5>1. node'[r[1]] = heap[r[1]]
          BY <2>2, <4>1, <4>4
        <5> QED BY <3>1, <3>3, <4>4, <5>1 DEF AtIn
      <4> QED BY <4>2, <4>3, <4>4
    <3> QED BY <3>2, <3>3
  <2> QED BY <2>2, <2>4, <2>5 DEF NodeTypes
<1> QED BY <1>2, <1>3

\* The address of a new node is free.
LEMMA FreshIsFree ==
  ASSUME DOMAIN node \in SUBSET (Nat \ {Null}), IsFiniteSet(DOMAIN node)
  PROVE  Fresh \in Nat \ {Null} /\ Fresh \notin DOMAIN node
<1> DEFINE A == DOMAIN node
           n == Cardinality(A)
<1>1. n \in Nat
  BY FS_CardinalityType
<1>2. \E a \in 1 .. n + 1 : a \notin A
  <2>1. SUFFICES ASSUME 1 .. n + 1 \in SUBSET A PROVE FALSE
    OBVIOUS
  <2>2. Cardinality(1 .. n + 1) <= n
    BY <2>1, FS_Subset
  <2>3. Cardinality(1 .. n + 1) = n + 1
    <3> HIDE DEF n
    <3> QED BY <1>1, FS_Interval
  <2> QED BY <1>1, <2>2, <2>3
<1>3. Fresh \in 1 .. n + 1 /\ Fresh \notin A
  <2> HIDE DEF A
  <2> QED BY <1>2 DEF Fresh, A
<1>4. \A a \in 1 .. n + 1 : a \in Nat \ {Null}
  BY <1>1 DEF Null
<1> QED BY <1>3, <1>4

\* What TreeInv and the words need of the next state: the pointers and the values.
LEMMA NextTree ==
  ASSUME NodeTypes', NEW B, DOMAIN node' = B,
         NEW ptr2, ptr2 = [r \in RefsOf(B) |-> ptr2[r]],
         \A r \in RefsOf(B) : At(r)' = ptr2[r],
         NEW val2, val2 = [a \in B |-> val2[a]], \A a \in B : node'[a].value = val2[a],
         NEW below2, Shape(B, ptr2, below2), Sorted(B, ptr2, below2, val2)
  PROVE  TreeInv'
<1>1. Pointers' = ptr2
  <2>1. Pointers' = [r \in RefsOf(DOMAIN node') |-> At(r)']
    BY DEF Pointers
  <2> QED BY <2>1
<1>2. ValuesOf' = val2
  BY DEF ValuesOf
<1>3. IsTree(below2)'
  BY <1>1, <1>2 DEF IsTree
<1> QED BY <1>3 DEF TreeInv

\* What is below a node is below whatever that node is below.
LEMMA BelowNested ==
  ASSUME NEW A, NEW ptr, NEW below, Shape(A, ptr, below), NEW a \in A
  PROVE  \A q \in {Null} \cup A : a \in below[q] => below[a] \subseteq below[q]
<1> DEFINE wrong == {q \in {Null} \cup A : a \in below[q] /\ ~(below[a] \subseteq below[q])}
           rank  == [q \in {Null} \cup A |-> Cardinality(below[q])]
<1>1. SUFFICES ASSUME wrong # {} PROVE FALSE
  OBVIOUS
<1>2. \A q \in wrong : rank[q] \in Nat
  BY BelowRank
<1>3. PICK q \in wrong : \A b \in wrong : ~(rank[b] < rank[q])
  <2> HIDE DEF wrong, rank
  <2> QED BY <1>1, <1>2, LeastRank
<1>4. q \in A /\ a \in below[q] /\ a # q
  BY DEF Shape
<1>5. PICK side \in Branches : a \in below[ptr[<<q, side>>]]
  BY <1>4, BelowSides
<1>6. ptr[<<q, side>>] \in {Null} \cup A /\ below[ptr[<<q, side>>]] \subseteq below[q]
  BY <1>4, BelowSides
<1>7. rank[ptr[<<q, side>>]] < rank[q]
  BY <1>4, <1>6, BelowRank
<1> QED BY <1>3, <1>5, <1>6, <1>7

\* Cutting a node out leaves the others in order.
LEMMA SortedCut ==
  ASSUME NEW A, NEW ptr, NEW below, Shape(A, ptr, below),
         NEW val \in [A -> Int], Sorted(A, ptr, below, val), NEW x \in A,
         NEW ptr2, NEW below2,
         BelowCut(A, ptr, below, x, ptr2, below2),
         NEW val2, \A b \in A \ {x} : val2[b] = val[b]
  PROVE  Sorted(A \ {x}, ptr2, below2, val2)
<1> SUFFICES ASSUME NEW a \in A \ {x}
             PROVE  /\ \A b \in below2[ptr2[<<a, "left">>]]  : val2[b] < val2[a]
                    /\ \A b \in below2[ptr2[<<a, "right">>]] : val2[b] > val2[a]
  BY DEF Sorted
<1>0. \A r \in RefsOf(A \ {x}) : below2[ptr2[r]] = below[ptr[r]] \ {x}
  BY DEF BelowCut
<1>1. A \in SUBSET (Nat \ {Null}) /\ A \ {x} \in SUBSET (Nat \ {Null}) /\ "left" \in Branches /\ "right" \in Branches
  BY DEF Shape, Branches
<1>2. <<a, "left">> \in RefsOf(A \ {x}) /\ <<a, "right">> \in RefsOf(A \ {x})
  BY <1>1, References
<1>3. below[ptr[<<a, "left">>]] \subseteq A /\ below[ptr[<<a, "right">>]] \subseteq A
  BY <1>1, BelowSides
<1>4. /\ \A b \in below[ptr[<<a, "left">>]]  : val[b] < val[a]
      /\ \A b \in below[ptr[<<a, "right">>]] : val[b] > val[a]
  BY DEF Sorted
<1> QED BY <1>0, <1>2, <1>3, <1>4

\* Cutting out the least node on the right of a, and moving its value up to a, too.
LEMMA SortedMoved ==
  ASSUME NEW A, NEW ptr, NEW below, Shape(A, ptr, below),
         NEW val \in [A -> Int], Sorted(A, ptr, below, val), NEW a \in A, NEW x,
         Least(x, below[ptr[<<a, "right">>]], val),
         NEW ptr2, NEW below2, BelowCut(A, ptr, below, x, ptr2, below2),
         NEW val2, ValuesMoved(A, val, a, x, val2)
  PROVE  Sorted(A \ {x}, ptr2, below2, val2)
<1>0. /\ x \in below[ptr[<<a, "right">>]]
      /\ \A b \in below[ptr[<<a, "right">>]] : b = x \/ val[b] > val[x]
      /\ \A r \in RefsOf(A \ {x}) : below2[ptr2[r]] = below[ptr[r]] \ {x}
      /\ \A b \in A \ {x} : val2[b] = IF b = a THEN val[x] ELSE val[b]
  BY DEF Least, BelowCut, ValuesMoved
<1>1. /\ A \in SUBSET (Nat \ {Null}) /\ A \ {x} \in SUBSET (Nat \ {Null})
      /\ "left" \in Branches /\ "right" \in Branches
  BY DEF Shape, Branches
<1>2. x \in A /\ x # a /\ x \in below[a] /\ a \in A \ {x} /\ val[x] \in Int /\ val[a] \in Int /\ val[x] > val[a]
  <2>1. x \in A /\ x \in below[a] /\ x # a
    BY <1>0, <1>1, BelowSides
  <2> QED BY <1>0, <2>1 DEF Sorted
<1>3. ASSUME NEW c \in A \ {x}
      PROVE  /\ <<c, "left">> \in RefsOf(A \ {x}) /\ <<c, "right">> \in RefsOf(A \ {x})
             /\ below[ptr[<<c, "left">>]] \subseteq A \ {c} /\ below[ptr[<<c, "right">>]] \subseteq A \ {c}
             /\ (\A b \in below[ptr[<<c, "left">>]]  : val[b] < val[c])
             /\ (\A b \in below[ptr[<<c, "right">>]] : val[b] > val[c])
             /\ (a \in below[ptr[<<c, "left">>]] => x \in below[ptr[<<c, "left">>]])
             /\ (a \in below[ptr[<<c, "right">>]] => x \in below[ptr[<<c, "right">>]])
  <2>1. <<c, "left">> \in RefsOf(A \ {x}) /\ <<c, "right">> \in RefsOf(A \ {x})
    BY <1>1, References
  <2>2. /\ below[ptr[<<c, "left">>]] \subseteq A \ {c} /\ below[ptr[<<c, "right">>]] \subseteq A \ {c}
        /\ ptr[<<c, "left">>] \in {Null} \cup A /\ ptr[<<c, "right">>] \in {Null} \cup A
    BY <1>1, BelowSides
  <2>3. /\ \A b \in below[ptr[<<c, "left">>]]  : val[b] < val[c]
        /\ \A b \in below[ptr[<<c, "right">>]] : val[b] > val[c]
    BY DEF Sorted
  <2>4. \A q \in {Null} \cup A : a \in below[q] => x \in below[q]
    BY <1>2, BelowNested
  <2> QED BY <2>1, <2>2, <2>3, <2>4
<1>4. ASSUME NEW c \in A \ {x}
      PROVE  /\ \A b \in below2[ptr2[<<c, "left">>]]  : val2[b] < val2[c]
             /\ \A b \in below2[ptr2[<<c, "right">>]] : val2[b] > val2[c]
  <2>1. /\ below2[ptr2[<<c, "left">>]] = below[ptr[<<c, "left">>]] \ {x}
        /\ below2[ptr2[<<c, "right">>]] = below[ptr[<<c, "right">>]] \ {x}
    BY <1>0, <1>3
  <2>2. \A b \in A \ {x} : val2[b] = (IF b = a THEN val[x] ELSE val[b]) /\ val[b] \in Int
    BY <1>0
  <2>3. CASE c = a
    <3>1. \A b \in below[ptr[<<a, "left">>]] \ {x} : val2[b] < val2[a]
      BY <1>2, <1>3, <2>2
    <3>2. \A b \in below[ptr[<<a, "right">>]] \ {x} : val2[b] > val2[a]
      BY <1>0, <1>2, <1>3, <2>2
    <3> QED BY <2>1, <2>3, <3>1, <3>2
  <2>4. CASE c # a
    <3>1. \A b \in below[ptr[<<c, "left">>]] \ {x} : val2[b] < val2[c]
      BY <1>2, <1>3, <2>2, <2>4
    <3>2. ASSUME NEW b \in below[ptr[<<c, "right">>]] \ {x} PROVE val2[b] > val2[c]
      <4>1. b \in A \ {x} /\ val[b] > val[c] /\ val2[c] = val[c]
        BY <1>3, <2>2, <2>4
      <4>2. CASE b = a
        <5>1. x \in below[ptr[<<c, "right">>]] /\ val2[b] = val[x]
          BY <1>3, <2>2, <4>1, <4>2
        <5> QED BY <1>0, <1>3, <4>1, <5>1
      <4>3. CASE b # a
        BY <2>2, <4>1, <4>3
      <4> QED BY <4>2, <4>3
    <3> QED BY <2>1, <3>1, <3>2
  <2> QED BY <2>3, <2>4
<1> QED BY <1>4 DEF Sorted

\* FindMin finds the least node below the reference.
LEMMA FindMinFinds ==
  ASSUME NodeTypes, NEW below, IsTree(below), NEW from \in Refs, At(from) # Null
  PROVE  /\ FindMin(from) \in Refs /\ At(FindMin(from)) \in DOMAIN node
         /\ node[At(FindMin(from))].left = Null
         /\ Least(At(FindMin(from)), below[At(from)], ValuesOf)
<1> DEFINE A == DOMAIN node
           S == {ref \in Refs : At(ref) # Null}
           E == {r \in S : node[At(r)].left = Null}
           next == [r \in S \ E |-> <<At(r), "left">>]
           Turn(f, ref) == IF node[At(ref)].left = Null THEN ref ELSE f[<<At(ref), "left">>]
           descend == CHOOSE f : f = [ref \in S |-> Turn(f, ref)]
<1>1. FindMin(from) = descend[from]
  BY DEF FindMin
<1>2. \A r \in S : /\ At(r) \in A /\ Pointers[r] = At(r)
                   /\ Pointers[<<At(r), "left">>] = node[At(r)].left
                   /\ At(<<At(r), "left">>) = node[At(r)].left /\ <<At(r), "left">> \in Refs
  BY OnTheHeap
<1>3. E \in SUBSET S /\ next \in [S \ E -> S]
  <2>1. \A r \in S \ E : <<At(r), "left">> \in S
    BY <1>2
  <2> QED BY <2>1
<1>4. descend = [ref \in S |-> Turn(descend, ref)]
  <2>1. \A f : \A r \in S : Turn(f, r) = IF r \in E THEN r ELSE f[next[r]]
    <3>1. \A r \in S : /\ r \in E <=> node[At(r)].left = Null
                       /\ r \notin E => next[r] = <<At(r), "left">>
      OBVIOUS
    <3> HIDE DEF S, E, next
    <3> QED BY <3>1
  <2>2. \E f : f = [r \in S |-> IF r \in E THEN r ELSE f[next[r]]]
    <3> HIDE DEF S, E, next
    <3> QED BY <1>3, DescentExists
  <2>3. \E f : f = [ref \in S |-> Turn(f, ref)]
    <3> HIDE DEF S, E, next, Turn
    <3> QED BY <2>1, <2>2
  <2> HIDE DEF S, Turn
  <2> QED BY <2>3
<1>5. S = {r \in RefsOf(A) : Pointers[r] # Null}
  BY OnTheHeap
<1>6. descend = [r \in {r \in RefsOf(A) : Pointers[r] # Null} |->
                   IF Pointers[<<Pointers[r], "left">>] = Null THEN r ELSE descend[<<Pointers[r], "left">>]]
  <2>1. \A f : \A r \in S : Turn(f, r) = IF Pointers[<<Pointers[r], "left">>] = Null THEN r
                                        ELSE f[<<Pointers[r], "left">>]
    <3> HIDE DEF S
    <3> QED BY <1>2
  <2> HIDE DEF S, Turn, descend
  <2> QED BY <1>4, <1>5, <2>1
<1> DEFINE m == descend[from]
<1>7. /\ m \in RefsOf(A) /\ Pointers[m] \in below[Pointers[from]]
      /\ Pointers[<<Pointers[m], "left">>] = Null
      /\ \A b \in below[Pointers[from]] : b = Pointers[m] \/ ValuesOf[b] > ValuesOf[Pointers[m]]
  <2>1. ValuesOf \in [A -> Int] /\ from \in RefsOf(A) /\ Pointers[from] # Null
    BY OnTheHeap
  <2>2. Shape(A, Pointers, below) /\ Sorted(A, Pointers, below, ValuesOf)
    BY DEF IsTree
  <2> HIDE DEF descend, A
  <2> QED BY <1>6, <2>1, <2>2, LeastEnds
<1> HIDE DEF descend
<1>8. m \in Refs /\ Pointers[m] = At(m) /\ Pointers[from] = At(from)
  BY <1>7, OnTheHeap
<1>9. At(m) \in A
  <2>1. below[At(from)] \subseteq A
    BY <1>8, OnTheHeap DEF IsTree, Shape
  <2> QED BY <1>7, <1>8, <2>1
<1>10. node[At(m)].left = Null
  BY <1>7, <1>8, <1>9, OnTheHeap
<1> QED BY <1>1, <1>7, <1>8, <1>9, <1>10 DEF Least

\* The values the nodes hold.
Held == {node[a].value : a \in DOMAIN node}

\* An insertion keeps the tree and adds the value.
LEMMA InsertKeeps ==
  ASSUME NodeTypes, NEW below, IsTree(below), NEW value \in Values, Insert(value)
  PROVE  TreeInv' /\ Held' = Held \cup {value}
<1> DEFINE A   == DOMAIN node
           ref == GetNodeRef(value)
           B   == A \cup {Fresh}
           heap == [a \in B |-> IF a = Fresh THEN [value |-> value, left |-> Null, right |-> Null]
                                             ELSE node[a]]
           ptr2 == Grown(A, Pointers, ref, Fresh)
           val2 == ValueAdded(A, ValuesOf, Fresh, value)
<1>1. /\ ref \in Refs
      /\ At(ref) # Null => At(ref) \in A /\ node[At(ref)].value = value
      /\ OnTheWay(A, Pointers, below, ValuesOf, value, ref)
  BY GetNodeRefFinds
<1>2. CASE At(ref) # Null
  <2>1. UNCHANGED treeVars
    BY <1>2 DEF Insert
  <2>2. root' = root /\ node' = node
    BY <2>1 DEF treeVars
  <2>3. TreeInv /\ Held = Held \cup {value}
    BY <1>1, <1>2 DEF TreeInv, Held
  <2> QED BY <2>2, <2>3 DEF TreeInv, NodeTypes, IsTree, Pointers, ValuesOf, At, Held
<1>3. CASE At(ref) = Null
  <2>1. PointAt(ref, Fresh, heap)
    BY <1>3 DEF Insert
  <2>2. Fresh \in Nat \ {Null} /\ Fresh \notin A
    BY OnTheHeap, FreshIsFree
  <2>3. /\ Refs = RefsOf(A) /\ A \in SUBSET (Nat \ {Null}) /\ B \in SUBSET (Nat \ {Null})
        /\ RefsOf(A) \subseteq RefsOf(B)
        /\ \A r \in RefsOf(B) : r \notin RefsOf(A) => r = <<Fresh, "left">> \/ r = <<Fresh, "right">>
    <3>1. Refs = RefsOf(A) /\ A \in SUBSET (Nat \ {Null})
      BY OnTheHeap
    <3>2. /\ RefsOf(A) \subseteq RefsOf(B)
          /\ \A r \in RefsOf(B) : r \notin RefsOf(A) => r = <<Fresh, "left">> \/ r = <<Fresh, "right">>
      BY DEF RefsOf, Branches
    <3> QED BY <2>2, <3>1, <3>2
  <2>4. heap \in [B -> [value : Values, left : Nat, right : Nat]] /\ DOMAIN heap = B
    BY DEF NodeTypes, Null
  <2>5. /\ DOMAIN node' = B /\ NodeTypes'
        /\ \A a \in B : node'[a].value = heap[a].value
        /\ \A r \in RefsOf(B) : At(r)' = IF r = ref THEN Fresh ELSE AtIn(r, root, heap)
    <3>1. root \in Nat
      BY DEF NodeTypes
    <3> HIDE DEF heap, B, ref
    <3> QED BY <1>1, <2>1, <2>2, <2>3, <2>4, <3>1, PointAtMoves
  <2>6. \A r \in RefsOf(B) : At(r)' = ptr2[r]
    <3> TAKE r \in RefsOf(B)
    <3>0. ptr2[r] = IF r = ref THEN Fresh ELSE IF r \in RefsOf(A) THEN Pointers[r] ELSE Null
      BY DEF Grown
    <3> HIDE DEF ptr2
    <3>1. CASE r = ref
      BY <2>5, <3>0, <3>1
    <3>2. CASE r # ref /\ r \in RefsOf(A)
      <4>1. AtIn(r, root, heap) = At(r)
        <5>1. CASE r = RootRef
          BY <5>1 DEF AtIn, At
        <5>2. CASE r # RootRef
          <6>1. r[1] \in A
            BY <2>3, <3>2, <5>2, References
          <6>2. heap[r[1]] = node[r[1]]
            BY <2>2, <6>1
          <6> QED BY <5>2, <6>2 DEF AtIn, At
        <5> QED BY <5>1, <5>2
      <4>2. Pointers[r] = At(r)
        BY <2>3, <3>2, OnTheHeap
      <4> QED BY <2>5, <3>0, <3>2, <4>1, <4>2
    <3>3. CASE r # ref /\ r \notin RefsOf(A)
      <4>1. r = <<Fresh, "left">> \/ r = <<Fresh, "right">>
        BY <2>3, <3>3
      <4>2. r # RootRef /\ r[1] = Fresh
        BY <2>2, <4>1 DEF RootRef
      <4>3. heap[Fresh] = [value |-> value, left |-> Null, right |-> Null]
        OBVIOUS
      <4>4. AtIn(r, root, heap) = Null
        <5> HIDE DEF heap
        <5> QED BY <4>2, <4>3 DEF AtIn
      <4> QED BY <2>5, <3>0, <3>3, <4>4
    <3> QED BY <3>1, <3>2, <3>3
  <2>7. \A a \in B : node'[a].value = val2[a]
    <3>1. \A a \in A : heap[a].value = ValuesOf[a]
      BY <2>2, OnTheHeap
    <3> QED BY <2>5, <3>1 DEF ValueAdded
  <2>8. PICK below2 : Shape(B, ptr2, below2) /\ Sorted(B, ptr2, below2, val2)
    <3>1. /\ Shape(A, Pointers, below) /\ ValuesOf \in [A -> Int]
          /\ Sorted(A, Pointers, below, ValuesOf) /\ value \in Int
          /\ ref \in RefsOf(A) /\ Pointers[ref] = Null
      BY <1>1, <1>3, <2>3, OnTheHeap, ValuesAssumption DEF IsTree
    <3> HIDE DEF A, ref
    <3> QED BY <1>1, <2>2, <3>1, ShapeGrown
  <2>9. TreeInv'
    <3>1. ptr2 = [r \in RefsOf(B) |-> ptr2[r]] /\ val2 = [a \in B |-> val2[a]]
      BY DEF Grown, ValueAdded
    <3> HIDE DEF ptr2, val2, B
    <3> QED BY <2>5, <2>6, <2>7, <2>8, <3>1, NextTree
  <2>10. Held' = Held \cup {value}
    <3>1. \A a \in A : node'[a].value = node[a].value
      BY <2>2, <2>5
    <3>2. node'[Fresh].value = value
      BY <2>5
    <3> QED BY <2>5, <3>1, <3>2 DEF Held
  <2> QED BY <2>9, <2>10
<1> QED BY <1>2, <1>3

\* The values in a heap.
ValuesIn(heap) == [b \in DOMAIN heap |-> heap[b].value]

\* A heap without x that points as the heap does, and whose values are in order.
HeapWithout(x, heap) ==
  /\ heap \in [DOMAIN node \ {x} -> [value : Values, left : Nat, right : Nat]]
  /\ \A b \in DOMAIN node \ {x} : heap[b].left = node[b].left /\ heap[b].right = node[b].right
OrderedWithout(x, below, heap) ==
  \A ptr2, below2 : BelowCut(DOMAIN node, Pointers, below, x, ptr2, below2)
                      => Sorted(DOMAIN node \ {x}, ptr2, below2, ValuesIn(heap))

\* A node with at most one child is taken out of the heap, and its child put in its place:
\* a tree is left when the values that are left are in order.
LEMMA CutKeeps ==
  ASSUME NodeTypes, NEW below, IsTree(below), NEW ref \in Refs, At(ref) # Null,
         NEW c, OnlyChild(Pointers, At(ref), c),
         NEW heap, HeapWithout(At(ref), heap), OrderedWithout(At(ref), below, heap),
         PointAt(ref, c, heap)
  PROVE  /\ TreeInv' /\ DOMAIN node' = DOMAIN node \ {At(ref)}
         /\ \A b \in DOMAIN node \ {At(ref)} : node'[b].value = heap[b].value
<1> DEFINE A == DOMAIN node
           x == At(ref)
           B == A \ {x}
           ptr2 == Cut(A, Pointers, ref, c)
<1>1. /\ Refs = RefsOf(A) /\ A \in SUBSET (Nat \ {Null}) /\ B \in SUBSET (Nat \ {Null})
      /\ \A r \in RefsOf(A) : Pointers[r] = At(r)
      /\ x \in A /\ Pointers[ref] = x
      /\ Pointers[<<x, "left">>] = node[x].left /\ Pointers[<<x, "right">>] = node[x].right
      /\ Pointers \in [RefsOf(A) -> {Null} \cup A]
      /\ <<x, "left">> \in RefsOf(A) /\ <<x, "right">> \in RefsOf(A)
      /\ RefsOf(B) \subseteq RefsOf(A)
  <2>1. RefsOf(B) \subseteq RefsOf(A)
    BY DEF RefsOf
  <2>2. Pointers \in [RefsOf(A) -> {Null} \cup A]
    BY DEF IsTree, Shape
  <2> QED BY <2>1, <2>2, OnTheHeap
<1>9. /\ DOMAIN heap = B /\ heap \in [B -> [value : Values, left : Nat, right : Nat]]
      /\ \A b \in B : heap[b].left = node[b].left /\ heap[b].right = node[b].right
  BY DEF HeapWithout
<1>2. /\ ref \in RefsOf(B)
      /\ \E below2 : Shape(B, ptr2, below2) /\ BelowCut(A, Pointers, below, x, ptr2, below2)
  <2>1. Shape(A, Pointers, below) /\ ref \in RefsOf(A) /\ x = Pointers[ref]
    BY <1>1 DEF IsTree
  <2> HIDE DEF A, x
  <2>2. x # Null /\ OnlyChild(Pointers, x, c)
    BY DEF x
  <2> QED BY <2>1, <2>2, ShapeCut
<1>3. PICK below2 : Shape(B, ptr2, below2) /\ BelowCut(A, Pointers, below, x, ptr2, below2)
  BY <1>2
<1>4. Sorted(B, ptr2, below2, ValuesIn(heap))
  <2> HIDE DEF ptr2
  <2> QED BY <1>3 DEF OrderedWithout
<1>5. c \in Nat /\ root \in Nat
  BY <1>1 DEF NodeTypes, OnlyChild, Null
<1>6. /\ DOMAIN node' = B /\ NodeTypes'
      /\ \A a \in B : node'[a].value = heap[a].value
      /\ \A r \in RefsOf(B) : At(r)' = IF r = ref THEN c ELSE AtIn(r, root, heap)
  BY <1>1, <1>2, <1>5, <1>9, PointAtMoves
<1>7. \A r \in RefsOf(B) : At(r)' = ptr2[r]
  <2> TAKE r \in RefsOf(B)
  <2>1. ptr2[r] = IF r = ref THEN c ELSE At(r)
    BY <1>1 DEF Cut
  <2>2. AtIn(r, root, heap) = At(r)
    <3>1. CASE r = RootRef
      BY <3>1 DEF AtIn, At
    <3>2. CASE r # RootRef
      <4>1. r[1] \in B
        BY <1>1, <3>2, References
      <4> QED BY <1>9, <3>2, <4>1 DEF AtIn, At
    <3> QED BY <3>1, <3>2
  <2> QED BY <1>6, <2>1, <2>2
<1>8. TreeInv'
  <2>1. ptr2 = [r \in RefsOf(B) |-> ptr2[r]]
    BY <1>1 DEF Cut
  <2>2. /\ ValuesIn(heap) = [a \in B |-> ValuesIn(heap)[a]]
        /\ \A a \in B : node'[a].value = ValuesIn(heap)[a]
    BY <1>6, <1>9 DEF ValuesIn
  <2> HIDE DEF ptr2, B
  <2> QED BY <1>3, <1>4, <1>6, <1>7, <2>1, <2>2, NextTree
<1> QED BY <1>6, <1>8

\* No two nodes hold the same value.
LEMMA DistinctValues ==
  ASSUME NodeTypes, NEW below, IsTree(below), NEW a \in DOMAIN node
  PROVE  \A b \in DOMAIN node : node[b].value = node[a].value => b = a
<1>1. node[a].value \in Values
  BY OnTheHeap
<1>2. \A b \in DOMAIN node : node[b].value = node[a].value => At(GetNodeRef(node[a].value)) = b
  BY <1>1, GetNodeRefFinds
<1> QED BY <1>2

\* A node with two children keeps its place and takes the value of the least node on its
\* right, and that node goes.
LEMMA TwoChildrenKeeps ==
  ASSUME NodeTypes, NEW below, IsTree(below), NEW target \in Refs, At(target) # Null,
         node[At(target)].right # Null, RemoveTwoChildren(target)
  PROVE  TreeInv' /\ Held' = Held \ {node[At(target)].value}
<1> DEFINE A == DOMAIN node
           a == At(target)
           successor == FindMin(<<a, "right">>)
           s == At(successor)
           heap == [Without(s) EXCEPT ![a].value = node[s].value]
<1>1. /\ a \in A /\ <<a, "right">> \in Refs /\ At(<<a, "right">>) = node[a].right
      /\ Pointers[<<a, "right">>] = node[a].right /\ node[a].right # Null
  BY OnTheHeap
<1>2. /\ successor \in Refs /\ s \in below[node[a].right] /\ s \in A /\ node[s].left = Null
      /\ Least(s, below[node[a].right], ValuesOf)
  <2>1. successor \in Refs /\ s \in A /\ node[s].left = Null /\ Least(s, below[node[a].right], ValuesOf)
    <3> HIDE DEF a
    <3> QED BY <1>1, FindMinFinds
  <2> QED BY <2>1 DEF Least
<1>3. /\ Shape(A, Pointers, below) /\ Sorted(A, Pointers, below, ValuesOf)
      /\ ValuesOf \in [A -> Int] /\ s # Null
      /\ \A b \in A : ValuesOf[b] = node[b].value /\ node[b].value \in Values
  BY <1>2, OnTheHeap DEF IsTree
<1>4. s # a /\ a \in A \ {s}
  <2>1. "right" \in Branches /\ below[node[a].right] \subseteq below[a] \ {a}
    <3>1. "right" \in Branches
      BY DEF Branches
    <3> HIDE DEF a, A
    <3> QED BY <1>1, <1>3, <3>1, BelowSides
  <2> QED BY <1>1, <1>2, <2>1
<1>5. /\ DOMAIN heap = A \ {s}
      /\ heap \in [A \ {s} -> [value : Values, left : Nat, right : Nat]]
      /\ \A b \in A \ {s} : /\ heap[b].left = node[b].left /\ heap[b].right = node[b].right
                            /\ heap[b].value = IF b = a THEN node[s].value ELSE node[b].value
  <2>1. /\ Without(s) \in [A \ {s} -> [value : Values, left : Nat, right : Nat]]
        /\ \A b \in A \ {s} : Without(s)[b] = node[b]
    BY DEF Without, NodeTypes
  <2>2. node[s].value \in Values
    BY <1>2, <1>3
  <2> HIDE DEF A, a, s
  <2> QED BY <1>4, <2>1, <2>2
<1>6. ASSUME NEW ptr2, NEW below2, BelowCut(A, Pointers, below, s, ptr2, below2)
      PROVE  Sorted(A \ {s}, ptr2, below2, ValuesIn(heap))
  <2>1. ValuesMoved(A, ValuesOf, a, s, ValuesIn(heap))
    <3> HIDE DEF heap, A, a, s
    <3> QED BY <1>2, <1>3, <1>5 DEF ValuesIn, ValuesMoved
  <2>2. Least(s, below[Pointers[<<a, "right">>]], ValuesOf)
    BY <1>1, <1>2
  <2> HIDE DEF heap, A, a, s
  <2> QED BY <1>1, <1>3, <1>6, <2>1, <2>2, SortedMoved
<1>7. PointAt(successor, node[s].right, heap)
  BY DEF RemoveTwoChildren
<1>8. /\ TreeInv' /\ DOMAIN node' = A \ {s}
      /\ \A b \in A \ {s} : node'[b].value = heap[b].value
  <2>1. OnlyChild(Pointers, s, node[s].right)
    BY <1>2, OnTheHeap DEF OnlyChild
  <2>2. HeapWithout(s, heap)
    <3> HIDE DEF heap
    <3> QED BY <1>5 DEF HeapWithout
  <2>3. OrderedWithout(s, below, heap)
    BY <1>6 DEF OrderedWithout
  <2> HIDE DEF heap, successor
  <2> QED BY <1>2, <1>3, <1>7, <2>1, <2>2, <2>3, CutKeeps
<1>9. Held' = Held \ {node[a].value}
  <2>1. \A b \in A \ {s} : node'[b].value = IF b = a THEN node[s].value ELSE node[b].value
    BY <1>5, <1>8
  <2>2. \A b \in A : b # a => node[b].value # node[a].value
    BY <1>1, DistinctValues
  <2> HIDE DEF a, s
  <2> QED BY <1>1, <1>2, <1>4, <1>8, <2>1, <2>2 DEF Held
<1> QED BY <1>8, <1>9

\* A removal keeps the tree and takes the value away.
LEMMA RemoveKeeps ==
  ASSUME NodeTypes, NEW below, IsTree(below), NEW value \in Values, Remove(value)
  PROVE  TreeInv' /\ Held' = Held \ {value}
<1> DEFINE A == DOMAIN node
           target == GetNodeRef(value)
           a == At(target)
           c == IF node[a].left = Null THEN node[a].right ELSE node[a].left
<1>1. /\ target \in Refs /\ (a # Null => a \in A /\ node[a].value = value)
      /\ \A b \in A : node[b].value = value => b = a
  BY GetNodeRefFinds
<1>2. CASE a = Null
  <2>1. UNCHANGED treeVars
    BY <1>2 DEF Remove
  <2>2. root' = root /\ node' = node
    BY <2>1 DEF treeVars
  <2>3. TreeInv /\ Held = Held \ {value}
    <3>1. Null \notin A
      BY OnTheHeap
    <3> QED BY <1>1, <1>2, <3>1 DEF TreeInv, Held
  <2> QED BY <2>2, <2>3 DEF TreeInv, NodeTypes, IsTree, Pointers, ValuesOf, At, Held
<1>3. CASE a # Null /\ node[a].left # Null /\ node[a].right # Null
  <2>1. RemoveTwoChildren(target)
    BY <1>3 DEF Remove
  <2> HIDE DEF target
  <2> QED BY <1>1, <1>3, <2>1, TwoChildrenKeeps
<1>4. CASE a # Null /\ (node[a].left = Null \/ node[a].right = Null)
  <2>1. PointAt(target, c, Without(a))
    BY <1>4 DEF Remove
  <2>2. /\ DOMAIN Without(a) = A \ {a}
        /\ Without(a) \in [A \ {a} -> [value : Values, left : Nat, right : Nat]]
        /\ \A b \in A \ {a} : Without(a)[b] = node[b]
    BY DEF Without, NodeTypes
  <2>3. OnlyChild(Pointers, a, c)
    BY <1>1, <1>4, OnTheHeap DEF OnlyChild
  <2>4. ASSUME NEW ptr2, NEW below2, BelowCut(A, Pointers, below, a, ptr2, below2)
        PROVE  Sorted(A \ {a}, ptr2, below2, ValuesIn(Without(a)))
    <3>1. \A b \in A \ {a} : ValuesIn(Without(a))[b] = ValuesOf[b]
      BY <2>2 DEF ValuesIn, ValuesOf
    <3>2. /\ Shape(A, Pointers, below) /\ Sorted(A, Pointers, below, ValuesOf)
          /\ ValuesOf \in [A -> Int] /\ a \in A
      BY <1>1, <1>4, OnTheHeap DEF IsTree
    <3> HIDE DEF a, A
    <3> QED BY <2>4, <3>1, <3>2, SortedCut
  <2>5. /\ TreeInv' /\ DOMAIN node' = A \ {a}
        /\ \A b \in A \ {a} : node'[b].value = Without(a)[b].value
    <3>1. HeapWithout(a, Without(a))
      BY <2>2 DEF HeapWithout
    <3>2. OrderedWithout(a, below, Without(a))
      BY <2>4 DEF OrderedWithout
    <3>3. target \in Refs /\ At(target) # Null
      BY <1>1, <1>4
    <3> HIDE DEF c, target
    <3> QED BY <2>1, <2>3, <3>1, <3>2, <3>3, CutKeeps
  <2>6. Held' = Held \ {value}
    <3>1. \A b \in A \ {a} : node'[b].value = node[b].value
      BY <2>2, <2>5
    <3> HIDE DEF a
    <3> QED BY <1>1, <1>4, <2>5, <3>1 DEF Held
  <2> QED BY <2>5, <2>6
<1> QED BY <1>2, <1>3, <1>4

\* A tree without nodes.
LEMMA EmptyShape ==
  ASSUME NEW ptr \in [RefsOf({}) -> {Null}], NEW val
  PROVE  \E below : Shape({}, ptr, below) /\ Sorted({}, ptr, below, val)
<1> DEFINE below == [q \in {Null} |-> {}]
<1>1. RefsOf({}) = {RootRef}
  BY DEF RefsOf
<1>2. Shape({}, ptr, below)
  <2>1. IsFiniteSet({})
    BY FS_EmptySet
  <2>2. ptr[RootRef] = Null /\ ptr \in [RefsOf({}) -> {Null} \cup {}]
    BY <1>1
  <2>3. below \in [{Null} \cup {} -> SUBSET {}] /\ below[Null] = {}
    OBVIOUS
  <2>4. \A r, s \in RefsOf({}) : ptr[r] = ptr[s] /\ ptr[r] # Null => r = s
    BY <1>1
  <2> HIDE DEF below
  <2> QED BY <2>1, <2>2, <2>3, <2>4 DEF Shape
<1>3. Sorted({}, ptr, below, val)
  BY DEF Sorted
<1> QED BY <1>2, <1>3

\* The destructor deletes every node, and leaves the empty tree.
LEMMA DestroyKeeps ==
  ASSUME TreeInv, Destroy
  PROVE  TreeInv' /\ Held' = {}
<1>1. DOMAIN node' = {} /\ root' = Null
  BY TreeInvIsSound DEF Destroy, TreeIsSound
<1> DEFINE ptr2 == [r \in RefsOf({}) |-> Null]
           val2 == [a \in {} |-> Null]
<1>2. NodeTypes'
  <2>1. node' = [a \in {} |-> node[a]]
    BY <1>1 DEF Destroy
  <2> QED BY <1>1, <2>1 DEF NodeTypes, Null
<1>3. \A r \in RefsOf({}) : At(r)' = ptr2[r]
  BY <1>1 DEF RefsOf, At
<1>4. PICK below2 : Shape({}, ptr2, below2) /\ Sorted({}, ptr2, below2, val2)
  BY EmptyShape
<1>5. TreeInv'
  <2>1. /\ ptr2 = [r \in RefsOf({}) |-> ptr2[r]] /\ val2 = [a \in {} |-> val2[a]]
        /\ \A a \in {} : node'[a].value = val2[a]
    OBVIOUS
  <2> HIDE DEF ptr2, val2
  <2> QED BY <1>1, <1>2, <1>3, <1>4, <2>1, NextTree
<1> QED BY <1>1, <1>5 DEF Held

-----------------------------------------------------------------------------
(* The binary search tree: the theorems. *)

\* A new tree is empty.
LEMMA InitTree == TreeInit => TreeInv /\ Held = {}
<1> SUFFICES ASSUME TreeInit PROVE TreeInv /\ Held = {}
  OBVIOUS
<1>1. DOMAIN node = {} /\ root = Null /\ node = [a \in {} |-> Null]
  BY DEF TreeInit
<1>2. NodeTypes
  BY <1>1 DEF NodeTypes, Null
<1>3. Pointers \in [RefsOf({}) -> {Null}]
  <2>1. \A r \in RefsOf({}) : At(r) = Null
    BY <1>1 DEF RefsOf, At
  <2> QED BY <1>1, <2>1 DEF Pointers
<1>4. \E below : IsTree(below)
  BY <1>1, <1>3, EmptyShape DEF IsTree
<1> QED BY <1>1, <1>2, <1>4 DEF TreeInv, Held

\* What each call makes of the tree and of its values.
LEMMA NextKeeps ==
  ASSUME TreeInv, [TreeNext]_treeVars
  PROVE  /\ TreeInv'
         /\ \/ \E value \in Values : Held' = Held \cup {value} \/ Held' = Held \ {value}
            \/ Held' = {}
            \/ Held' = Held
<1>1. PICK below : NodeTypes /\ IsTree(below)
  BY DEF TreeInv
<1>2. ASSUME NEW value \in Values, Insert(value) PROVE TreeInv' /\ Held' = Held \cup {value}
  BY <1>1, <1>2, InsertKeeps
<1>3. ASSUME NEW value \in Values, Remove(value) PROVE TreeInv' /\ Held' = Held \ {value}
  BY <1>1, <1>3, RemoveKeeps
<1>4. ASSUME Destroy PROVE TreeInv' /\ Held' = {}
  BY <1>4, DestroyKeeps
<1>5. CASE UNCHANGED treeVars
  <2>1. root' = root /\ node' = node
    BY <1>5 DEF treeVars
  <2> QED BY <2>1 DEF TreeInv, NodeTypes, IsTree, Pointers, ValuesOf, At, Held
<1> QED BY <1>2, <1>3, <1>4, <1>5 DEF TreeNext

\* TreeIsSound: over any history of calls every node allocated and not deleted is reached
\* from the root by one pointer, and the values are in order.
THEOREM BSTreeIsSound == TreeInit /\ [][TreeNext]_treeVars => []TreeIsSound
<1>1. TreeInit => TreeInv
  BY InitTree
<1>2. TreeInv /\ [TreeNext]_treeVars => TreeInv'
  BY NextKeeps
<1>3. TreeInv => TreeIsSound
  BY TreeInvIsSound
<1> QED BY <1>1, <1>2, <1>3, PTL

\* ImplementsWordSet: what search finds is the set of the values inserted and not removed.
THEOREM BSTreeImplementsWordSet == TreeInit /\ [][TreeNext]_treeVars => ImplementsWordSet
<1> DEFINE Words == {value \in Values : Search(value)}
           WordsAreHeld == Words = Held
           SetNext == (\E w \in Values : AsSet!AddWord(w) \/ AsSet!RemoveWord(w)) \/ AsSet!EmptySet
<1>1. TreeInit => TreeInv
  BY InitTree
<1>2. TreeInv /\ [TreeNext]_treeVars => TreeInv'
  BY NextKeeps
<1>3. TreeInv => WordsAreHeld
  BY SearchIsMember DEF TreeInv, Held
<1>4. TreeInit /\ WordsAreHeld => Words = {}
  BY InitTree
<1>5. TreeInv /\ WordsAreHeld /\ WordsAreHeld' /\ [TreeNext]_treeVars => [SetNext]_Words
  <2> SUFFICES ASSUME TreeInv, WordsAreHeld, WordsAreHeld', [TreeNext]_treeVars
               PROVE  SetNext \/ Words' = Words
    OBVIOUS
  <2>1. Words = Held /\ Words' = Held'
    OBVIOUS
  <2>2. \/ \E value \in Values : Held' = Held \cup {value} \/ Held' = Held \ {value}
        \/ Held' = {}
        \/ Held' = Held
    BY NextKeeps
  <2>3. \/ \E value \in Values : Words' = Words \cup {value} \/ Words' = Words \ {value}
        \/ Words' = {}
        \/ Words' = Words
    <3> HIDE DEF Words
    <3> QED BY <2>1, <2>2
  <2> QED BY <2>3 DEF AsSet!AddWord, AsSet!RemoveWord, AsSet!EmptySet
<1> HIDE DEF WordsAreHeld
<1>6. TreeInit /\ [][TreeNext]_treeVars => Words = {} /\ [][SetNext]_Words
  BY <1>1, <1>2, <1>3, <1>4, <1>5, PTL
<1> QED BY <1>6, PTL DEF ImplementsWordSet, AsSet!WordSetSpec

-----------------------------------------------------------------------------
(* The FileManagers: the kernel's write. *)

\* Bytes written at a position: the file grows to hold them, they are there, what was
\* outside them stays.
LEMMA WrittenFile ==
  ASSUME NEW file \in Seq(Nat), NEW from \in Nat, NEW bytes \in Seq(Nat)
  PROVE  LET end == from + Len(bytes) IN
         /\ Written(file, from, bytes) \in Seq(Nat)
         /\ Len(Written(file, from, bytes)) = IF Len(file) > end THEN Len(file) ELSE end
         /\ \A i \in 1 .. Len(bytes) : Written(file, from, bytes)[from + i] = bytes[i]
         /\ \A i \in 1 .. Len(file) :
              i <= from \/ i > end => Written(file, from, bytes)[i] = file[i]
  <1> DEFINE end == from + Len(bytes)
             len == IF Len(file) > end THEN Len(file) ELSE end
             byte(i) == IF i > from /\ i <= end THEN bytes[i - from]
                        ELSE IF i <= Len(file) THEN file[i] ELSE 0
  <1>1. Len(file) \in Nat /\ Len(bytes) \in Nat
    BY LenProperties
  <1>2. len \in Nat /\ end \in Nat /\ len >= end /\ len >= Len(file)
    BY <1>1
  <1>3. Written(file, from, bytes) = [i \in 1 .. len |-> byte(i)]
    BY DEF Written
  <1>4. \A i \in 1 .. len : byte(i) \in Nat
    <2> TAKE i \in 1 .. len
    <2>1. CASE i > from /\ i <= end
      <3>1. i - from \in 1 .. Len(bytes)
        BY <1>1, <1>2, <2>1
      <3> QED BY <2>1, <3>1, ElementOfSeq
    <2>2. CASE ~(i > from /\ i <= end) /\ i <= Len(file)
      <3>1. i \in 1 .. Len(file)
        BY <1>1, <1>2, <2>2
      <3>2. byte(i) = file[i]
        BY <2>2
      <3> QED BY <3>1, <3>2, ElementOfSeq
    <2>3. CASE ~(i > from /\ i <= end) /\ ~(i <= Len(file))
      BY <2>3
    <2> QED BY <2>1, <2>2, <2>3
  <1>5. \A i \in 1 .. Len(bytes) : from + i \in 1 .. len /\ byte(from + i) = bytes[i]
    <2> TAKE i \in 1 .. Len(bytes)
    <2>1. /\ from + i \in 1 .. len /\ from + i > from /\ from + i <= end
          /\ (from + i) - from = i
      BY <1>1, <1>2
    <2> QED BY <2>1
  <1>6. \A i \in 1 .. Len(file) : i <= from \/ i > end => i \in 1 .. len /\ byte(i) = file[i]
    BY <1>1, <1>2
  <1> HIDE DEF byte, len, end
  <1>7. /\ Written(file, from, bytes) \in Seq(Nat)
        /\ Len(Written(file, from, bytes)) = len
        /\ \A i \in 1 .. len : Written(file, from, bytes)[i] = byte(i)
    BY <1>2, <1>3, <1>4
  <1> QED BY <1>5, <1>6, <1>7 DEF len, end

\* Bytes written at the end of a file are appended to it.
LEMMA WrittenAtEnd ==
  ASSUME NEW file \in Seq(Nat), NEW bytes \in Seq(Nat)
  PROVE  Written(file, Len(file), bytes) = file \o bytes
  <1>1. Len(file) \in Nat /\ Len(bytes) \in Nat
    BY LenProperties
  <1> DEFINE after == Written(file, Len(file), bytes)
  <1>2. /\ after \in Seq(Nat)
        /\ Len(after) = IF Len(file) > Len(file) + Len(bytes) THEN Len(file)
                                                               ELSE Len(file) + Len(bytes)
        /\ \A i \in 1 .. Len(bytes) : after[Len(file) + i] = bytes[i]
        /\ \A i \in 1 .. Len(file) :
             i <= Len(file) \/ i > Len(file) + Len(bytes) => after[i] = file[i]
    BY <1>1, WrittenFile
  <1> HIDE DEF after
  <1>3. Len(after) = Len(file) + Len(bytes) /\ \A i \in 1 .. Len(file) : after[i] = file[i]
    BY <1>1, <1>2
  <1>4. /\ file \o bytes \in Seq(Nat) /\ Len(file \o bytes) = Len(file) + Len(bytes)
        /\ \A i \in 1 .. Len(file) + Len(bytes) :
             (file \o bytes)[i] = IF i <= Len(file) THEN file[i] ELSE bytes[i - Len(file)]
    BY ConcatProperties
  <1>5. \A i \in 1 .. Len(file) + Len(bytes) : after[i] = (file \o bytes)[i]
    <2> TAKE i \in 1 .. Len(file) + Len(bytes)
    <2>1. CASE i <= Len(file)
      <3>1. i \in 1 .. Len(file)
        BY <1>1, <2>1
      <3> QED BY <1>3, <1>4, <2>1, <3>1
    <2>2. CASE ~(i <= Len(file))
      <3>1. i - Len(file) \in 1 .. Len(bytes) /\ Len(file) + (i - Len(file)) = i
        BY <1>1, <2>2
      <3>2. after[Len(file) + (i - Len(file))] = bytes[i - Len(file)]
        BY <1>2, <3>1
      <3>3. (file \o bytes)[i] = bytes[i - Len(file)]
        BY <1>4, <2>2
      <3> QED BY <3>1, <3>2, <3>3
    <2> QED BY <2>1, <2>2
  <1>6. after = file \o bytes
    BY <1>2, <1>3, <1>4, <1>5, SeqEqual
  <1> QED BY <1>6 DEF after

\* The part of a chunk handed to one write.
LEMMA PartOf ==
  ASSUME NEW data \in Seq(Nat), NEW m \in Nat, NEW n \in Nat, m + n <= Len(data)
  PROVE  LET part == SubSeq(data, m + 1, m + n) IN
         /\ part \in Seq(Nat)
         /\ Len(part) = n
         /\ \A i \in 1 .. n : part[i] = data[m + i]
  <1>1. Len(data) \in Nat /\ \A i \in 1 .. Len(data) : data[i] \in Nat
    BY LenProperties, ElementOfSeq
  <1>2. \A i \in m + 1 .. m + n : data[i] \in Nat
    BY <1>1
  <1>3. m + 1 \in Int /\ m + n \in Int
    OBVIOUS
  <1>4. /\ SubSeq(data, m + 1, m + n) \in Seq(Nat)
        /\ Len(SubSeq(data, m + 1, m + n)) =
             IF m + 1 <= m + n THEN (m + n) - (m + 1) + 1 ELSE 0
        /\ \A i \in 1 .. (m + n) - (m + 1) + 1 :
             SubSeq(data, m + 1, m + n)[i] = data[(m + 1) + i - 1]
    BY <1>2, <1>3, SubSeqProperties
  <1>5. Len(SubSeq(data, m + 1, m + n)) = n
    BY <1>4
  <1>6. \A i \in 1 .. n : i \in 1 .. (m + n) - (m + 1) + 1 /\ (m + 1) + i - 1 = m + i
    OBVIOUS
  <1> QED BY <1>4, <1>5, <1>6

-----------------------------------------------------------------------------
(* The FileManagers: the invariant. *)

FileTypes ==
  /\ kind \in {"lesson", "drill"}
  /\ content \in Seq(Nat) /\ taken \in Seq(Nat)
  /\ position \in Nat
  /\ call \in [of : {"open", "Put", "Write", "WriteAt", "Read"},
               at : {"returned", "writing", "wrote", "threw", "reading", "read"},
               data : Seq(Nat), from : Nat, done : Nat]
  /\ readFailed \in BOOLEAN

\* What a write has handed over so far is in the file, where it began.
WriteSoFar(c, file, pos) ==
  c.at \in {"writing", "wrote"} =>
    /\ c.done <= Len(c.data)
    /\ c.at = "wrote" => c.done = Len(c.data)
    /\ c.at = "writing" => pos = c.from + c.done
    /\ c.done > 0 => c.from + c.done <= Len(file)
    /\ \A i \in 1 .. c.done : file[c.from + i] = c.data[i]

\* What a Read has so far is the first part of the file.
ReadSoFar(c, file, pos) ==
  /\ c.at = "reading" => /\ pos <= Len(file) /\ Len(c.data) = pos
                         /\ \A i \in 1 .. pos : c.data[i] = file[i]
  /\ c.at = "read" => c.data = file

\* Between two Reads the lesson's descriptor is at the end of the file.
AtTheEnd ==
  kind = "lesson" /\ ~readFailed =>
    /\ content = taken
    /\ call.at # "reading" => position = Len(content)

FileInv == /\ FileTypes /\ AtTheEnd
           /\ WriteSoFar(call, content, position) /\ ReadSoFar(call, content, position)

\* It holds of the file just opened.
LEMMA FileInitInv == FileInit => FileInv
  <1> SUFFICES ASSUME FileInit PROVE FileInv
    OBVIOUS
  <1>1. <<>> \in Seq(Nat) /\ <<0, 0>> \in Seq(Nat) /\ Len(<<>>) = 0
    OBVIOUS
  <1>2. call = [of |-> "open", at |-> "returned", data |-> <<>>, from |-> 0, done |-> 0]
    BY DEF FileInit, Call
  <1>3. FileTypes
    <2>1. content \in Seq(Nat) /\ kind \in {"lesson", "drill"}
      BY <1>1 DEF FileInit, OpenTruncated, OpenFile_
    <2>2. taken \in Seq(Nat) /\ position \in Nat /\ readFailed \in BOOLEAN
      BY <1>1 DEF FileInit
    <2>3. call \in [of : {"open", "Put", "Write", "WriteAt", "Read"},
                    at : {"returned", "writing", "wrote", "threw", "reading", "read"},
                    data : Seq(Nat), from : Nat, done : Nat]
      BY <1>1, <1>2
    <2> QED BY <2>1, <2>2, <2>3 DEF FileTypes
  <1>4. AtTheEnd
    BY <1>1, <1>2 DEF FileInit, AtTheEnd, OpenTruncated, OpenFile_
  <1> QED BY <1>2, <1>3, <1>4 DEF FileInv, WriteSoFar, ReadSoFar

\* A write begins.
LEMMA BeginInv ==
  ASSUME FileInv, Put \/ Write \/ WriteAt
  PROVE  FileInv'
  <1> USE DEF FileInv
  <1>1. \A data \in Chunks : data \in Seq(Nat) /\ Len(data) \in Nat
                             /\ (data = <<>> => Len(data) = 0)
    <2> TAKE data \in Chunks
    <2>1. data \in Seq(Nat)
      BY FileAssumption, SeqMonotonic
    <2> QED BY <2>1
  <1>2. ASSUME NEW of \in {"Put", "Write", "WriteAt"}, NEW data \in Chunks, NEW from \in Nat,
               \/ call' = Call(of, Begun(data), data, from) /\ position' = from
               \/ call' = Call(of, "threw", data, from) /\ position' = position,
               kind = "lesson" => position' = position, Between,
               UNCHANGED <<kind, content, taken, readFailed>>
        PROVE  FileInv'
    <2>1. Begun(data) \in {"writing", "wrote"} /\ (Begun(data) = "wrote" => Len(data) = 0)
      BY <1>1 DEF Begun
    <2> HIDE DEF Begun
    <2>2. \E at \in {"writing", "wrote", "threw"} :
            /\ call' = [of |-> of, at |-> at, data |-> data, from |-> from, done |-> 0]
            /\ at = "wrote" => Len(data) = 0
            /\ at # "threw" => position' = from
      BY <1>2, <2>1 DEF Call
    <2>3. PICK at \in {"writing", "wrote", "threw"} :
            /\ call' = [of |-> of, at |-> at, data |-> data, from |-> from, done |-> 0]
            /\ at = "wrote" => Len(data) = 0
            /\ at # "threw" => position' = from
      BY <2>2
    <2>4. FileTypes'
      BY <1>1, <1>2, <2>3 DEF FileTypes
    <2>5. AtTheEnd'
      BY <1>2 DEF AtTheEnd, Between
    <2>6. WriteSoFar(call', content', position')
      BY <1>1, <1>2, <2>3 DEF WriteSoFar
    <2>7. ReadSoFar(call', content', position')
      BY <2>3 DEF ReadSoFar
    <2> QED BY <2>4, <2>5, <2>6, <2>7
  <1>3. CASE Put \/ Write
    <2>1. PICK of \in {"Put", "Write"}, data \in Chunks :
            call' = Call(of, Begun(data), data, position)
      BY <1>3 DEF Put, Write, WriteHere
    <2>2. position \in Nat
      BY DEF FileTypes
    <2> QED BY <1>2, <1>3, <2>1, <2>2 DEF Put, Write, WriteHere
  <1>4. CASE WriteAt
    <2>1. PICK data \in Chunks, offset \in Offsets :
            \/ position' = offset /\ call' = Call("WriteAt", Begun(data), data, offset)
            \/ position' = position /\ call' = Call("WriteAt", "threw", data, offset)
      BY <1>4 DEF WriteAt
    <2>2. offset \in Nat /\ kind # "lesson"
      BY <1>4, FileAssumption DEF WriteAt
    <2> QED BY <1>2, <1>4, <2>1, <2>2 DEF WriteAt
  <1> QED BY <1>3, <1>4

\* One turn of a write loop: the next n bytes, behind those already written.
LEMMA WriteSomeInv ==
  ASSUME FileInv, WriteSome
  PROVE  FileInv'
  <1> USE DEF FileInv
  <1>1. PICK n \in 1 .. Len(call.data) - call.done :
          LET bytes == SubSeq(call.data, call.done + 1, call.done + n) IN
          /\ content' = Written(content, position, bytes)
          /\ position' = position + n
          /\ taken' = IF kind = "lesson" THEN taken \o bytes ELSE taken
          /\ call' = [call EXCEPT !.done = @ + n,
                        !.at = IF call.done + n = Len(call.data) THEN "wrote" ELSE "writing"]
    BY DEF WriteSome
  <1> DEFINE data == call.data
             done == call.done
             from == call.from
             bytes == SubSeq(data, done + 1, done + n)
             end  == position + Len(bytes)
  <1>2. /\ call.at = "writing" /\ UNCHANGED <<kind, readFailed>>
        /\ data \in Seq(Nat) /\ done \in Nat /\ from \in Nat /\ position \in Nat
        /\ content \in Seq(Nat) /\ taken \in Seq(Nat) /\ kind \in {"lesson", "drill"}
        /\ position = from + done /\ Len(data) \in Nat /\ Len(content) \in Nat
    BY LenProperties DEF WriteSome, FileTypes, WriteSoFar
  <1>3. n \in Nat \ {0} /\ done + n <= Len(data)
    BY <1>2
  <1>4. /\ content' = Written(content, position, bytes)
        /\ position' = position + n
        /\ taken' = IF kind = "lesson" THEN taken \o bytes ELSE taken
        /\ call' = [call EXCEPT !.done = done + n,
                      !.at = IF done + n = Len(data) THEN "wrote" ELSE "writing"]
    BY <1>1
  <1>5. /\ call'.at = IF done + n = Len(data) THEN "wrote" ELSE "writing"
        /\ call'.data = data /\ call'.from = from /\ call'.done = done + n
    BY <1>4 DEF FileTypes
  <1> HIDE DEF data, done, from
  <1>6. bytes \in Seq(Nat) /\ Len(bytes) = n /\ \A i \in 1 .. n : bytes[i] = data[done + i]
    <2>1. /\ data \in Seq(Nat) /\ done \in Nat /\ n \in Nat /\ done + n <= Len(data)
      BY <1>2, <1>3
    <2>2. /\ SubSeq(data, done + 1, done + n) \in Seq(Nat)
          /\ Len(SubSeq(data, done + 1, done + n)) = n
          /\ \A i \in 1 .. n : SubSeq(data, done + 1, done + n)[i] = data[done + i]
      BY <2>1, PartOf
    <2> QED BY <2>2
  <1> HIDE DEF bytes
  <1>7. /\ content' \in Seq(Nat)
        /\ Len(content') = IF Len(content) > end THEN Len(content) ELSE end
        /\ \A i \in 1 .. Len(bytes) : content'[position + i] = bytes[i]
        /\ \A i \in 1 .. Len(content) : i <= position \/ i > end => content'[i] = content[i]
    <2>1. LET e == position + Len(bytes) IN
          /\ Written(content, position, bytes) \in Seq(Nat)
          /\ Len(Written(content, position, bytes)) = IF Len(content) > e THEN Len(content) ELSE e
          /\ \A i \in 1 .. Len(bytes) : Written(content, position, bytes)[position + i] = bytes[i]
          /\ \A i \in 1 .. Len(content) :
               i <= position \/ i > e => Written(content, position, bytes)[i] = content[i]
      BY <1>2, <1>6, WrittenFile
    <2> QED BY <1>4, <2>1
  <1>8. FileTypes'
    <2>1. taken' \in Seq(Nat)
      BY <1>2, <1>6, <1>4, ConcatProperties
    <2>2. call' = [call EXCEPT !.done = done + n,
                     !.at = IF done + n = Len(data) THEN "wrote" ELSE "writing"]
      BY <1>4
    <2>3. done + n \in Nat /\ position + n \in Nat
      BY <1>2, <1>3
    <2>4. call' \in [of : {"open", "Put", "Write", "WriteAt", "Read"},
                     at : {"returned", "writing", "wrote", "threw", "reading", "read"},
                     data : Seq(Nat), from : Nat, done : Nat]
      BY <2>2, <2>3 DEF FileTypes
    <2> QED BY <1>2, <1>4, <1>7, <2>1, <2>3, <2>4 DEF FileTypes
  <1>9. AtTheEnd'
    <2> SUFFICES ASSUME kind = "lesson", ~readFailed
                 PROVE  content' = taken' /\ position' = Len(content')
      BY <1>2 DEF AtTheEnd
    <2>1. content = taken /\ position = Len(content)
      BY <1>2 DEF AtTheEnd
    <2>2. content' = content \o bytes
      BY <1>2, <1>6, <1>4, <2>1, WrittenAtEnd
    <2>3. Len(content') = Len(content) + n
      BY <1>2, <1>6, <2>2, ConcatProperties
    <2> QED BY <1>4, <2>1, <2>2, <2>3
  <1>10. WriteSoFar(call', content', position')
    <2>1. \A i \in 1 .. done + n : content'[from + i] = data[i]
      <3> TAKE i \in 1 .. done + n
      <3>1. CASE i <= done
        <4>1. content[from + i] = data[i] /\ from + done <= Len(content)
          BY <1>2, <1>3, <3>1 DEF WriteSoFar, data, done, from
        <4>2. from + i \in 1 .. Len(content) /\ from + i <= position
          BY <1>2, <1>3, <3>1, <4>1
        <4> QED BY <1>7, <4>1, <4>2
      <3>2. CASE ~(i <= done)
        <4>1. i - done \in 1 .. n /\ position + (i - done) = from + i /\ done + (i - done) = i
          BY <1>2, <1>3, <3>2
        <4>2. content'[position + (i - done)] = bytes[i - done]
          BY <1>6, <1>7, <4>1
        <4>3. bytes[i - done] = data[done + (i - done)]
          BY <1>6, <4>1
        <4> QED BY <4>1, <4>2, <4>3
      <3> QED BY <3>1, <3>2
    <2>2. from + (done + n) <= Len(content') /\ position + n = from + (done + n)
      BY <1>2, <1>3, <1>6, <1>7
    <2>3. done + n <= Len(data) /\ (call'.at = "wrote" => done + n = Len(data))
      BY <1>3, <1>5
    <2> QED BY <1>4, <1>5, <2>1, <2>2, <2>3 DEF WriteSoFar
  <1>11. ReadSoFar(call', content', position')
    BY <1>5 DEF ReadSoFar
  <1> QED BY <1>8, <1>9, <1>10, <1>11

\* A Read, from its lseek to its end.
LEMMA ReadInv ==
  ASSUME FileInv, Read \/ ReadChunk \/ ReadEnd \/ ReadFails
  PROVE  FileInv'
  <1> USE DEF FileInv
  <1>0. /\ content \in Seq(Nat) /\ position \in Nat /\ Len(content) \in Nat
        /\ call.data \in Seq(Nat) /\ Len(call.data) \in Nat /\ <<>> \in Seq(Nat)
    BY LenProperties DEF FileTypes
  <1>1. CASE Read
    <2>1. \E at \in {"reading", "threw"} :
            /\ call' = [of |-> "Read", at |-> at, data |-> <<>>, from |-> 0, done |-> 0]
            /\ position' = IF at = "reading" THEN 0 ELSE position
      BY <1>1 DEF Read, Call
    <2>2. PICK at \in {"reading", "threw"} :
            /\ call' = [of |-> "Read", at |-> at, data |-> <<>>, from |-> 0, done |-> 0]
            /\ position' = IF at = "reading" THEN 0 ELSE position
      BY <2>1
    <2>3. UNCHANGED <<kind, content, taken, readFailed>> /\ Between
      BY <1>1 DEF Read
    <2>4. FileTypes'
      BY <1>0, <2>2, <2>3 DEF FileTypes
    <2>5. AtTheEnd'
      BY <2>2, <2>3 DEF AtTheEnd, Between
    <2>6. WriteSoFar(call', content', position') /\ ReadSoFar(call', content', position')
      BY <1>0, <2>2, <2>3 DEF WriteSoFar, ReadSoFar
    <2> QED BY <2>4, <2>5, <2>6
  <1>2. CASE ReadChunk
    <2>1. PICK n \in 1 .. Len(content) - position :
            /\ call' = [call EXCEPT !.data = @ \o SubSeq(content, position + 1, position + n)]
            /\ position' = position + n
      BY <1>2 DEF ReadChunk
    <2> DEFINE bytes == SubSeq(content, position + 1, position + n)
               got == call.data
    <2>2. /\ call.at = "reading" /\ UNCHANGED <<kind, content, taken, readFailed>>
          /\ Len(got) = position /\ \A i \in 1 .. position : got[i] = content[i]
      BY <1>2 DEF ReadChunk, ReadSoFar
    <2>3. n \in Nat \ {0} /\ position + n <= Len(content)
      BY <1>0
    <2>4. bytes \in Seq(Nat) /\ Len(bytes) = n /\ \A i \in 1 .. n : bytes[i] = content[position + i]
      BY <1>0, <2>3, PartOf
    <2>5. call' = [call EXCEPT !.data = got \o bytes]
      BY <2>1
    <2>6. call'.at = "reading" /\ call'.data = got \o bytes
      BY <2>2, <2>5 DEF FileTypes
    <2>7. got \in Seq(Nat)
      BY <1>0
    <2> HIDE DEF bytes, got
    <2>8. /\ got \o bytes \in Seq(Nat) /\ Len(got \o bytes) = position + n
          /\ \A i \in 1 .. position + n : (got \o bytes)[i] =
               IF i <= position THEN got[i] ELSE bytes[i - position]
      BY <2>2, <2>4, <2>7, ConcatProperties
    <2>9. \A i \in 1 .. position + n : (got \o bytes)[i] = content[i]
      <3> TAKE i \in 1 .. position + n
      <3>1. CASE i <= position
        BY <1>0, <2>2, <2>8, <3>1
      <3>2. CASE ~(i <= position)
        <4>1. i - position \in 1 .. n /\ position + (i - position) = i
          BY <1>0, <2>3, <3>2
        <4> QED BY <2>4, <2>8, <3>2, <4>1
      <3> QED BY <3>1, <3>2
    <2>10. FileTypes'
      <3>1. position' \in Nat
        BY <1>0, <2>1, <2>3
      <3> QED BY <2>2, <2>5, <2>8, <3>1 DEF FileTypes
    <2>11. AtTheEnd'
      BY <2>2, <2>6 DEF AtTheEnd
    <2>12. ReadSoFar(call', content', position')
      BY <2>1, <2>2, <2>3, <2>8, <2>9, <2>6 DEF ReadSoFar
    <2>13. WriteSoFar(call', content', position')
      BY <2>6 DEF WriteSoFar
    <2> QED BY <2>10, <2>11, <2>12, <2>13
  <1>3. CASE ReadEnd
    <2>1. /\ call.at = "reading" /\ position = Len(content) /\ call' = [call EXCEPT !.at = "read"]
          /\ UNCHANGED <<kind, content, position, taken, readFailed>>
      BY <1>3 DEF ReadEnd
    <2>2. call'.at = "read" /\ call'.data = call.data
      BY <2>1 DEF FileTypes
    <2>3. call.data = content
      BY <1>0, <2>1, SeqEqual DEF ReadSoFar
    <2>4. FileTypes'
      BY <2>1 DEF FileTypes
    <2>5. AtTheEnd'
      BY <2>1 DEF AtTheEnd
    <2> QED BY <2>1, <2>2, <2>3, <2>4, <2>5 DEF WriteSoFar, ReadSoFar
  <1>4. CASE ReadFails
    <2>1. /\ call.at = "reading" /\ call' = [call EXCEPT !.at = "threw"]
          /\ readFailed' = (readFailed \/ position < Len(content))
          /\ UNCHANGED <<kind, content, position, taken>>
      BY <1>4 DEF ReadFails
    <2>2. call'.at = "threw"
      BY <2>1 DEF FileTypes
    <2>3. FileTypes'
      BY <2>1 DEF FileTypes
    <2>4. ~(position < Len(content)) => position = Len(content)
      BY <1>0, <2>1 DEF ReadSoFar
    <2>5. AtTheEnd'
      BY <2>1, <2>4 DEF AtTheEnd
    <2> QED BY <2>2, <2>3, <2>5 DEF WriteSoFar, ReadSoFar
  <1> QED BY <1>1, <1>2, <1>3, <1>4

\* A write that fails, and a call that a signal interrupted.
LEMMA WriteFailsInv ==
  ASSUME FileInv, WriteFails \/ UNCHANGED fileVars
  PROVE  FileInv'
  <1> USE DEF FileInv
  <1>1. CASE WriteFails
    <2>1. /\ call.at = "writing" /\ call' = [call EXCEPT !.at = "threw"]
          /\ UNCHANGED <<kind, content, position, taken, readFailed>>
      BY <1>1 DEF WriteFails
    <2>2. call'.at = "threw"
      BY <2>1 DEF FileTypes
    <2>3. FileTypes' /\ AtTheEnd'
      BY <2>1 DEF FileTypes, AtTheEnd
    <2> QED BY <2>2, <2>3 DEF WriteSoFar, ReadSoFar
  <1>2. CASE UNCHANGED fileVars
    BY <1>2 DEF fileVars, FileTypes, AtTheEnd, WriteSoFar, ReadSoFar
  <1> QED BY <1>1, <1>2

\* A write that returned has all its bytes in the file, in order, where it began; a Read
\* that returned has the whole file; and the lesson's file is what its Puts handed over,
\* for any chunks and offsets, however the kernel cuts and interrupts the calls.
THEOREM FileManagerFileHolds == FileInit /\ [][FileNext]_fileVars => []FileHoldsWhatWasWritten
  <1>1. FileInv /\ [FileNext]_fileVars => FileInv'
    BY BeginInv, WriteSomeInv, ReadInv, WriteFailsInv
       DEF FileNext, write_chunk, Write_, WriteAt_, Interrupted
  <1>2. FileInv => FileHoldsWhatWasWritten
    <2> SUFFICES ASSUME FileInv PROVE FileHoldsWhatWasWritten
      OBVIOUS
    <2>1. ASSUME call.at = "wrote"
          PROVE  SubSeq(content, call.from + 1, call.from + Len(call.data)) = call.data
      <3> DEFINE data == call.data
                 from == call.from
                 n == Len(data)
                 part == SubSeq(content, from + 1, from + n)
      <3>1. /\ from \in Nat /\ n \in Nat /\ (data = <<>> <=> n = 0)
            /\ data \in Seq(Nat) /\ content \in Seq(Nat) /\ Len(content) \in Nat
            /\ \A i \in 1 .. n : content[from + i] = data[i]
            /\ n > 0 => from + n <= Len(content)
        <4>1. call.from \in Nat /\ call.data \in Seq(Nat) /\ content \in Seq(Nat)
          BY DEF FileInv, FileTypes
        <4>2. /\ call.done = Len(call.data)
              /\ call.done > 0 => call.from + call.done <= Len(content)
              /\ \A i \in 1 .. call.done : content[call.from + i] = call.data[i]
          BY <2>1 DEF FileInv, WriteSoFar
        <4> QED BY <4>1, <4>2, LenProperties, EmptySeq
      <3> SUFFICES part = data
        OBVIOUS
      <3> HIDE DEF data, from
      <3>2. CASE n = 0
        <4>1. data = <<>>
          BY <3>1, <3>2
        <4>2. from + 1 \in Int /\ from + n \in Int /\ from + 1 > from + n
          BY <3>1, <3>2
        <4>3. part = <<>>
          BY <4>2, SubSeqEmpty
        <4> QED BY <4>1, <4>3
      <3>3. CASE n # 0
        <4>1. part \in Seq(Nat) /\ Len(part) = n /\ \A i \in 1 .. n : part[i] = content[from + i]
          <5>1. from + n <= Len(content)
            BY <3>1, <3>3
          <5> HIDE DEF n
          <5> QED BY <3>1, <5>1, PartOf
        <4> QED BY <3>1, <4>1, SeqEqual
      <3> QED BY <3>2, <3>3
    <2>2. call.at = "read" => call.data = content
      BY DEF FileInv, ReadSoFar
    <2> QED BY <2>1, <2>2 DEF FileInv, AtTheEnd, FileHoldsWhatWasWritten
  <1> QED BY <1>1, <1>2, FileInitInv, PTL
=============================================================================

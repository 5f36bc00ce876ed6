---------------------------- MODULE ContestLists ----------------------------
(***************************************************************************)
(* The CodeForces programs about lists of numbers.  Solve_X is the program *)
(* of problem X, on one test case; Right_X(in, out) is what the problem    *)
(* asks of out.                                                            *)
(***************************************************************************)
EXTENDS Integers
LOCAL INSTANCE SequencesExt

CONSTANT MaxValue       \* the greatest number of an array of 2267B: 100
ASSUME MaxValueAssumption == MaxValue \in 1..100

UpTo(n) == [i \in 1..n |-> i]
Total(list) == FoldLeft(+, 0, list)

\* 1030A: one vote makes a problem hard.
Solve_1030A(votes) == IF FoldLeft(LAMBDA hard, vote : hard \/ vote = 1, FALSE, votes) THEN "HARD" ELSE "EASY"
Right_1030A(votes, out) == (out = "EASY") <=> Total(votes) = 0

\* 116A: the room a tram needs, where in[i] are the passengers who leave and enter at i.
Solve_116A(in) ==
    LET stop(s, i) == LET now == s.now - i[1] + i[2] IN
                      [now |-> now, most |-> IF now > s.most THEN now ELSE s.most]
    IN FoldLeft(stop, [now |-> 0, most |-> 0], in).most
Right_116A(in, out) ==
    LET aboard(i) == Total([j \in 1..i |-> in[j][2]]) - Total([j \in 1..i |-> in[j][1]])
    IN (\E i \in DOMAIN in : aboard(i) = out) /\ \A i \in DOMAIN in : aboard(i) <= out

\* 136A: who gave each friend a gift, from whom each one gave to.
Solve_136A(p) ==
    LET reverse == FoldLeft(LAMBDA map, i : [map EXCEPT ![p[i]] = i], [i \in DOMAIN p |-> 0], UpTo(Len(p)))
    IN [i \in DOMAIN p |-> reverse[i]]
Right_136A(p, out) == \A i \in DOMAIN p : out[p[i]] = i

\* 144A: swaps of neighbours that bring a greatest number first and a least one last: the
\* first of the greatest, the last of the least, one swap less when they pass each other.
Solve_144A(weights) ==
    LET n == Len(weights)
        maxIndex == Min({i \in 1..n : \A j \in 1..n : weights[j] <= weights[i]})
        minIndex == Max({i \in 1..n : \A j \in 1..n : weights[j] >= weights[i]})
        swaps == (maxIndex - 1) + (n - minIndex)
    IN IF maxIndex > minIndex THEN swaps - 1 ELSE swaps
Right_144A(weights, out) ==
    LET n == Len(weights)
        swapped(s) == {[s EXCEPT ![i] = s[i + 1], ![i + 1] = s[i]] : i \in 1..n - 1}
        reach[k \in Nat] == IF k = 0 THEN {weights} ELSE reach[k - 1] \cup UNION {swapped(s) : s \in reach[k - 1]}
        pleased(s) == s[1] = Max(ToSet(s)) /\ s[n] = Min(ToSet(s))
    IN /\ \E s \in reach[out] : pleased(s)
       /\ out > 0 => \A s \in reach[out - 1] : ~pleased(s)

\* 158A: who has a positive score as good as that of the one in place k advances.
Solve_158A(in) ==
    LET scores == in[1] baseVal == in[1][in[2]] IN
    Len(SelectSeq(scores, LAMBDA s : s >= baseVal /\ s > 0))
Right_158A(in, out) ==
    LET better(i) == Cardinality({j \in DOMAIN in[1] : in[1][j] > in[1][i]})
    IN out = Cardinality({i \in DOMAIN in[1] : in[1][i] > 0 /\ better(i) < in[2]})

\* 1669A: the division of a rating.
Solve_1669A(rating) ==
    IF rating >= 1900 THEN 1 ELSE IF rating >= 1600 THEN 2 ELSE IF rating >= 1400 THEN 3 ELSE 4
Right_1669A(rating, out) ==
    rating \in CASE out = 1 -> 1900..5000 [] out = 2 -> 1600..1899 [] out = 3 -> 1400..1599 [] out = 4 -> -5000..1399

\* 228A: how many of four horseshoes to buy so that all colours differ.  A colour is looked
\* for among the four, unset ones being 0.
Solve_228A(shoes) ==
    LET step(s, i) == IF \E j \in 1..4 : s.seen[j] = shoes[i] THEN [s EXCEPT !.buy = @ + 1]
                      ELSE [s EXCEPT !.seen[i] = shoes[i]]
    IN FoldLeft(step, [buy |-> 0, seen |-> <<0, 0, 0, 0>>], UpTo(4)).buy
Right_228A(shoes, out) == out = 4 - Cardinality(ToSet(shoes))

\* 231A: the problems that two of three friends are sure of.
Solve_231A(views) ==
    FoldLeft(LAMBDA count, abc : IF Total(abc) >= 2 THEN count + 1 ELSE count, 0, views)
Right_231A(views, out) ==
    out = Cardinality({i \in DOMAIN views :
                         \E a, b \in 1..3 : a < b /\ views[i][a] = 1 /\ views[i][b] = 1})

\* 2267B: an array put in the order that makes the modes of its prefixes sum up to most:
\* from the greatest value down, one of each that is left, round after round.
Solve_2267B(array) ==
    LET left(printed, value) == Len(SelectSeq(array, LAMBDA v : v = value))
                                - Len(SelectSeq(printed, LAMBDA v : v = value))
        sweep(printed) == FoldLeft(LAMBDA p, i : LET value == MaxValue + 1 - i IN
                                                 IF left(p, value) > 0 THEN Append(p, value) ELSE p,
                                   printed, UpTo(MaxValue))
        rounds[k \in 0..Len(array)] ==
          IF k = 0 THEN <<>>
          ELSE IF Len(rounds[k - 1]) < Len(array) THEN sweep(rounds[k - 1]) ELSE rounds[k - 1]
    IN rounds[Len(array)]
Right_2267B(array, out) ==
    LET count(s, v) == Cardinality({i \in DOMAIN s : s[i] = v})
        mode(s) == Max({v \in ToSet(s) : \A w \in ToSet(s) : count(s, w) <= count(s, v)})
        modes(s) == Total([i \in DOMAIN s |-> mode(SubSeq(s, 1, i))])
        orders == {[i \in DOMAIN p |-> array[p[i]]] : p \in SetToSeqs(DOMAIN array)}
    IN out \in orders /\ \A s \in orders : modes(s) <= modes(out)

\* 263A: moves of neighbouring rows or columns that bring the 1 to the middle of the 5 by 5
\* matrix.  The indices are unsigned: i - 2 wraps, and abs reads it as a signed number.
Solve_263A(matrix) ==
    LET W == 256                       \* 2^64
        signed(x) == IF x >= W \div 2 THEN x - W ELSE x
        away(i) == LET d == signed((i - 2 + W) % W) IN IF d < 0 THEN -d ELSE d
        beauty == {ij \in (0..4) \X (0..4) : matrix[ij[1] + 1][ij[2] + 1] = 1}
    IN MapThenSumSet(LAMBDA ij : away(ij[1]) + away(ij[2]), beauty)
Right_263A(matrix, out) ==
    LET Is(ring) == matrix[ring[1]][ring[2]] = 1
        within[k \in 0..out] ==
          IF k = 0 THEN {<<3, 3>>}
          ELSE within[k - 1] \cup {s \in (1..5) \X (1..5) : \E t \in within[k - 1] :
                 (s[1] - t[1]) * (s[1] - t[1]) + (s[2] - t[2]) * (s[2] - t[2]) = 1}
    IN (\E s \in within[out] : Is(s)) /\ (out > 0 => \A s \in within[out - 1] : ~Is(s))

\* 344A: the groups that a row of magnets falls into: a pole next to its like starts one.
Solve_344A(magnets) ==
    FoldLeft(LAMBDA groups, i : IF magnets[i - 1][2] = magnets[i][1] THEN groups + 1 ELSE groups,
             1, [i \in 1..Len(magnets) - 1 |-> i + 1])
Right_344A(magnets, out) ==
    out = Cardinality({i \in DOMAIN magnets : i = Len(magnets) \/ magnets[i] # magnets[i + 1]})

\* 381A: two players take in turn the greater card of the two at the ends.
Solve_381A(cards) ==
    LET take(s, i) ==
          LET leftmost == cards[s.left] > cards[s.right]
              card == IF leftmost THEN cards[s.left] ELSE cards[s.right]
          IN [left   |-> IF leftmost THEN s.left + 1 ELSE s.left,
              right  |-> IF leftmost THEN s.right ELSE s.right - 1,
              points |-> [s.points EXCEPT ![2 - (i % 2)] = @ + card]]
    IN FoldLeft(take, [left |-> 1, right |-> Len(cards), points |-> <<0, 0>>], UpTo(Len(cards))).points
Right_381A(cards, out) ==
    LET play[row \in Seq(Nat)] ==       \* the points of the one whose turn it is, and the other's
          IF row = <<>> THEN <<0, 0>>
          ELSE LET rest == play[IF Head(row) > Last(row) THEN Tail(row) ELSE Front(row)]
               IN <<Max({Head(row), Last(row)}) + rest[2], rest[1]>>
    IN out = play[cards]

\* 467A: the rooms with place for two more.
Solve_467A(rooms) ==
    FoldLeft(LAMBDA free, room : IF room[2] - room[1] >= 2 THEN free + 1 ELSE free, 0, rooms)
Right_467A(rooms, out) ==
    out = Cardinality({i \in DOMAIN rooms : \E a, b \in rooms[i][1] + 1..rooms[i][2] : a # b})

\* 469A: can two players together pass all levels?
Solve_469A(in) ==
    LET used == FoldLeft(LAMBDA map, level : map \cup {level}, {}, in[2] \o in[3])
    IN IF \E i \in 0..in[1] - 1 : i + 1 \notin used THEN "Oh, my keyboard!" ELSE "I become the guy."
Right_469A(in, out) ==
    (out = "I become the guy.") <=> \A level \in 1..in[1] : Contains(in[2], level) \/ Contains(in[3], level)

\* 677A: the width of a road on which who is taller than the fence takes two.
Solve_677A(in) ==
    FoldLeft(LAMBDA width, h : IF h <= in[2] THEN width + 1 ELSE width + 2, 0, in[1])
Right_677A(in, out) == out = Len(in[1]) + Cardinality({i \in DOMAIN in[1] : in[1][i] > in[2]})
=============================================================================

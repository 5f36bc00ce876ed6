--------------------------- MODULE ContestNumbers ---------------------------
(***************************************************************************)
(* The CodeForces programs about a few numbers.  Solve_X is the program of *)
(* problem X, on one test case; Right_X(in, out) is what the problem asks  *)
(* of out.                                                                 *)
(***************************************************************************)
EXTENDS Integers
LOCAL INSTANCE SequencesExt

\* The decimal digits of a positive number, the last one first: the loop over n % 10, n / 10.
DigitsFromLast(number) ==
    LET digits[n \in 0..number] == IF n = 0 THEN <<>> ELSE <<n % 10>> \o digits[n \div 10]
    IN digits[number]
\* isBeautiful of 271A: no digit twice.
IsBeautiful(n) == Cardinality(ToSet(DigitsFromLast(n))) = Len(DigitsFromLast(n))
Iterated(f(_), n, x) == FoldLeft(LAMBDA y, i : f(y), x, [i \in 1..n |-> i])

\* 110A: is the number of digits 4 and 7 itself 4 or 7?
Solve_110A(input) ==
    LET found == Len(SelectSeq(DigitsFromLast(input), LAMBDA d : d = 4 \/ d = 7))
    IN IF found = 4 \/ found = 7 THEN "YES" ELSE "NO"
Right_110A(input, out) ==
    (out = "YES") <=> Cardinality({i \in 0..7 : /\ input >= 10 ^ i
                                                /\ (input \div 10 ^ i) % 10 \in {4, 7}}) \in {4, 7}

\* 148A: how many of d dragons are hurt, each k-th, l-th, m-th and n-th one.
Solve_148A(in) ==
    FoldLeft(LAMBDA count, i : IF \E by \in 1..4 : i % in[by] = 0 THEN count + 1 ELSE count,
             0, [i \in 1..in[5] |-> i])
Right_148A(in, out) ==
    out = Cardinality(UNION {{in[by] * j : j \in 1..in[5] \div in[by]} : by \in 1..4})

\* 1899A: Vanya and Vova add or take 1 in turn; Vanya wins when he makes a multiple of 3
\* in his first 5 moves.
Solve_1899A(n) == IF n % 3 = 0 THEN "Second" ELSE "First"
Right_1899A(n, out) ==
    LET wins[moves \in 0..5] ==       \* the remainders Vanya wins from
          IF moves = 0 THEN {}
          ELSE {r \in 0..2 : \E vanya \in {1, 2} :
                  (r + vanya) % 3 = 0 \/ \A vova \in {1, 2} : (r + vanya + vova) % 3 \in wins[moves - 1]}
    IN (out = "First") <=> n % 3 \in wins[5]

\* 486A: -1 + 2 - 3 and so on up to n.
Solve_486A(n) == IF n % 2 = 0 THEN n \div 2 ELSE n \div 2 - n
Right_486A(n, out) ==
    out = FoldLeft(LAMBDA sum, i : IF i % 2 = 1 THEN sum - i ELSE sum + i, 0, [i \in 1..n |-> i])

\* 50A: the dominoes that fit on a board of in[1] by in[2].
Solve_50A(in) == (in[1] * in[2]) \div 2
Right_50A(in, out) ==
    LET squares  == (1..in[1]) \X (1..in[2])
        dominoes == {{a, b} : a, b \in squares} \cap
                    ({{s, <<s[1] + 1, s[2]>>} : s \in squares} \cup {{s, <<s[1], s[2] + 1>>} : s \in squares})
        fit(D)   == \A d, e \in D : d = e \/ d \cap e = {}
    IN /\ \E D \in SUBSET dominoes : Cardinality(D) = out /\ fit(D)
       /\ \A D \in SUBSET dominoes : fit(D) => Cardinality(D) <= out

\* 510A: the snake on n rows of m, from the loops that print each row.
Solve_510A(in) ==
    LET m == in[2]
        full      == [c \in 1..m |-> "#"]
        fromLeft  == <<"#">> \o [c \in 1..m - 1 |-> "."]
        fromRight == [c \in 1..m - 1 |-> "."] \o <<"#">>
    IN [i \in 1..in[1] |-> IF i % 2 # 0 THEN full ELSE IF i % 4 = 2 THEN fromRight ELSE fromLeft]
\* It is one path that starts in the first corner, turns right first and fills the odd rows.
Right_510A(in, out) ==
    LET body == {s \in (1..in[1]) \X (1..in[2]) : out[s[1]][s[2]] = "#"}
        near(s) == {t \in body : (t[1] - s[1]) * (t[1] - s[1]) + (t[2] - s[2]) * (t[2] - s[2]) = 1}
        ends == {s \in body : Cardinality(near(s)) = 1}
    IN /\ Cardinality(ends) = 2 /\ <<1, 1>> \in ends /\ <<1, 2>> \in body
       /\ \A s \in body \ ends : Cardinality(near(s)) = 2
       /\ Cardinality(body) = ((in[1] + 1) \div 2) * in[2] + in[1] \div 2

\* 546A: what a soldier with n dollars borrows for w bananas, the i-th one at i * k.
Solve_546A(in) ==
    LET n == FoldLeft(LAMBDA left, i : left - i * in[1], in[2], [i \in 1..in[3] |-> i])
    IN IF n < 0 THEN -n ELSE 0
Right_546A(in, out) ==
    out = Max({0, (in[1] * in[3] * (in[3] + 1)) \div 2 - in[2]})

\* 617A: steps of 1 to 5 that sum up to the distance.
Solve_617A(input) == (input + 4) \div 5
Right_617A(input, out) == 5 * out >= input /\ 5 * (out - 1) < input

\* 723A: the least way in all that three friends on a line make to meet.
Solve_723A(x) == Max(ToSet(x)) - Min(ToSet(x))
Right_723A(x, out) ==
    LET way(a, b) == IF a < b THEN b - a ELSE a - b
    IN out = Min({way(x[1], p) + way(x[2], p) + way(x[3], p) : p \in 0..Max(ToSet(x))})

\* 750A: problems of 5, 10, 15.. minutes that leave time for the way to the party.
Solve_750A(in) ==
    LET step(s, i) == IF i * 5 <= s.time THEN [solved |-> s.solved + 1, time |-> s.time - i * 5] ELSE s
    IN FoldLeft(step, [solved |-> 0, time |-> 240 - in[2]], [i \in 1..in[1] |-> i]).solved
Right_750A(in, out) ==
    out = Max({p \in 0..in[1] : p * (p + 1) * 5 <= 2 * (240 - in[2])})

\* 791A: years until a bear that triples outweighs one that doubles.
Solve_791A(in) ==
    LET res[ab \in Nat \X Nat] ==
          IF ab[1] <= ab[2] THEN 1 + res[<<ab[1] * 3, ab[2] * 2>>] ELSE 0
    IN res[in]
Right_791A(in, out) ==
    /\ in[1] * 3 ^ out > in[2] * 2 ^ out
    /\ out > 0 => in[1] * 3 ^ (out - 1) <= in[2] * 2 ^ (out - 1)

\* 977A: Tanya takes one from n, in[2] times, in her way.
Solve_977A(in) ==
    Iterated(LAMBDA n : IF n % 10 > 0 THEN n - 1 ELSE IF n % 10 = 0 THEN n \div 10 ELSE n, in[2], in[1])
Right_977A(in, out) ==
    DigitsFromLast(out) =
      Iterated(LAMBDA digits : IF Head(digits) = 0 THEN Tail(digits)
                               ELSE <<Head(digits) - 1>> \o Tail(digits),
               in[2], DigitsFromLast(in[1]))

\* 996A: the fewest bills of 100, 20, 10, 5 and 1, the largest first; getResult recurses on
\* what the bill leaves.
Solve_996A(input) ==
    LET getResult[n \in 1..input] ==
          CASE n \in {100, 20, 10, 5, 1} -> 1
            [] n > 100 -> 1 + getResult[n - 100]
            [] n > 20 /\ n < 100 -> 1 + getResult[n - 20]
            [] n > 10 /\ n < 20  -> 1 + getResult[n - 10]
            [] n > 5 /\ n < 10   -> 1 + getResult[n - 5]
            [] n > 1 /\ n < 5    -> 1 + getResult[n - 1]
    IN getResult[input]
Right_996A(input, out) ==
    out = Min({h + w + t + f + (input - 100 * h - 20 * w - 10 * t - 5 * f) :
                 <<h, w, t, f>> \in {b \in (0..input \div 100) \X (0..input \div 20)
                                           \X (0..input \div 10) \X (0..input \div 5) :
                                       100 * b[1] + 20 * b[2] + 10 * b[3] + 5 * b[4] <= input}})

\* 271A: the next year of four different digits.  The program takes digits from the end of
\* the year until one of them can be raised to a digit that is free, and fills up with the
\* least ones.  A year that has a digit twice prints nothing, nor one without such a digit.
Solve_271A(input) ==
    LET digits == DigitsFromLast(input)
        free(processed) == (0..9) \ {digits[p] : p \in processed + 1..Len(digits)}
        larger(processed) == {i \in free(processed) : i > digits[processed]}
        raisable == {p \in DOMAIN digits : larger(p) # {}}
    IN IF ~IsBeautiful(input) \/ raisable = {} THEN <<>>
       ELSE LET processed == Min(raisable)
                i == Min(larger(processed))
                fill == SelectSeq([j \in 1..10 |-> j - 1], LAMBDA j : j \in free(processed) \ {i})
                kept == Reverse(SubSeq(digits, processed + 1, Len(digits)))
            IN kept \o <<i>> \o SubSeq(fill, 1, processed - 1)
Right_271A(input, out) ==
    LET year == FoldLeft(LAMBDA y, d : 10 * y + d, 0, out)
    IN /\ out # <<>> /\ year > input /\ IsBeautiful(year)
       /\ \A y \in input + 1..year - 1 : ~IsBeautiful(y)
=============================================================================

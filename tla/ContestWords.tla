---------------------------- MODULE ContestWords ----------------------------
(***************************************************************************)
(* The CodeForces programs about words.  Solve_X is the program of problem *)
(* X, on one test case; Right_X(in, out) is what the problem asks of out.  *)
(* Input and output routines are left out; characters are their ASCII      *)
(* codes, a word is their sequence.                                        *)
(***************************************************************************)
EXTENDS Integers
LOCAL INSTANCE SequencesExt
LOCAL INSTANCE BagsExt

CONSTANT Letters        \* letters of the alphabet of 520A: 26
ASSUME LettersAssumption == Letters \in 1..26

\* cctype.
ToLower(c) == IF c \in 65..90 THEN c + 32 ELSE c
ToUpper(c) == IF c \in 97..122 THEN c - 32 ELSE c
IsUpper(c) == c \in 65..90
Mapped(s, f(_)) == [i \in DOMAIN s |-> f(s[i])]

\* 236A: are the different letters of a name even in number?
Solve_236A(name) ==
    LET charFreq == FoldLeft(LAMBDA seen, c : seen \cup {c}, {}, name)
    IN IF Cardinality(charFreq) % 2 = 0 THEN "CHAT WITH HER!" ELSE "IGNORE HIM!"
Right_236A(name, out) ==
    (out = "CHAT WITH HER!") <=>
       Cardinality({i \in DOMAIN name : \A j \in 1..i - 1 : name[j] # name[i]}) % 2 = 0

\* 266A: the fewest stones to take so that no two neighbours have one colour.
Solve_266A(s) == Cardinality({i \in 2..Len(s) : s[i] = s[i - 1]})
Right_266A(s, out) ==
    LET kept(taken) == SelectSeq([i \in DOMAIN s |-> <<i, s[i]>>], LAMBDA p : p[1] \notin taken)
    IN out = Min({Cardinality(taken) : taken \in
                    {t \in SUBSET DOMAIN s : \A i \in 2..Len(kept(t)) : kept(t)[i][2] # kept(t)[i - 1][2]}})

\* 281A: the first letter as a capital, and the others as they are.
Solve_281A(input) == <<ToUpper(input[1])>> \o Tail(input)
Right_281A(input, out) ==
    /\ Len(out) = Len(input) /\ IsUpper(out[1]) /\ ToLower(out[1]) = ToLower(input[1])
    /\ \A i \in 2..Len(input) : out[i] = input[i]

\* 41A: is t the word s written backwards?  From the end of t and the start of s.
Solve_41A(st) ==
    LET s == st[1] t == st[2] IN
    IF Len(s) # Len(t) THEN "NO"
    ELSE IF \E tracker \in DOMAIN s : t[Len(t) + 1 - tracker] # s[tracker] THEN "NO" ELSE "YES"
Right_41A(st, out) == (out = "YES") <=> st[2] = Reverse(st[1])

\* 443A: the different letters of "{a, b, c}", in a mask of bits.
Solve_443A(input) ==
    LET step(state, c) == IF c \in 97..122 /\ c - 97 \notin state.used
                            THEN [used |-> state.used \cup {c - 97}, count |-> state.count + 1]
                            ELSE state
    IN FoldLeft(step, [used |-> {}, count |-> 0], input).count
Right_443A(input, out) == out = Cardinality(ToSet(input) \cap 97..122)

\* 520A: does the word have every letter, in either case?  Too short a word is not read.
Solve_520A(word) ==
    LET seen == FoldLeft(LAMBDA s, c : s \cup {IF c \in 65..90 THEN c - 65 ELSE c - 97}, {}, word)
    IN IF Len(word) < Letters THEN "NO"
       ELSE IF \E i \in 0..Letters - 1 : i \notin seen THEN "NO" ELSE "YES"
Right_520A(word, out) ==
    (out = "YES") <=> \A letter \in 97..96 + Letters : \E i \in DOMAIN word : ToLower(word[i]) = letter

\* 59A: one case for all letters, that of most of them, small letters at a tie.
Solve_59A(input) ==
    LET upper == Len(SelectSeq(input, IsUpper))
        lower == Len(input) - upper
    IN IF upper > lower THEN Mapped(input, ToUpper) ELSE Mapped(input, ToLower)
Right_59A(input, out) ==
    LET changes(s) == Cardinality({i \in DOMAIN s : s[i] # input[i]})
        low == Mapped(input, ToLower)
        up  == Mapped(input, ToUpper)
    IN /\ out \in {low, up}
       /\ changes(out) <= changes(low) /\ changes(out) <= changes(up)
       /\ changes(low) = changes(up) => out = low

\* 61A: 1 where two numbers of bits differ.
Solve_61A(nums) == [i \in DOMAIN nums[1] |-> IF nums[1][i] = nums[2][i] THEN 0 ELSE 1]
Right_61A(nums, out) == \A i \in DOMAIN nums[1] : out[i] = (nums[1][i] + nums[2][i]) % 2

\* 71A: words of more than 10 letters by their ends and the number of letters between.
Solve_71A(word) ==
    IF Len(word) > 10 THEN <<word[1], Len(word) - 2, word[Len(word)]>> ELSE word
Right_71A(word, out) ==
    \/ Len(word) <= 10 /\ out = word
    \/ /\ Len(word) > 10 /\ Len(out) = 3 /\ out[1] = Head(word) /\ out[3] = Last(word)
       /\ out[2] = Len(Tail(Front(word)))

\* 734A: who won more games, A or D?
Solve_734A(input) ==
    LET aCount == Len(SelectSeq(input, LAMBDA c : ToLower(c) = 97))
        dCount == Len(SelectSeq(input, LAMBDA c : ToLower(c) # 97 /\ ToLower(c) = 100))
    IN IF aCount = dCount THEN "Friendship" ELSE IF aCount > dCount THEN "Anton" ELSE "Danik"
Right_734A(input, out) ==
    LET lead == FoldLeft(LAMBDA sum, c : IF c = 65 THEN sum + 1 ELSE sum - 1, 0, input)
    IN out = IF lead > 0 THEN "Anton" ELSE IF lead < 0 THEN "Danik" ELSE "Friendship"

\* 112A: two words of one length in the order of the dictionary, whatever the case.
Solve_112A(words) ==
    LET a == Mapped(words[1], ToLower)
        b == Mapped(words[2], ToLower)
        differ == {i \in DOMAIN a : a[i] # b[i]}
    IN IF Len(a) < Len(b) THEN -1 ELSE IF Len(b) < Len(a) THEN 1
       ELSE IF differ = {} THEN 0 ELSE IF a[Min(differ)] < b[Min(differ)] THEN -1 ELSE 1
Right_112A(words, out) ==
    LET value(w) == FoldLeft(LAMBDA sum, c : 128 * sum + ToLower(c), 0, w)
    IN out = IF value(words[1]) < value(words[2]) THEN -1
             ELSE IF value(words[1]) > value(words[2]) THEN 1 ELSE 0

\* 141A: do the letters of the pile make the two names?
Solve_141A(in) ==
    LET word1 == in[1] word2 == in[2] pile == in[3]
        named == FoldLeft(LAMBDA map, c : map (+) SetToBag({c}), EmptyBag, word1 \o word2)
        value(c) == named[c] - Len(SelectSeq(pile, LAMBDA d : d = c))
    IN IF Len(word1) + Len(word2) # Len(pile) THEN "NO"
       ELSE IF \E c \in DOMAIN named : value(c) > 0 THEN "NO" ELSE "YES"
Right_141A(in, out) ==
    (out = "YES") <=> \E p \in SetToSeqs(DOMAIN in[3]) : in[1] \o in[2] = [i \in DOMAIN p |-> in[3][p[i]]]

\* 1703A: is it "yes" in any case?
Solve_1703A(yes) ==
    IF ToLower(yes[1]) = 121 /\ ToLower(yes[2]) = 101 /\ ToLower(yes[3]) = 115 THEN "YES" ELSE "NO"
Right_1703A(yes, out) ==
    (out = "YES") <=> yes \in {<<y, e, s>> : y \in {89, 121}, e \in {69, 101}, s \in {83, 115}}

\* 2267A: the fewest letters to replace by in[1] to make in[2] a palindrome.  Two pointers
\* meet in the middle, once to see whether it is one and once to count.
Solve_2267A(in) ==
    LET c == in[1] s == in[2]
        pairs == {left \in 1..Len(s) : left < Len(s) + 1 - left}
        right(left) == Len(s) + 1 - left
        spent(left) == IF s[left] = s[right(left)] THEN 0
                       ELSE IF s[left] = c \/ s[right(left)] = c THEN 1 ELSE 2
    IN IF \A left \in pairs : s[left] = s[right(left)] THEN 0 ELSE MapThenSumSet(spent, pairs)
Right_2267A(in, out) ==
    LET replaced(at) == [i \in DOMAIN in[2] |-> IF i \in at THEN in[1] ELSE in[2][i]]
    IN out = Min({Cardinality(at) : at \in
                    {t \in SUBSET DOMAIN in[2] : replaced(t) = Reverse(replaced(t))}})

\* 266B: each second every boy (66) in front of a girl (71) lets her by; in[2] seconds.
\* Mutant: the queue is changed while it is walked, and a boy goes all the way back.
Solve_266BAtOnce(in) ==
    LET pass(queue, i) == IF queue[i] = 66 /\ queue[i + 1] = 71
                            THEN [queue EXCEPT ![i] = 71, ![i + 1] = 66] ELSE queue
        second(queue, t) == FoldLeft(pass, queue, [i \in 1..Len(queue) - 1 |-> i])
    IN FoldLeft(second, in[1], [t \in 1..in[2] |-> t])
Solve_266B(in) ==
    LET pairs(queue) == SelectSeq([i \in 1..Len(queue) - 1 |-> i],
                                  LAMBDA i : queue[i] = 66 /\ queue[i + 1] = 71)
        swap(queue, i) == [queue EXCEPT ![i] = queue[i + 1], ![i + 1] = queue[i]]
        second(queue, t) == FoldLeft(swap, queue, pairs(queue))
    IN FoldLeft(second, in[1], [t \in 1..in[2] |-> t])
Right_266B(in, out) ==
    LET n == Len(in[1])
        after[t \in 0..in[2]] ==
          IF t = 0 THEN in[1]
          ELSE LET q == after[t - 1] IN
               [i \in 1..n |-> IF i < n /\ q[i] = 66 /\ q[IF i < n THEN i + 1 ELSE i] = 71 THEN 71
                               ELSE IF i > 1 /\ q[i] = 71 /\ q[IF i > 1 THEN i - 1 ELSE i] = 66 THEN 66
                               ELSE q[i]]
    IN out = after[in[2]]

\* 282A: X++ and ++X add one, X-- and --X take one.  Each + or - looks at the character
\* after it, which after the last one is the string's terminating 0.
Solve_282A(operations) ==
    LET after(op, i) == IF i = Len(op) THEN 0 ELSE op[i + 1]
        isAddOp(op) == FoldLeft(LAMBDA add, i : IF op[i] = 45 /\ after(op, i) = 45 THEN FALSE
                                                ELSE IF op[i] = 43 /\ after(op, i) = 43 THEN TRUE
                                                ELSE add,
                                FALSE, [i \in DOMAIN op |-> i])
    IN FoldLeft(LAMBDA result, op : IF isAddOp(op) THEN result + 1 ELSE result - 1, 0, operations)
Right_282A(operations, out) ==
    out = Cardinality({i \in DOMAIN operations : 43 \in ToSet(operations[i])})
          - Cardinality({i \in DOMAIN operations : 45 \in ToSet(operations[i])})

\* 339A: the terms of a sum in ascending order.
Solve_339A(input) ==
    LET nums == SortSeq(SelectSeq(input, LAMBDA c : c # 43), <)
    IN FoldLeftDomain(LAMBDA res, i : IF i > 1 THEN res \o <<43, nums[i]>> ELSE res \o <<nums[i]>>,
                      <<>>, nums)
Right_339A(input, out) ==
    /\ \A i \in DOMAIN out : (out[i] = 43) <=> (i % 2 = 0)
    /\ \A i, j \in DOMAIN out : i % 2 = 1 /\ j % 2 = 1 /\ i < j => out[i] <= out[j]
    /\ ToBag(out) = ToBag(input)

\* 705A: n feelings, "I hate that I love that I hate it"; spaces are left out.
Solve_705A(n) ==
    FoldLeft(LAMBDA out, i : out \o <<IF i % 2 = 0 THEN "I love" ELSE "I hate",
                                      IF i >= n THEN "it" ELSE "that">>,
             <<>>, [i \in 1..n |-> i])
Right_705A(n, out) ==
    /\ Len(out) = 2 * n /\ Head(out) = "I hate" /\ Last(out) = "it"
    /\ \A i \in 2..Len(out) - 1 : IF i % 2 = 0 THEN out[i] = "that"
                                  ELSE {out[i], out[i - 2]} = {"I love", "I hate"}

\* 785A: the faces of n polyhedra; by Euler, 2 - V + E for each.
Solve_785A(shapes) ==
    LET faces == [Tetrahedron |-> 4, Cube |-> 6, Octahedron |-> 8, Dodecahedron |-> 12, Icosahedron |-> 20]
    IN FoldLeft(LAMBDA total, shape : total + faces[shape], 0, shapes)
Right_785A(shapes, out) ==
    LET V == [Tetrahedron |-> 4, Cube |-> 8, Octahedron |-> 6, Dodecahedron |-> 20, Icosahedron |-> 12]
        E == [Tetrahedron |-> 6, Cube |-> 12, Octahedron |-> 12, Dodecahedron |-> 30, Icosahedron |-> 30]
    IN out = MapThenSumSet(LAMBDA i : 2 - V[shapes[i]] + E[shapes[i]], DOMAIN shapes)
=============================================================================

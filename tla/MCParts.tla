------------------------------- MODULE MCParts ------------------------------
(***************************************************************************)
(* The parts of the repository that stand alone, each behaviour exercising *)
(* one of them: the BSTree, the lock-free ring, a FileManager, the upload  *)
(* server, or a single run of a program without state, whose answer is     *)
(* judged by its Right_X.                                                  *)
(***************************************************************************)
EXTENDS BSTree, SpscRing, FileManager, UploadServer, ContestWords, ContestNumbers, ContestLists, Conversions

VARIABLES part,      \* what this behaviour exercises
          judged     \* <<>>, or the program that ran, on which input, and the verdict

others == <<treeVars, ringVars, fileVars, serverVars>>
vars == <<others, part, judged>>

MCChunks == {<<>>, <<1>>, <<2, 3>>}
Words(alphabet, most) == UNION {[1..n -> alphabet] : n \in 1..most}
Pairs(alphabet, most) == UNION {[1..n -> alphabet] \X [1..n -> alphabet] : n \in 1..most}
Distinct(lists) == {s \in lists : \A i, j \in DOMAIN s : s[i] = s[j] => i = j}

Years == 1000..1300 \cup 1960..2100 \cup 8700..9000

\* One run of a program on one of its inputs.
Judge(id, inputs, Solve(_), Right(_, _)) ==
    \E in \in inputs : judged' = <<id, in, Right(in, Solve(in))>>

WordProgram ==
    \/ Judge("236A", Words({97, 98, 99, 100}, 4), Solve_236A, Right_236A)
    \/ Judge("266A", Words({66, 71, 82}, 5), Solve_266A, Right_266A)
    \/ Judge("281A", Words({65, 97, 98}, 3), Solve_281A, Right_281A)
    \/ Judge("41A", Words({97, 98}, 3) \X Words({97, 98}, 3), Solve_41A, Right_41A)
    \/ Judge("443A", {<<123>> \o w \o <<125>> : w \in Words({44, 32, 97, 122}, 4)}, Solve_443A, Right_443A)
    \/ Judge("520A", Words({65, 66, 67, 97, 98, 99}, 4), Solve_520A, Right_520A)
    \/ Judge("59A", Words({65, 97, 98}, 4), Solve_59A, Right_59A)
    \/ Judge("61A", Pairs({0, 1}, 4), Solve_61A, Right_61A)
    \/ Judge("71A", {[i \in 1..n |-> 97 + (i % 2)] : n \in 1..12}, Solve_71A, Right_71A)
    \/ Judge("734A", Words({65, 68}, 6), Solve_734A, Right_734A)
    \/ Judge("112A", Pairs({65, 97, 66, 98}, 3), Solve_112A, Right_112A)
    \/ Judge("141A", Words({65, 66}, 2) \X Words({65, 67}, 2) \X Words({65, 66, 67}, 4), Solve_141A, Right_141A)
    \/ Judge("1703A", [1..3 -> {89, 121, 69, 101, 83, 115, 97}], Solve_1703A, Right_1703A)
    \/ Judge("2267A", {98} \X Words({97, 98, 99}, 5), Solve_2267A, Right_2267A)
    \/ Judge("266B", Words({66, 71}, 5) \X (1..3), Solve_266B, Right_266B)
    \/ Judge("282A", Words({<<88, 43, 43>>, <<43, 43, 88>>, <<88, 45, 45>>, <<45, 45, 88>>}, 4), Solve_282A, Right_282A)
    \/ Judge("339A", {[i \in 1..2 * Len(w) - 1 |-> IF i % 2 = 1 THEN w[(i + 1) \div 2] ELSE 43] :
                         w \in Words({49, 50, 51}, 4)}, Solve_339A, Right_339A)
    \/ Judge("705A", 1..9, Solve_705A, Right_705A)
    \/ Judge("785A", Words({"Tetrahedron", "Cube", "Octahedron", "Dodecahedron", "Icosahedron"}, 3),
             Solve_785A, Right_785A)

NumberProgram ==
    \/ Judge("110A", 4400..4500 \cup 7440..7480 \cup 44000..44100, Solve_110A, Right_110A)
    \/ Judge("148A", (1..3) \X (2..4) \X (3..5) \X (2..4) \X {1, 7, 12}, Solve_148A, Right_148A)
    \/ Judge("1899A", 1..30, Solve_1899A, Right_1899A)
    \/ Judge("486A", 1..60, Solve_486A, Right_486A)
    \/ Judge("50A", (1..2) \X (2..4), Solve_50A, Right_50A)
    \/ Judge("510A", {3, 5, 7, 9} \X (3..5), Solve_510A, Right_510A)
    \/ Judge("546A", (1..4) \X (0..20) \X (1..5), Solve_546A, Right_546A)
    \/ Judge("617A", 1..40, Solve_617A, Right_617A)
    \/ Judge("723A", Distinct([1..3 -> 1..6]), Solve_723A, Right_723A)
    \/ Judge("750A", (1..10) \X {0, 1, 60, 100, 190, 221, 235, 240}, Solve_750A, Right_750A)
    \/ Judge("791A", {ab \in (1..10) \X (1..10) : ab[1] <= ab[2]}, Solve_791A, Right_791A)
    \/ Judge("977A", (101..220) \X (1..3), Solve_977A, Right_977A)
    \/ Judge("996A", 1..60 \cup 95..135, Solve_996A, Right_996A)
    \/ Judge("271A", {y \in Years : IsBeautiful(y)}, Solve_271A, Right_271A)

ListProgram ==
    \/ Judge("1030A", Words({0, 1}, 5), Solve_1030A, Right_1030A)
    \/ Judge("116A", {<<<<0, a>>, <<b, c>>, <<d, a - b + c - d>>, <<0, 0>>>> : a \in 0..3, b \in 0..1, c \in 0..3, d \in 0..2},
             Solve_116A, Right_116A)
    \/ Judge("136A", UNION {Distinct([1..n -> 1..n]) : n \in 1..4}, Solve_136A, Right_136A)
    \/ Judge("144A", UNION {[1..n -> 1..3] : n \in 2..4}, Solve_144A, Right_144A)
    \/ Judge("158A", {in \in [1..4 -> 0..3] \X (1..4) : \A i \in 1..3 : in[1][i] >= in[1][i + 1]}, Solve_158A, Right_158A)
    \/ Judge("1669A", -5..0 \cup 1395..1405 \cup 1595..1605 \cup 1895..1905, Solve_1669A, Right_1669A)
    \/ Judge("228A", [1..4 -> 1..4], Solve_228A, Right_228A)
    \/ Judge("231A", Words([1..3 -> 0..1], 3), Solve_231A, Right_231A)
    \/ Judge("2267B", Words(1..MaxValue, 5), Solve_2267B, Right_2267B)
    \/ Judge("263A", {[i \in 1..5 |-> [j \in 1..5 |-> IF <<i, j>> = at THEN 1 ELSE 0]] : at \in (1..5) \X (1..5)},
             Solve_263A, Right_263A)
    \/ Judge("344A", Words({<<0, 1>>, <<1, 0>>}, 6), Solve_344A, Right_344A)
    \/ Judge("381A", Distinct(Words(1..5, 5)), Solve_381A, Right_381A)
    \/ Judge("467A", Words({ab \in (0..3) \X (0..4) : ab[1] <= ab[2]}, 2), Solve_467A, Right_467A)
    \/ Judge("469A", (1..3) \X Words(1..3, 2) \X Words(1..3, 2), Solve_469A, Right_469A)
    \/ Judge("677A", Words(1..4, 4) \X {2, 3}, Solve_677A, Right_677A)

Conversion ==
    \/ Judge("Lexed", Words({10, 32, 46, 65, 97}, 6) \X {{}, {<<97>>}}, Lexed, Right_Lexed)
    \/ Judge("SplitLine", Words({32, 97}, 5) \cup {<<>>}, SplitLine, Right_SplitLine)
    \/ Judge("IsStopWord", (Words({65, 97, 98}, 3) \cup {<<>>}) \X {{<<97>>, <<98, 97>>, <<97, 98, 98>>}},
             IsStopWord, Right_IsStopWord)
    \/ Judge("Searched", Words({<<97>>, <<65>>, <<98>>} \X {1, 2}, 3) \X {<<97>>, <<65>>}, Searched, Right_Searched)
    \/ Judge("TryInsertNewSession", Words([key : {1, 2}, expiresAt : {1, 2}, now : {2}], 3),
             TryInsertNewSession, Right_TryInsertNewSession)
    \/ Judge("FolderPlacement", [1..2 -> 0..2 ^ ByteBits - 1] \X {1, 3}, FolderPlacement, Right_FolderPlacement)
    \/ Judge("LoadServerKey", Words({48, 57, 97, 70, 71}, 5), LoadServerKey, Right_LoadServerKey)
    \/ Judge("SecureCompare", Words({0, 1, 255}, 3) \X Words({0, 1, 255}, 3), SecureCompare, Right_SecureCompare)

-----------------------------------------------------------------------------
Init == /\ TreeInit /\ RingInit /\ FileInit /\ ServerInit /\ judged = <<>>
        /\ part \in {"tree", "ring", "file", "server", "contest", "years", "conversion"}
        /\ part # "file" => kind = "lesson"
        /\ part # "server" => rootDir

Tree   == part = "tree" /\ TreeNext /\ UNCHANGED <<ringVars, fileVars, serverVars, judged>>
Ring   == part = "ring" /\ RingNext /\ UNCHANGED <<treeVars, fileVars, serverVars, judged>>
File   == part = "file" /\ FileNext /\ UNCHANGED <<treeVars, ringVars, serverVars, judged>>
Server == part = "server" /\ ServerNext /\ UNCHANGED <<treeVars, ringVars, fileVars, judged>>
Solve == /\ part = "contest" /\ judged = <<>> /\ (WordProgram \/ NumberProgram \/ ListProgram)
         /\ UNCHANGED others
AskYear == /\ part = "years" /\ judged = <<>> /\ Judge("271A", Years, Solve_271A, Right_271A)
           /\ UNCHANGED others
Convert == /\ part = "conversion" /\ judged = <<>> /\ Conversion
           /\ UNCHANGED others

Next == (Tree \/ Ring \/ File \/ Server \/ Solve \/ AskYear \/ Convert) /\ UNCHANGED part
Spec == Init /\ [][Next]_vars

\* Every contest program answers what its problem asks, on all the inputs above: 271A on the
\* years whose digits all differ.
SolutionsAgree == part = "contest" /\ judged # <<>> => judged[3]

\* 271A prints the next year with four different digits for every year its problem allows
\* (271A.md: "Print a single integer", "It is guaranteed that the answer exists").
EveryYearAnswered == part = "years" /\ judged # <<>> => judged[3]

\* Tokens, folders, the server key and the comparison are what their callers take them for.
ConversionsAgree == part = "conversion" /\ judged # <<>> => judged[3]
=============================================================================

---------------------------- MODULE IndexingJob -----------------------------
(***************************************************************************)
(* The pipeline of Kernal seen as one IndexJob: where the tokens of the    *)
(* corpus are at any moment, and the properties that count them.           *)
(***************************************************************************)
EXTENDS Kernal

\* A directory that an iterator gets to the end of.
ASSUME DirectoryAssumption == IsFiniteSet(Entries)

\* All the occurrences in a function from places to sets of occurrences.
Occurrences(at) == UNION {{place} \X at[place] : place \in DOMAIN at}
Count(at)       == Cardinality(Occurrences(at))

\* Where the tokens stand in a line, in lines, and in a file that fopen opens.
InLine(line)   == {i \in 1 .. Len(line) : Cleaned[line[i]] \in Tokens}
InLines(lines) == Occurrences([i \in 1 .. Len(lines) |-> InLine(lines[i])])
InFile(entry)  == IF entry \in Regular \ Unreadable THEN InLines(Corpus[entry]) ELSE {}

CorpusTokens == Count([entry \in Entries |-> InFile(entry)])

\* Every token not indexed yet, by where it is between the disk and the Parser.
Unlisted == Count([entry \in unseen |-> InFile(entry)])
InHand   == Cardinality(InFile(path))
Listed   == Count([i \in 1 .. Len(dirQueue) |-> InFile(dirQueue[i])])
Unread   == Cardinality(InLines(unread))
Read     == Count([i \in 1 .. Len(lineQueue) |-> InLine(lineQueue[i].line)])
InWork   == Count([w \in Workers |-> InLine(words[w])])
Emitted  == Cardinality({i \in 1 .. Len(parserQueue) : parserQueue[i] # Empty})

InFlight == Unlisted + InHand + Listed + Unread + Read + InWork + Emitted

\* The distinct tokens of the corpus.
HasToken(lines, token) ==
  \E i \in 1 .. Len(lines) : \E j \in InLine(lines[i]) : Cleaned[lines[i][j]] = token
Vocabulary ==
  {token \in Tokens : \E entry \in Regular \ Unreadable : HasToken(Corpus[entry], token)}

\* The boot was given up: StopAll, or the catch block of Lexer::OnStart, has begun.
GivenUp == mainPc \in Stopping \cup {"recount", "undoPills", "undoJoin", "undoClose",
                                     "undoClosing", "exited", "aborted"}

Job == INSTANCE IndexJob WITH Total <- CorpusTokens, outstanding <- InFlight,
                              indexed <- tokensIndexed, verdict <- promise,
                              cancelled <- GivenUp

\* The coordinator, the workers and the Parser together index every token of every
\* readable file exactly once and report only then, unless the boot is given up.
ImplementsIndexJob == Job!JobSpec

\* After a cold boot the Engine answers queries only over a finished index: every
\* token counted, every distinct one in the tree, all queues and stages at rest.
ServesCompleteIndex ==
  mainPc = "serving" /\ ~hasSearchIndex =>
    /\ promise = "value"
    /\ tokensIndexed = CorpusTokens
    /\ tree = Vocabulary

\* "an abort, not a completion ... instead of being handed a partial index labelled
\* success": a promise that holds a value holds it for the whole corpus.
ValueMeansComplete == promise = "value" => tokensIndexed = CorpusTokens
=============================================================================

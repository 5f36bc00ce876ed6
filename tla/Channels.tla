------------------------------ MODULE Channels ------------------------------
(***************************************************************************)
(* The corpus and the three queues between the stages of the indexing      *)
(* pipeline (cmd/main.cpp owns them):                                      *)
(*                                                                         *)
(*    DirectoryReader --dirQueue--> Lexer coordinator --lineQueue-->       *)
(*    Lexer workers --parserQueue--> Parser                                *)
(*                                                                         *)
(* Every stage uses only push_blocking and pop_blocking, which RingBuffer  *)
(* shows to be the Put and Get of a bounded FIFO, so a queue is a sequence *)
(* here and each call takes effect at one instant.                         *)
(***************************************************************************)
EXTENDS Integers, Sequences

CONSTANTS Entries,      \* the entries of the corpus directory
          Regular,      \* those that are regular files
          Unreadable,   \* those that fopen refuses
          Vanishing,    \* those that may be gone by the time fopen is called
          Corpus,       \* [Entries -> Seq(Seq(Words))]: the lines fgets returns of a file
          Words,        \* what lies between two spaces of a line
          Cleaned,      \* [Words -> strings]: punctuation dropped, lower case
          StopWords,    \* the cleaned strings that are never indexed
          Empty,        \* the empty string
          DirCapacity, LineCapacity, ParserCapacity   \* SIZE of the three buffers

\* The strings the workers emit, and the lines as the coordinator packs them.
Tokens == {Cleaned[w] : w \in Words} \ (StopWords \cup {Empty})
Line   == [filepath : Entries, line : Seq(Words)]

\* "The end": the empty path, ILP{"", ""}, the empty token.  An empty line of a
\* file is not a pill, its filepath is not empty.
LinePill == [filepath |-> Empty, line |-> <<>>]

ASSUME CapacityAssumption == /\ DirCapacity \in Nat \ {0}
                             /\ LineCapacity \in Nat \ {0}
                             /\ ParserCapacity \in Nat \ {0}
ASSUME CorpusAssumption == /\ Regular \subseteq Entries
                           /\ Unreadable \subseteq Entries
                           /\ Vanishing \subseteq Entries
                           /\ Empty \notin Entries
                           /\ Corpus \in [Entries -> Seq(Seq(Words))]

VARIABLES dirQueue, lineQueue, parserQueue

channelVars == <<dirQueue, lineQueue, parserQueue>>

ChannelsInit == /\ dirQueue = <<>>
                /\ lineQueue = <<>>
                /\ parserQueue = <<>>

ChannelsTypeOK == /\ dirQueue \in Seq(Entries \cup {Empty})
                  /\ Len(dirQueue) <= DirCapacity
                  /\ lineQueue \in Seq(Line \cup {LinePill})
                  /\ Len(lineQueue) <= LineCapacity
                  /\ parserQueue \in Seq(Tokens \cup {Empty})
                  /\ Len(parserQueue) <= ParserCapacity

\* push_blocking on each queue; a pop is  q # <<>> /\ q' = Tail(q).
PushDir(path)     == /\ Len(dirQueue) < DirCapacity
                     /\ dirQueue' = Append(dirQueue, path)
PushLineNoWait(ilp) == lineQueue' = Append(lineQueue, ilp)   \* mutant: no full test
PushLine(ilp)     == /\ Len(lineQueue) < LineCapacity
                     /\ lineQueue' = Append(lineQueue, ilp)
PushToken(token)  == /\ Len(parserQueue) < ParserCapacity
                     /\ parserQueue' = Append(parserQueue, token)
=============================================================================

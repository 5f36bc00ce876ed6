------------------------------- MODULE Parser -------------------------------
(***************************************************************************)
(* parser.cpp: one thread that builds the tree from parserQueue and        *)
(* reports through the promise whose future the Kernal waits on.  The      *)
(* promise belongs to the Parser, which lives as long as the Kernal, so no *)
(* broken_promise is seen before the process ends.                         *)
(***************************************************************************)
EXTENDS Channels

VARIABLES parserRunning,   \* running_
          parserPc,        \* where Run is
          tree,            \* the values in the BSTree: insert ignores duplicates
          tokensIndexed,   \* result.tokensIndexed
          promise          \* the shared state: "unset", "value" or "exception"

parserVars == <<parserRunning, parserPc, tree, tokensIndexed, promise>>

ParserInit == /\ parserRunning = FALSE
              /\ parserPc = "none"
              /\ tree = {}
              /\ tokensIndexed = 0
              /\ promise = "unset"

ParserTypeOK == /\ parserRunning \in BOOLEAN
                /\ parserPc \in {"none", "check", "pop", "settle", "done"}
                /\ tree \subseteq Tokens
                /\ tokensIndexed \in Nat
                /\ promise \in {"unset", "value", "exception"}

ParserOnStart == /\ parserRunning' = TRUE
                 /\ parserPc' = "check"
                 /\ UNCHANGED <<tree, tokensIndexed, promise>>

\* OnStop: the flag; the pill is a step of its own, and the join waits for the thread.
ParserStopRunning == /\ parserRunning' = FALSE
                     /\ UNCHANGED <<parserPc, tree, tokensIndexed, promise>>

ParserFinished == parserPc = "done"

\* The loop test; leaving on the flag returns with the promise unset.
ParserCheck == /\ parserPc = "check"
               /\ parserPc' = IF parserRunning THEN "pop" ELSE "done"
               /\ UNCHANGED <<tree, tokensIndexed, promise, channelVars>>

ParserPop ==
  /\ parserPc = "pop"
  /\ parserQueue # <<>>
  /\ parserQueue' = Tail(parserQueue)
  /\ LET token == Head(parserQueue) IN
       IF token = Empty
         THEN parserPc' = "settle" /\ UNCHANGED <<tree, tokensIndexed>>
         ELSE /\ parserPc' = "check"
              /\ tree' = tree \cup {token}
              /\ tokensIndexed' = tokensIndexed + 1
  /\ UNCHANGED <<promise, dirQueue, lineQueue>>

\* Mutant: an empty corpus leaves the promise unset.
ParserSettleNonEmpty == /\ parserPc = "settle"
                        /\ promise' = IF tokensIndexed = 0 THEN "unset" ELSE "value"
                        /\ parserPc' = "done"
                        /\ UNCHANGED <<tree, tokensIndexed, channelVars>>

\* After the end of the stream: a value, or the IndexingError of an empty corpus.
ParserSettle == /\ parserPc = "settle"
                /\ promise' = IF tokensIndexed = 0 THEN "exception" ELSE "value"
                /\ parserPc' = "done"
                /\ UNCHANGED <<tree, tokensIndexed, channelVars>>

ParserStep == /\ ParserCheck \/ ParserPop \/ ParserSettle
              /\ UNCHANGED parserRunning
=============================================================================

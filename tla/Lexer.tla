------------------------------- MODULE Lexer --------------------------------
(***************************************************************************)
(* lexer.cpp: the coordinator thread (Run) turns the files of dirQueue     *)
(* into lines, KWorkerCount worker threads turn the lines into tokens, and *)
(* whichever worker leaves last closes the parser's queue.                 *)
(***************************************************************************)
EXTENDS Channels, FiniteSets

CONSTANT Workers     \* the worker threads, KWorkerCount of them

ASSUME WorkersAssumption == IsFiniteSet(Workers) /\ Workers # {}

VARIABLES lexerRunning,       \* running_
          activeWorkers,      \* activeWorkers_
          downstreamClosed,   \* downstreamClosed_
          coordPc, file, unread, pillsDue,   \* Run: its place, the open file, the lines
                                             \* not read yet, the pills not pushed yet
          workerPc, words     \* each Worker: its place, the words left of its line

lexerVars == <<lexerRunning, activeWorkers, downstreamClosed, coordPc, file, unread,
               pillsDue, workerPc, words>>
coordVars  == <<coordPc, file, unread, pillsDue>>
workerVars == <<workerPc, words>>

LexerInit == /\ lexerRunning = FALSE
             /\ activeWorkers = 0
             /\ downstreamClosed = FALSE
             /\ coordPc = "none"
             /\ file = Empty
             /\ unread = <<>>
             /\ pillsDue = 0
             /\ workerPc = [w \in Workers |-> "none"]
             /\ words = [w \in Workers |-> <<>>]

LexerTypeOK ==
  /\ lexerRunning \in BOOLEAN
  /\ activeWorkers \in Int
  /\ downstreamClosed \in BOOLEAN
  /\ coordPc \in {"none", "check", "pop", "read", "push", "pills", "done"}
  /\ file \in Entries \cup {Empty}
  /\ coordPc \in {"read", "push"} => file \in Entries
  /\ coordPc = "push" => unread # <<>>
  /\ unread \in Seq(Seq(Words))
  /\ pillsDue \in Nat
  /\ workerPc \in [Workers -> {"none", "check", "pop", "emit", "leave",
                               "close", "closing", "done"}]
  /\ words \in [Workers -> Seq(Words)]

-----------------------------------------------------------------------------
(* The parts of OnStart and OnStop that the main thread runs. *)

Spawned == {w \in Workers : workerPc[w] # "none"}

\* Mutant: the count is one short.
LexerPrepareShort == /\ lexerRunning' = TRUE
                     /\ downstreamClosed' = FALSE
                     /\ activeWorkers' = Cardinality(Workers) - 1
                     /\ UNCHANGED <<coordVars, workerVars>>

\* The flags and the worker count, before any thread exists.
LexerPrepare == /\ lexerRunning' = TRUE
                /\ downstreamClosed' = FALSE
                /\ activeWorkers' = Cardinality(Workers)
                /\ UNCHANGED <<coordVars, workerVars>>

SpawnWorker(w) == /\ workerPc[w] = "none"
                  /\ workerPc' = [workerPc EXCEPT ![w] = "check"]
                  /\ UNCHANGED <<lexerRunning, activeWorkers, downstreamClosed,
                                 coordVars, words>>

SpawnCoordinator == /\ Spawned = Workers
                    /\ coordPc' = "check"
                    /\ UNCHANGED <<lexerRunning, activeWorkers, downstreamClosed,
                                   file, unread, pillsDue, workerVars>>

LexerStopRunning == /\ lexerRunning' = FALSE
                    /\ UNCHANGED <<activeWorkers, downstreamClosed, coordVars, workerVars>>

\* A thread could not be created: count only the workers that exist.
LexerRecount == /\ activeWorkers' = Cardinality(Spawned)
                /\ UNCHANGED <<lexerRunning, downstreamClosed, coordVars, workerVars>>

CoordinatorFinished == coordPc = "done"
WorkersFinished == \A w \in Spawned : workerPc[w] = "done"

\* CloseParserQueue_: the compare_exchange; who finds FALSE pushes the pill.
WinCloseAlways == downstreamClosed' = TRUE    \* mutant: a store, not an exchange
WinClose  == ~downstreamClosed /\ downstreamClosed' = TRUE
LoseClose == downstreamClosed /\ UNCHANGED downstreamClosed

-----------------------------------------------------------------------------
(* Run, the coordinator. *)

\* Mutant: the pills are pushed on the drained path only.
CoordCheckNoPills == /\ coordPc = "check"
                     /\ coordPc' = IF lexerRunning THEN "pop" ELSE "done"
                     /\ UNCHANGED <<pillsDue, file, unread, channelVars>>

CoordCheck == /\ coordPc = "check"
              /\ IF lexerRunning
                   THEN coordPc' = "pop" /\ UNCHANGED pillsDue
                   ELSE coordPc' = "pills" /\ pillsDue' = Cardinality(Workers)
              /\ UNCHANGED <<file, unread, channelVars>>

\* Mutant: one pill, however many workers.
CoordPopOnePill ==
  /\ coordPc = "pop"
  /\ dirQueue # <<>>
  /\ dirQueue' = Tail(dirQueue)
  /\ LET popped == Head(dirQueue) IN
     \/ /\ popped = Empty
        /\ coordPc' = "pills"
        /\ pillsDue' = 1
        /\ UNCHANGED <<file, unread>>
     \/ /\ popped # Empty
        /\ coordPc' = "read"
        /\ file' = popped
        /\ unread' = Corpus[popped]
        /\ UNCHANGED pillsDue
  /\ UNCHANGED <<lineQueue, parserQueue>>

\* A path, a path fopen refuses or no longer finds (skipped), or the pill.
CoordPop ==
  /\ coordPc = "pop"
  /\ dirQueue # <<>>
  /\ dirQueue' = Tail(dirQueue)
  /\ LET popped == Head(dirQueue) IN
     \/ /\ popped = Empty
        /\ coordPc' = "pills"
        /\ pillsDue' = Cardinality(Workers)
        /\ UNCHANGED <<file, unread>>
     \/ /\ popped \in Unreadable \cup Vanishing
        /\ coordPc' = "check"
        /\ UNCHANGED <<file, unread, pillsDue>>
     \/ /\ popped \notin Unreadable \cup {Empty}
        /\ coordPc' = "read"
        /\ file' = popped
        /\ unread' = Corpus[popped]
        /\ UNCHANGED pillsDue
  /\ UNCHANGED <<lineQueue, parserQueue>>

\* fgets, then the flag; at the end of the file, or told to stop, the file is closed.
CoordRead ==
  /\ coordPc = "read"
  /\ IF unread # <<>> /\ lexerRunning
       THEN coordPc' = "push" /\ UNCHANGED <<file, unread>>
       ELSE coordPc' = "check" /\ file' = Empty /\ unread' = <<>>
  /\ UNCHANGED <<pillsDue, channelVars>>

CoordPush == /\ coordPc = "push"
             /\ PushLine([filepath |-> file, line |-> Head(unread)])
             /\ unread' = Tail(unread)
             /\ coordPc' = "read"
             /\ UNCHANGED <<file, pillsDue, dirQueue, parserQueue>>

\* One pill per worker, whatever ended the loop.
CoordPill == /\ coordPc = "pills"
             /\ IF pillsDue = 0
                  THEN coordPc' = "done" /\ UNCHANGED <<pillsDue, lineQueue>>
                  ELSE /\ PushLine(LinePill)
                       /\ pillsDue' = pillsDue - 1
                       /\ UNCHANGED coordPc
             /\ UNCHANGED <<file, unread, dirQueue, parserQueue>>

CoordStep == /\ CoordCheck \/ CoordPop \/ CoordRead \/ CoordPush \/ CoordPill
             /\ UNCHANGED <<lexerRunning, activeWorkers, downstreamClosed, workerVars>>

-----------------------------------------------------------------------------
(* Worker. *)

WorkerGoto(w, label) == workerPc' = [workerPc EXCEPT ![w] = label]

WorkerCheck(w) == /\ workerPc[w] = "check"
                  /\ WorkerGoto(w, IF lexerRunning THEN "pop" ELSE "leave")
                  /\ UNCHANGED <<words, activeWorkers, downstreamClosed, channelVars>>

\* Mutant: an empty line taken for a pill.
WorkerPopEmptyLine(w) ==
  /\ workerPc[w] = "pop"
  /\ lineQueue # <<>>
  /\ lineQueue' = Tail(lineQueue)
  /\ IF Head(lineQueue).line = <<>>
       THEN WorkerGoto(w, "leave") /\ UNCHANGED words
       ELSE /\ WorkerGoto(w, "emit")
            /\ words' = [words EXCEPT ![w] = Head(lineQueue).line]
  /\ UNCHANGED <<activeWorkers, downstreamClosed, dirQueue, parserQueue>>

WorkerPop(w) == /\ workerPc[w] = "pop"
                /\ lineQueue # <<>>
                /\ lineQueue' = Tail(lineQueue)
                /\ IF Head(lineQueue) = LinePill
                     THEN WorkerGoto(w, "leave") /\ UNCHANGED words
                     ELSE /\ WorkerGoto(w, "emit")
                          /\ words' = [words EXCEPT ![w] = Head(lineQueue).line]
                /\ UNCHANGED <<activeWorkers, downstreamClosed, dirQueue, parserQueue>>

\* Mutant: a token only ends at a space, so the last word of a line is lost.
WorkerEmitToSpace(w) ==
  /\ workerPc[w] = "emit"
  /\ IF Len(words[w]) <= 1
       THEN /\ WorkerGoto(w, "check")
            /\ words' = [words EXCEPT ![w] = <<>>]
            /\ UNCHANGED parserQueue
       ELSE LET token == Cleaned[Head(words[w])] IN
            /\ IF token \in StopWords \cup {Empty}
                 THEN UNCHANGED parserQueue
                 ELSE PushToken(token)
            /\ words' = [words EXCEPT ![w] = Tail(@)]
            /\ UNCHANGED workerPc
  /\ UNCHANGED <<activeWorkers, downstreamClosed, dirQueue, lineQueue>>

\* The next word of the line: cleaned, then emitted unless nothing is left of it or
\* it is a stop word.  At the end of the line, back to the loop test.
WorkerEmit(w) ==
  /\ workerPc[w] = "emit"
  /\ IF words[w] = <<>>
       THEN WorkerGoto(w, "check") /\ UNCHANGED <<words, parserQueue>>
       ELSE LET token == Cleaned[Head(words[w])] IN
            /\ IF token \in StopWords \cup {Empty}
                 THEN UNCHANGED parserQueue
                 ELSE PushToken(token)
            /\ words' = [words EXCEPT ![w] = Tail(@)]
            /\ UNCHANGED workerPc
  /\ UNCHANGED <<activeWorkers, downstreamClosed, dirQueue, lineQueue>>

\* Mutant: every worker closes, the first one included.
WorkerLeaveAndClose(w) == /\ workerPc[w] = "leave"
                          /\ activeWorkers' = activeWorkers - 1
                          /\ WorkerGoto(w, "close")
                          /\ UNCHANGED <<words, downstreamClosed, channelVars>>

\* activeWorkers_.fetch_sub(1) == 1: the last worker out closes the queue.
WorkerLeave(w) == /\ workerPc[w] = "leave"
                  /\ activeWorkers' = activeWorkers - 1
                  /\ WorkerGoto(w, IF activeWorkers = 1 THEN "close" ELSE "done")
                  /\ UNCHANGED <<words, downstreamClosed, channelVars>>

WorkerClose(w) == /\ workerPc[w] = "close"
                  /\ \/ WinClose /\ WorkerGoto(w, "closing")
                     \/ LoseClose /\ WorkerGoto(w, "done")
                  /\ UNCHANGED <<words, activeWorkers, channelVars>>

WorkerClosing(w) == /\ workerPc[w] = "closing"
                    /\ PushToken(Empty)
                    /\ WorkerGoto(w, "done")
                    /\ UNCHANGED <<words, activeWorkers, downstreamClosed,
                                   dirQueue, lineQueue>>

WorkerStep(w) == /\ \/ WorkerCheck(w) \/ WorkerPop(w) \/ WorkerEmit(w)
                    \/ WorkerLeave(w) \/ WorkerClose(w) \/ WorkerClosing(w)
                 /\ UNCHANGED <<lexerRunning, coordVars>>
=============================================================================

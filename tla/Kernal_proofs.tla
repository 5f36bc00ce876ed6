--------------------------- MODULE Kernal_proofs ----------------------------
(***************************************************************************)
(* What holds of Kernal whatever the corpus, the capacities, the workers,  *)
(* the failures and the moment of the signal: types, what each phase of    *)
(* the main thread implies, and the order in which the parser's queue is   *)
(* closed.                                                                 *)
(***************************************************************************)
EXTENDS Kernal, FiniteSetTheorems, FunctionTheorems, SequenceTheorems, TLAPS

-----------------------------------------------------------------------------
(* Sequences: what a push and a pop do to a queue. *)

\* A push keeps the type, adds one element at the end and moves none.
LEMMA PushSeq ==
  ASSUME NEW S, NEW q \in Seq(S), NEW e \in S
  PROVE  /\ Append(q, e) \in Seq(S)
         /\ Len(Append(q, e)) = Len(q) + 1
         /\ \A i \in 1 .. Len(q) : Append(q, e)[i] = q[i]
         /\ Append(q, e)[Len(q) + 1] = e
  BY AppendProperties, LenProperties

\* A pop keeps the type, gives the first element and moves the others by one.
LEMMA PopSeq ==
  ASSUME NEW S, NEW q \in Seq(S), q # <<>>
  PROVE  /\ Tail(q) \in Seq(S)
         /\ Head(q) \in S
         /\ Head(q) = q[1]
         /\ Len(q) \in Nat \ {0}
         /\ Len(Tail(q)) = Len(q) - 1
         /\ \A i \in 1 .. Len(Tail(q)) : Tail(q)[i] = q[i + 1]
  BY HeadTailProperties, LenProperties, EmptySeq

\* The sets whose cardinality the Lexer takes are finite.
LEMMA WorkerSets ==
  ASSUME NEW S \in SUBSET Workers
  PROVE  /\ IsFiniteSet(S)
         /\ Cardinality(S) \in Nat
         /\ \A T \in SUBSET S : IsFiniteSet(T) /\ Cardinality(T) <= Cardinality(S)
  BY WorkersAssumption, FS_Subset, FS_CardinalityType

-----------------------------------------------------------------------------
(* Types. *)

\* What a step leaves alone keeps its type.
LEMMA TypeFrames ==
  TypeOK => /\ UNCHANGED channelVars => ChannelsTypeOK'
            /\ UNCHANGED readerVars  => ReaderTypeOK'
            /\ UNCHANGED lexerVars   => LexerTypeOK'
            /\ UNCHANGED parserVars  => ParserTypeOK'
            /\ UNCHANGED engineVars  => EngineTypeOK'
            /\ UNCHANGED kernalVars  => KernalTypeOK'
  <1> SUFFICES ASSUME TypeOK PROVE /\ UNCHANGED channelVars => ChannelsTypeOK'
                                   /\ UNCHANGED readerVars  => ReaderTypeOK'
                                   /\ UNCHANGED lexerVars   => LexerTypeOK'
                                   /\ UNCHANGED parserVars  => ParserTypeOK'
                                   /\ UNCHANGED engineVars  => EngineTypeOK'
                                   /\ UNCHANGED kernalVars  => KernalTypeOK'
    OBVIOUS
  <1> USE DEF TypeOK
  <1>1. UNCHANGED channelVars => ChannelsTypeOK'
    BY DEF ChannelsTypeOK, channelVars
  <1>2. UNCHANGED readerVars => ReaderTypeOK'
    BY DEF ReaderTypeOK, readerVars
  <1>3. UNCHANGED lexerVars => LexerTypeOK'
    BY DEF LexerTypeOK, lexerVars
  <1>4. UNCHANGED parserVars => ParserTypeOK'
    BY DEF ParserTypeOK, parserVars
  <1>5. UNCHANGED engineVars => EngineTypeOK'
    BY DEF EngineTypeOK, engineVars
  <1>6. UNCHANGED kernalVars => KernalTypeOK'
    BY DEF KernalTypeOK, kernalVars
  <1> QED BY <1>1, <1>2, <1>3, <1>4, <1>5, <1>6

\* A push keeps the types of the queues, and so does a pop, which yields an element.
LEMMA QueueTypes ==
  TypeOK =>
    /\ \A p \in Entries \cup {Empty} :
         PushDir(p) /\ UNCHANGED <<lineQueue, parserQueue>> => ChannelsTypeOK'
    /\ \A ilp \in Line \cup {LinePill} :
         PushLine(ilp) /\ UNCHANGED <<dirQueue, parserQueue>> => ChannelsTypeOK'
    /\ \A token \in Tokens \cup {Empty} :
         PushToken(token) /\ UNCHANGED <<dirQueue, lineQueue>> => ChannelsTypeOK'
    /\ dirQueue # <<>> =>
         /\ Head(dirQueue) \in Entries \cup {Empty}
         /\ dirQueue' = Tail(dirQueue) /\ UNCHANGED <<lineQueue, parserQueue>>
              => ChannelsTypeOK'
    /\ lineQueue # <<>> =>
         /\ Head(lineQueue) \in Line \cup {LinePill}
         /\ lineQueue' = Tail(lineQueue) /\ UNCHANGED <<dirQueue, parserQueue>>
              => ChannelsTypeOK'
    /\ parserQueue # <<>> =>
         /\ Head(parserQueue) \in Tokens \cup {Empty}
         /\ parserQueue' = Tail(parserQueue) /\ UNCHANGED <<dirQueue, lineQueue>>
              => ChannelsTypeOK'
  <1> SUFFICES ASSUME TypeOK
      PROVE /\ \A p \in Entries \cup {Empty} :
                 PushDir(p) /\ UNCHANGED <<lineQueue, parserQueue>> => ChannelsTypeOK'
            /\ \A ilp \in Line \cup {LinePill} :
                 PushLine(ilp) /\ UNCHANGED <<dirQueue, parserQueue>> => ChannelsTypeOK'
            /\ \A token \in Tokens \cup {Empty} :
                 PushToken(token) /\ UNCHANGED <<dirQueue, lineQueue>> => ChannelsTypeOK'
            /\ dirQueue # <<>> =>
                 /\ Head(dirQueue) \in Entries \cup {Empty}
                 /\ dirQueue' = Tail(dirQueue) /\ UNCHANGED <<lineQueue, parserQueue>>
                      => ChannelsTypeOK'
            /\ lineQueue # <<>> =>
                 /\ Head(lineQueue) \in Line \cup {LinePill}
                 /\ lineQueue' = Tail(lineQueue) /\ UNCHANGED <<dirQueue, parserQueue>>
                      => ChannelsTypeOK'
            /\ parserQueue # <<>> =>
                 /\ Head(parserQueue) \in Tokens \cup {Empty}
                 /\ parserQueue' = Tail(parserQueue) /\ UNCHANGED <<dirQueue, lineQueue>>
                      => ChannelsTypeOK'
    OBVIOUS
  <1>1. ChannelsTypeOK
    BY DEF TypeOK
  <1> USE <1>1, CapacityAssumption, PushSeq, PopSeq DEF ChannelsTypeOK
  <1>2. \A p \in Entries \cup {Empty} :
          PushDir(p) /\ UNCHANGED <<lineQueue, parserQueue>> => ChannelsTypeOK'
    BY DEF PushDir
  <1>3. \A ilp \in Line \cup {LinePill} :
          PushLine(ilp) /\ UNCHANGED <<dirQueue, parserQueue>> => ChannelsTypeOK'
    BY DEF PushLine
  <1>4. \A token \in Tokens \cup {Empty} :
          PushToken(token) /\ UNCHANGED <<dirQueue, lineQueue>> => ChannelsTypeOK'
    BY DEF PushToken
  <1>5. dirQueue # <<>> =>
          /\ Head(dirQueue) \in Entries \cup {Empty}
          /\ dirQueue' = Tail(dirQueue) /\ UNCHANGED <<lineQueue, parserQueue>>
               => ChannelsTypeOK'
    <2>1. ASSUME dirQueue # <<>>
          PROVE  /\ Head(dirQueue) \in Entries \cup {Empty}
                 /\ Tail(dirQueue) \in Seq(Entries \cup {Empty})
                 /\ Len(Tail(dirQueue)) <= DirCapacity
      BY <2>1
    <2> QED BY <2>1
  <1>6. lineQueue # <<>> =>
          /\ Head(lineQueue) \in Line \cup {LinePill}
          /\ lineQueue' = Tail(lineQueue) /\ UNCHANGED <<dirQueue, parserQueue>>
               => ChannelsTypeOK'
    <2>1. ASSUME lineQueue # <<>>
          PROVE  /\ Head(lineQueue) \in Line \cup {LinePill}
                 /\ Tail(lineQueue) \in Seq(Line \cup {LinePill})
                 /\ Len(Tail(lineQueue)) <= LineCapacity
      BY <2>1
    <2> QED BY <2>1
  <1>7. parserQueue # <<>> =>
          /\ Head(parserQueue) \in Tokens \cup {Empty}
          /\ parserQueue' = Tail(parserQueue) /\ UNCHANGED <<dirQueue, lineQueue>>
               => ChannelsTypeOK'
    <2>1. ASSUME parserQueue # <<>>
          PROVE  /\ Head(parserQueue) \in Tokens \cup {Empty}
                 /\ Tail(parserQueue) \in Seq(Tokens \cup {Empty})
                 /\ Len(Tail(parserQueue)) <= ParserCapacity
      BY <2>1
    <2> QED BY <2>1
  <1> QED BY <1>2, <1>3, <1>4, <1>5, <1>6, <1>7

\* A step of the reader.
LEMMA ReaderTypes == TypeOK /\ Reader => TypeOK'
  <1> SUFFICES ASSUME TypeOK, Reader PROVE TypeOK'
    OBVIOUS
  <1>1. LexerTypeOK' /\ ParserTypeOK' /\ EngineTypeOK' /\ KernalTypeOK'
    BY TypeFrames DEF Reader
  <1>2. ChannelsTypeOK'
    BY TypeFrames, QueueTypes
       DEF TypeOK, ReaderTypeOK, Reader, ReaderStep, ReaderScan, ReaderPush, ReaderClose,
           channelVars
  <1>3. ReaderTypeOK'
    BY DEF TypeOK, ReaderTypeOK, Reader, ReaderStep, ReaderScan, ReaderPush, ReaderClose
  <1> QED BY <1>1, <1>2, <1>3 DEF TypeOK

\* A step of the coordinator.
LEMMA CoordTypes == TypeOK /\ Coordinator => TypeOK'
  <1> SUFFICES ASSUME TypeOK, Coordinator PROVE TypeOK'
    OBVIOUS
  <1>1. ReaderTypeOK' /\ ParserTypeOK' /\ EngineTypeOK' /\ KernalTypeOK'
    BY TypeFrames DEF Coordinator
  <1>2. ChannelsTypeOK' /\ LexerTypeOK'
    <2>0. Cardinality(Workers) \in Nat /\ <<>> \in Seq(Seq(Words))
      BY WorkerSets
    <2>1. UNCHANGED <<lexerRunning, activeWorkers, downstreamClosed, workerPc, words>>
      BY DEF Coordinator, CoordStep, workerVars
    <2>2. LexerTypeOK
      BY DEF TypeOK
    <2> USE <2>0, <2>1, <2>2 DEF LexerTypeOK
    <2>3. CASE CoordCheck
      BY <2>3, TypeFrames DEF CoordCheck, channelVars
    <2>4. CASE CoordPop
      <3>1. ChannelsTypeOK' /\ Head(dirQueue) \in Entries \cup {Empty}
        BY <2>4, QueueTypes DEF CoordPop
      <3>2. LexerTypeOK'
        BY <2>4, <3>1, CorpusAssumption DEF CoordPop
      <3> QED BY <3>1, <3>2
    <2>5. CASE CoordRead
      <3>1. ChannelsTypeOK'
        BY <2>5, TypeFrames DEF CoordRead
      <3>2. CASE unread # <<>> /\ lexerRunning
        BY <2>5, <3>1, <3>2 DEF CoordRead
      <3>3. CASE ~(unread # <<>> /\ lexerRunning)
        <4>1. coordPc' = "check" /\ file' = Empty /\ unread' = <<>> /\ pillsDue' = pillsDue
          BY <2>5, <3>3 DEF CoordRead
        <4> QED BY <3>1, <4>1
      <3> QED BY <3>2, <3>3
    <2>6. CASE CoordPush
      <3>1. Tail(unread) \in Seq(Seq(Words)) /\ Head(unread) \in Seq(Words)
        BY <2>6, PopSeq DEF CoordPush
      <3>2. [filepath |-> file, line |-> Head(unread)] \in Line \cup {LinePill}
        BY <2>6, <3>1 DEF CoordPush, Line
      <3>3. ChannelsTypeOK'
        BY <2>6, <3>2, QueueTypes DEF CoordPush
      <3> QED BY <2>6, <3>1, <3>3 DEF CoordPush
    <2>7. CASE CoordPill
      <3>1. CASE pillsDue = 0
        <4>1. coordPc' = "done" /\ UNCHANGED <<file, unread, pillsDue, channelVars>>
          BY <2>7, <3>1 DEF CoordPill, channelVars
        <4> QED BY <4>1, TypeFrames
      <3>2. CASE pillsDue # 0
        <4>1. /\ PushLine(LinePill) /\ pillsDue' = pillsDue - 1
              /\ UNCHANGED <<coordPc, file, unread, dirQueue, parserQueue>>
          BY <2>7, <3>2 DEF CoordPill
        <4>2. ChannelsTypeOK'
          BY <4>1, QueueTypes
        <4> QED BY <3>2, <4>1, <4>2
      <3> QED BY <3>1, <3>2
    <2> QED BY <2>3, <2>4, <2>5, <2>6, <2>7 DEF Coordinator, CoordStep
  <1> QED BY <1>1, <1>2 DEF TypeOK

\* A step of a worker.
LEMMA WorkerTypes == TypeOK /\ (\E w \in Workers : Worker(w)) => TypeOK'
  <1> SUFFICES ASSUME TypeOK, NEW w \in Workers, Worker(w) PROVE TypeOK'
    OBVIOUS
  <1>1. ReaderTypeOK' /\ ParserTypeOK' /\ EngineTypeOK' /\ KernalTypeOK'
    BY TypeFrames DEF Worker
  <1>2. ChannelsTypeOK' /\ LexerTypeOK'
    <2>1. UNCHANGED <<lexerRunning, coordPc, file, unread, pillsDue>>
      BY DEF Worker, WorkerStep, coordVars
    <2>2. LexerTypeOK
      BY DEF TypeOK
    <2> DEFINE Pcs == {"none", "check", "pop", "emit", "leave", "close", "closing", "done"}
    <2>3. ASSUME workerPc' \in [Workers -> Pcs], words' \in [Workers -> Seq(Words)],
                 activeWorkers' \in Int, downstreamClosed' \in BOOLEAN
          PROVE  LexerTypeOK'
      BY <2>1, <2>2, <2>3 DEF LexerTypeOK
    <2>4. /\ workerPc \in [Workers -> Pcs] /\ words \in [Workers -> Seq(Words)]
          /\ activeWorkers \in Int /\ downstreamClosed \in BOOLEAN
      BY <2>2 DEF LexerTypeOK
    <2>5. \A label \in Pcs : WorkerGoto(w, label) => workerPc' \in [Workers -> Pcs]
      BY <2>4 DEF WorkerGoto
    <2>6. ASSUME NEW s \in Seq(Words), words' = [words EXCEPT ![w] = s]
          PROVE  words' \in [Workers -> Seq(Words)]
      BY <2>4, <2>6
    <2> HIDE DEF Pcs
    <2>7. /\ "check" \in Pcs /\ "pop" \in Pcs /\ "emit" \in Pcs /\ "leave" \in Pcs
          /\ "close" \in Pcs /\ "closing" \in Pcs /\ "done" \in Pcs
      BY DEF Pcs
    <2>8. CASE WorkerCheck(w)
      BY <2>3, <2>4, <2>5, <2>7, <2>8, TypeFrames DEF WorkerCheck
    <2>9. CASE WorkerPop(w)
      <3>1. ChannelsTypeOK' /\ Head(lineQueue) \in Line \cup {LinePill}
        BY <2>9, QueueTypes DEF WorkerPop
      <3>2. CASE Head(lineQueue) = LinePill
        BY <2>3, <2>4, <2>5, <2>7, <2>9, <3>1, <3>2 DEF WorkerPop
      <3>3. CASE Head(lineQueue) # LinePill
        <4>1. Head(lineQueue).line \in Seq(Words)
          BY <3>1, <3>3 DEF Line
        <4>2. words' = [words EXCEPT ![w] = Head(lineQueue).line]
          BY <2>9, <3>3 DEF WorkerPop
        <4>3. words' \in [Workers -> Seq(Words)]
          BY <2>6, <4>1, <4>2
        <4> QED BY <2>3, <2>4, <2>5, <2>7, <2>9, <3>1, <3>3, <4>3 DEF WorkerPop
      <3> QED BY <3>2, <3>3
    <2>10. CASE WorkerEmit(w)
      <3>1. CASE words[w] = <<>>
        BY <2>3, <2>4, <2>5, <2>7, <2>10, <3>1, TypeFrames DEF WorkerEmit, channelVars
      <3>2. CASE words[w] # <<>>
        <4> DEFINE token == Cleaned[Head(words[w])]
        <4>1. Tail(words[w]) \in Seq(Words) /\ Head(words[w]) \in Words
          BY <2>4, <3>2, PopSeq
        <4>2. token \notin StopWords \cup {Empty} => token \in Tokens \cup {Empty}
          BY <4>1 DEF Tokens
        <4>3. words' = [words EXCEPT ![w] = Tail(words[w])]
          BY <2>4, <2>10, <3>2 DEF WorkerEmit
        <4>4. words' \in [Workers -> Seq(Words)]
          BY <2>6, <4>1, <4>3
        <4>5. /\ IF token \in StopWords \cup {Empty} THEN UNCHANGED parserQueue
                                                    ELSE PushToken(token)
              /\ UNCHANGED <<workerPc, activeWorkers, downstreamClosed, dirQueue, lineQueue>>
          BY <2>10, <3>2, Zenon DEF WorkerEmit
        <4>6. ChannelsTypeOK'
          BY <4>2, <4>5, TypeFrames, QueueTypes DEF channelVars
        <4> QED BY <2>3, <2>4, <4>4, <4>5, <4>6
      <3> QED BY <3>1, <3>2
    <2>11. CASE WorkerLeave(w)
      BY <2>3, <2>4, <2>5, <2>7, <2>11, TypeFrames DEF WorkerLeave
    <2>12. CASE WorkerClose(w)
      BY <2>3, <2>4, <2>5, <2>7, <2>12, TypeFrames DEF WorkerClose, WinClose, LoseClose
    <2>13. CASE WorkerClosing(w)
      BY <2>3, <2>4, <2>5, <2>7, <2>13, QueueTypes DEF WorkerClosing
    <2> QED BY <2>8, <2>9, <2>10, <2>11, <2>12, <2>13 DEF Worker, WorkerStep
  <1> QED BY <1>1, <1>2 DEF TypeOK

\* A step of the Parser.
LEMMA ParserTypes == TypeOK /\ ParserThread => TypeOK'
  <1> SUFFICES ASSUME TypeOK, ParserThread PROVE TypeOK'
    OBVIOUS
  <1>1. ReaderTypeOK' /\ LexerTypeOK' /\ EngineTypeOK' /\ KernalTypeOK'
    BY TypeFrames DEF ParserThread
  <1>2. ChannelsTypeOK'
    BY TypeFrames, QueueTypes
       DEF ParserThread, ParserStep, ParserCheck, ParserPop, ParserSettle
  <1>3. ParserTypeOK'
    BY QueueTypes DEF TypeOK, ParserTypeOK, ParserThread, ParserStep, ParserCheck,
                      ParserPop, ParserSettle
  <1> QED BY <1>1, <1>2, <1>3 DEF TypeOK

\* A step of the Engine or of the user.
LEMMA EngineTypes == TypeOK /\ (EngineThread \/ Query) => TypeOK'
  <1> SUFFICES ASSUME TypeOK, EngineThread \/ Query PROVE TypeOK'
    OBVIOUS
  <1>1. ChannelsTypeOK' /\ ReaderTypeOK' /\ LexerTypeOK' /\ ParserTypeOK' /\ KernalTypeOK'
    BY TypeFrames DEF EngineThread, Query
  <1>2. EngineTypeOK'
    BY DEF TypeOK, EngineTypeOK, EngineThread, Query, EngineCheck, EnginePrompt
  <1> QED BY <1>1, <1>2 DEF TypeOK

\* The variables of the main thread and of the lifecycle.
LEMMA MainGoes ==
  TypeOK /\ mainPc' \in Starting \cup Stopping \cup {"serving", "exited", "aborted"}
         /\ state' \in [Subsystems -> States]
         /\ UNCHANGED <<mainPills, shutdown, hasSearchIndex>> /\ startFailed' \in BOOLEAN
    => KernalTypeOK'
  BY DEF TypeOK, KernalTypeOK

\* A subsystem that changes its state.
LEMMA StateTypes ==
  ASSUME TypeOK, NEW s, NEW st \in States
  PROVE  state \in [Subsystems -> States] /\ [state EXCEPT ![s] = st] \in [Subsystems -> States]
  BY DEF TypeOK, KernalTypeOK

\* CloseParserQueue_ on the main thread.
LEMMA CloseByTypes ==
  ASSUME TypeOK, NEW from, NEW pushing, NEW after, CloseBy(from, pushing, after)
  PROVE  /\ ChannelsTypeOK' /\ ReaderTypeOK' /\ LexerTypeOK' /\ ParserTypeOK' /\ EngineTypeOK'
         /\ mainPc' \in {pushing, after}
  <1>1. ReaderTypeOK' /\ ParserTypeOK' /\ EngineTypeOK'
    BY TypeFrames DEF CloseBy
  <1>2. ChannelsTypeOK'
    BY TypeFrames, QueueTypes DEF CloseBy, channelVars
  <1>3. LexerTypeOK'
    BY DEF TypeOK, LexerTypeOK, CloseBy, WinClose, LoseClose, coordVars, workerVars
  <1> QED BY <1>1, <1>2, <1>3 DEF CloseBy, Main

\* A step of the main thread, or a signal.
LEMMA MainTypes == TypeOK /\ (MainStep \/ Signal \/ ScanThrows) => TypeOK'
  <1> SUFFICES ASSUME TypeOK, MainStep \/ Signal \/ ScanThrows PROVE TypeOK'
    OBVIOUS
  <1> DEFINE Pcs == Starting \cup Stopping \cup {"serving", "exited", "aborted"}
  <1>0. /\ ChannelsTypeOK /\ ReaderTypeOK /\ LexerTypeOK
        /\ ParserTypeOK /\ EngineTypeOK /\ KernalTypeOK
    BY DEF TypeOK
  <1>a. /\ UNCHANGED channelVars => ChannelsTypeOK'
        /\ UNCHANGED readerVars  => ReaderTypeOK'
        /\ UNCHANGED lexerVars   => LexerTypeOK'
        /\ UNCHANGED parserVars  => ParserTypeOK'
        /\ UNCHANGED engineVars  => EngineTypeOK'
    BY TypeFrames
  <1>b. /\ mainPc' \in Pcs /\ state' \in [Subsystems -> States]
        /\ UNCHANGED <<mainPills, shutdown, hasSearchIndex>> /\ startFailed' \in BOOLEAN
        => KernalTypeOK'
    BY MainGoes
  <1>c. \A s, st : st \in States /\ Become(s, st) => state' \in [Subsystems -> States]
    BY StateTypes DEF Become
  <1>d. /\ state \in [Subsystems -> States] /\ startFailed \in BOOLEAN
        /\ TRUE \in BOOLEAN /\ Cardinality(Workers) \in Nat
        /\ Cardinality(Spawned) \in Nat
    BY <1>0, WorkerSets DEF KernalTypeOK, Spawned
  <1>e. Starting \subseteq Pcs /\ Stopping \subseteq Pcs
        /\ "serving" \in Pcs /\ "exited" \in Pcs /\ "aborted" \in Pcs
    OBVIOUS
  <1>f. /\ "INITIALIZED" \in States /\ "STARTED" \in States
        /\ "STOPPING" \in States /\ "STOPPED" \in States
    BY DEF States
  <1> HIDE DEF Pcs
  <1>1. CASE InitAll
    BY <1>1, <1>a, <1>b, <1>c, <1>d, <1>e, <1>f
       DEF InitAll, Main, OthersUnchanged, TypeOK, Starting
  <1>2. CASE StartStore
    <2>1. hasSearchIndex' \in BOOLEAN
      BY <1>2, EnvironmentAssumption DEF StartStore
    <2>2. mainPc' \in Pcs /\ state' \in [Subsystems -> States]
      BY <1>2, <1>c, <1>e, <1>f DEF StartStore, Starting
    <2>3. KernalTypeOK'
      BY <1>2, <1>0, <2>1, <2>2 DEF StartStore, KernalTypeOK, Pcs
    <2> QED BY <1>2, <1>a, <2>3 DEF StartStore, OthersUnchanged, TypeOK
  <1>3. CASE StartReader
    <2>1. KernalTypeOK'
      BY <1>3, <1>b, <1>c, <1>d, <1>e, <1>f DEF StartReader, Main, Starting
    <2>2. ReaderTypeOK'
      BY <1>3, <1>0, <1>a DEF StartReader, ReaderOnStart, ReaderTypeOK
    <2> QED BY <1>3, <1>a, <2>1, <2>2 DEF StartReader, TypeOK
  <1>4. CASE StartLexer
    <2>1. KernalTypeOK'
      BY <1>4, <1>b, <1>c, <1>d, <1>e, <1>f DEF StartLexer, Main, Starting
    <2>2. LexerTypeOK'
      <3> USE <1>0, <1>d DEF LexerTypeOK, coordVars, workerVars
      <3>1. CASE LexerPrepare
        <4>1. activeWorkers' \in Int
          BY <3>1 DEF LexerPrepare
        <4>3. lexerRunning' \in BOOLEAN
          BY <3>1 DEF LexerPrepare
        <4>4. downstreamClosed' \in BOOLEAN
          BY <3>1 DEF LexerPrepare
        <4>2. UNCHANGED <<coordPc, file, unread, pillsDue, workerPc, words>>
          BY <3>1 DEF LexerPrepare
        <4> QED BY <4>1, <4>2, <4>3, <4>4
      <3>2. CASE \E w \in Workers : SpawnWorker(w)
        BY <3>2 DEF SpawnWorker
      <3>3. CASE SpawnCoordinator
        BY <3>3 DEF SpawnCoordinator
      <3>4. CASE LexerStopRunning
        BY <3>4 DEF LexerStopRunning
      <3> QED BY <1>4, <3>1, <3>2, <3>3, <3>4 DEF StartLexer
    <2> QED BY <1>4, <1>a, <2>1, <2>2 DEF StartLexer, TypeOK
  <1>5. CASE UndoRecount
    <2>1. mainPc' \in Pcs /\ mainPills' \in Nat
      BY <1>5, <1>d, <1>e DEF UndoRecount, Main, Starting
    <2>2. KernalTypeOK'
      BY <1>5, <1>0, <2>1 DEF UndoRecount, KernalTypeOK, Pcs
    <2>3. LexerTypeOK'
      BY <1>5, <1>0, <1>d DEF UndoRecount, LexerRecount, LexerTypeOK, coordVars, workerVars
    <2> QED BY <1>5, <1>a, <2>2, <2>3 DEF UndoRecount, TypeOK
  <1>6. CASE UndoPill
    <2>1. mainPc' \in Pcs /\ mainPills' \in Nat
      BY <1>6, <1>0, <1>e DEF UndoPill, Starting, KernalTypeOK, Pcs
    <2>2. KernalTypeOK'
      BY <1>6, <1>0, <2>1 DEF UndoPill, KernalTypeOK, Pcs
    <2>3. ChannelsTypeOK'
      BY <1>6, <1>a, QueueTypes DEF UndoPill, channelVars
    <2> QED BY <1>6, <1>a, <2>2, <2>3 DEF UndoPill, TypeOK
  <1>7. CASE UndoJoin
    BY <1>7, <1>a, <1>b, <1>d, <1>e DEF UndoJoin, Main, OthersUnchanged, TypeOK, Starting
  <1>8. CASE UndoClose
    <2>1. CloseBy("undoClose", "undoClosing", "stopEngine")
      BY <1>8 DEF UndoClose
    <2>2. mainPc' \in Pcs /\ startFailed' \in BOOLEAN
      BY <1>8, <2>1, <1>e, CloseByTypes DEF UndoClose, Starting, Stopping
    <2> QED BY <1>8, <2>1, <2>2, <1>b, <1>d, CloseByTypes DEF UndoClose, TypeOK
  <1>9. CASE StartParser
    <2>1. KernalTypeOK'
      BY <1>9, <1>b, <1>c, <1>d, <1>e, <1>f DEF StartParser, StartFails, Starting, Stopping
    <2>2. ParserTypeOK'
      BY <1>9, <1>0, <1>a DEF StartParser, ParserOnStart, ParserTypeOK
    <2> QED BY <1>9, <1>a, <2>1, <2>2 DEF StartParser, TypeOK
  <1>10. CASE AwaitIndexing
    <2>1. KernalTypeOK'
      BY <1>10, <1>b, <1>d, <1>e DEF AwaitIndexing, StartFails, Starting, Stopping
    <2> QED BY <1>10, <1>a, <2>1 DEF AwaitIndexing, OthersUnchanged, TypeOK
  <1>11. CASE StartEngine
    <2>1. KernalTypeOK'
      BY <1>11, <1>b, <1>c, <1>d, <1>e, <1>f DEF StartEngine, Main
    <2>2. EngineTypeOK'
      BY <1>11, <1>0, <1>a DEF StartEngine, EngineOnStart, EngineTypeOK
    <2> QED BY <1>11, <1>a, <2>1, <2>2 DEF StartEngine, TypeOK
  <1>12. CASE Serve
    BY <1>12, <1>a, <1>b, <1>d, <1>e DEF Serve, OthersUnchanged, TypeOK, Stopping
  <1>13. CASE StopEngine
    <2>1. KernalTypeOK'
      BY <1>13, <1>b, <1>c, <1>d, <1>e, <1>f
         DEF StopEngine, SkipStop, BeginStop, MainKeeps, Main, Stopping
    <2>2. EngineTypeOK'
      BY <1>13, <1>0, <1>a DEF StopEngine, EngineOnStop, EngineTypeOK
    <2> QED BY <1>13, <1>a, <2>1, <2>2 DEF StopEngine, TypeOK
  <1>14. CASE StopParser
    <2>1. KernalTypeOK'
      BY <1>14, <1>b, <1>c, <1>d, <1>e, <1>f
         DEF StopParser, SkipStop, BeginStop, MainKeeps, Main, Stopping
    <2>2. ParserTypeOK'
      BY <1>14, <1>0, <1>a DEF StopParser, ParserStopRunning, ParserTypeOK
    <2>3. ChannelsTypeOK'
      BY <1>14, <1>a, QueueTypes DEF StopParser, channelVars
    <2> QED BY <1>14, <1>a, <2>1, <2>2, <2>3 DEF StopParser, TypeOK
  <1>15. CASE StopLexer
    <2>1. KernalTypeOK'
      BY <1>15, <1>b, <1>c, <1>d, <1>e, <1>f
         DEF StopLexer, SkipStop, BeginStop, MainKeeps, Main, Stopping
    <2>2. LexerTypeOK'
      BY <1>15, <1>0, <1>a DEF StopLexer, LexerStopRunning, LexerTypeOK, coordVars, workerVars
    <2>3. ChannelsTypeOK'
      BY <1>15, <1>a, QueueTypes DEF StopLexer, channelVars
    <2> QED BY <1>15, <1>a, <2>1, <2>2, <2>3 DEF StopLexer, TypeOK
  <1>16. CASE StopLexerClose
    <2>1. CloseBy("closeParser", "closingParser", "stopReader")
      BY <1>16 DEF StopLexerClose
    <2>2. mainPc' \in Pcs
      BY <2>1, <1>e, CloseByTypes DEF Stopping
    <2>3. KernalTypeOK'
      BY <1>16, <2>2, <1>b, <1>c, <1>d, <1>f DEF StopLexerClose, MainKeeps
    <2> QED BY <2>1, <2>3, CloseByTypes DEF TypeOK
  <1>17. CASE StopReader
    <2>1. KernalTypeOK'
      BY <1>17, <1>b, <1>c, <1>d, <1>e, <1>f
         DEF StopReader, SkipStop, BeginStop, MainKeeps, Main, Stopping
    <2>2. ReaderTypeOK'
      BY <1>17, <1>0, <1>a DEF StopReader, ReaderOnStop, ReaderTypeOK
    <2> QED BY <1>17, <1>a, <2>1, <2>2 DEF StopReader, TypeOK
  <1>18. CASE StopStore
    BY <1>18, <1>a, <1>b, <1>c, <1>d, <1>e, <1>f
       DEF StopStore, MainKeeps, Main, OthersUnchanged, TypeOK
  <1>19. CASE Signal \/ ScanThrows
    <2>1. KernalTypeOK'
      BY <1>19, <1>0 DEF Signal, ScanThrows, KernalTypeOK
    <2> QED BY <1>19, <1>a, <2>1 DEF Signal, ScanThrows, OthersUnchanged, TypeOK
  <1> QED
    BY <1>1, <1>2, <1>3, <1>4, <1>5, <1>6, <1>7, <1>8, <1>9, <1>10, <1>11, <1>12,
       <1>13, <1>14, <1>15, <1>16, <1>17, <1>18, <1>19 DEF MainStep

\* The program starts with these types.
LEMMA InitTypes == Init => TypeOK
  <1> SUFFICES ASSUME Init PROVE TypeOK
    OBVIOUS
  <1> USE DEF Init
  <1>1. ChannelsTypeOK
    BY CapacityAssumption DEF ChannelsInit, ChannelsTypeOK
  <1>2. ReaderTypeOK
    BY DEF ReaderInit, ReaderTypeOK
  <1>3. LexerTypeOK
    <2>1. <<>> \in Seq(Seq(Words)) /\ <<>> \in Seq(Words)
      OBVIOUS
    <2>2. /\ words \in [Workers -> Seq(Words)]
          /\ workerPc \in [Workers -> {"none", "check", "pop", "emit", "leave",
                                       "close", "closing", "done"}]
      BY <2>1 DEF LexerInit
    <2>3. unread \in Seq(Seq(Words)) /\ file = Empty
      BY <2>1 DEF LexerInit
    <2>4. lexerRunning \in BOOLEAN
      BY DEF LexerInit
    <2>5. downstreamClosed \in BOOLEAN
      BY DEF LexerInit
    <2>6. activeWorkers \in Int /\ pillsDue \in Nat /\ coordPc = "none"
      BY DEF LexerInit
    <2> QED BY <2>2, <2>3, <2>4, <2>5, <2>6 DEF LexerTypeOK
  <1>4. ParserTypeOK
    BY DEF ParserInit, ParserTypeOK
  <1>5. EngineTypeOK
    BY DEF EngineInit, EngineTypeOK
  <1>6. KernalTypeOK
    BY DEF KernalTypeOK, Starting, States
  <1> QED BY <1>1, <1>2, <1>3, <1>4, <1>5, <1>6 DEF TypeOK

\* And every step keeps them.
LEMMA NextTypes == TypeOK /\ [Next]_vars => TypeOK'
  <1> SUFFICES ASSUME TypeOK, [Next]_vars PROVE TypeOK'
    OBVIOUS
  <1>1. CASE UNCHANGED vars
    BY <1>1, TypeFrames DEF vars, TypeOK
  <1>2. CASE Next
    BY <1>1, <1>2, MainTypes, ReaderTypes, CoordTypes, WorkerTypes, ParserTypes, EngineTypes
       DEF Next, Gone
  <1> QED BY <1>1, <1>2

\* Type correctness: the three queues never exceed their capacities, and every program
\* counter, flag and counter stays in its range.
THEOREM KernalTypes == Spec => []TypeOK
  BY InitTypes, NextTypes, PTL DEF Spec

-----------------------------------------------------------------------------
(* The closing of the parser's queue.                                      *)
(*                                                                         *)
(* A worker that may still push is counted, so activeWorkers is positive   *)
(* and nobody has closed; who closes holds the only pill, and pushes it    *)
(* behind every token.                                                     *)

closingVars == <<workerPc, activeWorkers, downstreamClosed, parserQueue, parserPc>>

\* A step that touches none of this, restarts no spawning and hands main no pill.
LEMMA ClosingFrame ==
  ASSUME KernalInv, UNCHANGED closingVars, Fed' => Fed,
         mainPc' = "spawn" => mainPc = "spawn", MainHoldsPill' => MainHoldsPill
  PROVE  ClosingOrder'
  <1> USE DEF KernalInv, ClosingOrder, closingVars
  <1>1. Counted \in SUBSET Workers /\ Counted' \in SUBSET Counted
    BY DEF Counted
  <1>2. CountCovers'
    <2>1. Cardinality(Counted') <= Cardinality(Counted)
      BY <1>1, WorkerSets
    <2>2. /\ Cardinality(Counted') \in Int /\ Cardinality(Counted) \in Int
          /\ activeWorkers \in Int
      BY <1>1, WorkerSets DEF TypeOK, LexerTypeOK
    <2> QED BY <2>1, <2>2 DEF CountCovers
  <1>3. ClosedWhenDone'
    BY <1>1 DEF ClosedWhenDone
  <1>4. OneHolder'
    BY DEF OneHolder, HoldsPill, StreamEnded, PillQueued
  <1>5. PillLast'
    BY DEF PillLast
  <1> QED BY <1>2, <1>3, <1>4, <1>5

\* While a worker is counted, nobody has closed the queue.
LEMMA CountedMeansOpen ==
  ASSUME KernalInv, NEW w \in Workers, w \in Counted
  PROVE  /\ ~downstreamClosed /\ ~MainHoldsPill /\ ~StreamEnded
         /\ \A v \in Workers : workerPc[v] \notin {"close", "closing"}
  BY DEF KernalInv, ClosingOrder, ClosedWhenDone, OneHolder

\* Who has the pill pushes it: the queue had none, and it becomes the last element.
LEMMA PillPushed ==
  ASSUME KernalInv, ~StreamEnded, PushToken(Empty), UNCHANGED <<parserPc, state>>
  PROVE  PillLast'
  <1> SUFFICES ASSUME Fed'
               PROVE  /\ parserPc' \in {"settle", "done"} => parserQueue' = <<>>
                      /\ \A i \in 1 .. Len(parserQueue') :
                           parserQueue'[i] = Empty => i = Len(parserQueue')
    BY DEF PillLast
  <1>1. Fed /\ ~PillQueued /\ parserPc \notin {"settle", "done"}
    BY DEF Fed, StreamEnded
  <1>2. parserQueue \in Seq(Tokens \cup {Empty})
    BY DEF KernalInv, TypeOK, ChannelsTypeOK
  <1>3. /\ Len(parserQueue') = Len(parserQueue) + 1
        /\ Len(parserQueue) \in Nat
        /\ \A i \in 1 .. Len(parserQueue) : parserQueue'[i] = parserQueue[i]
    BY <1>2, PushSeq, LenProperties DEF PushToken
  <1> QED BY <1>1, <1>3 DEF PillQueued

\* Worker steps.
LEMMA WorkerClosingOrder ==
  ASSUME KernalInv, NEW w \in Workers, Worker(w)
  PROVE  ClosingOrder'
  <1> USE DEF KernalInv
  <1>0. /\ UNCHANGED <<state, mainPc, parserPc>>
        /\ MainHoldsPill' = MainHoldsPill /\ Fed' = Fed
    BY DEF Worker, kernalVars, parserVars, MainHoldsPill, Fed
  <1>t. /\ \A v \in Workers : workerPc[v] \in {"none", "check", "pop", "emit", "leave",
                                               "close", "closing", "done"}
        /\ DOMAIN workerPc = Workers
        /\ activeWorkers \in Int
    BY DEF TypeOK, LexerTypeOK
  <1>w. \A label : WorkerGoto(w, label) =>
          /\ workerPc'[w] = label
          /\ \A v \in Workers \ {w} : workerPc'[v] = workerPc[v]
    BY DEF WorkerGoto, TypeOK, LexerTypeOK
  \* A move that leaves the worker counted.
  <1>1. ASSUME w \in Counted, NEW label \in {"check", "pop", "emit", "leave"},
               WorkerGoto(w, label), UNCHANGED <<activeWorkers, downstreamClosed, parserQueue>>
        PROVE  ClosingOrder'
    <2>1. Counted' = Counted
      BY <1>0, <1>1, <1>w DEF Counted
    <2>2. \A v \in Workers : workerPc'[v] \notin {"close", "closing"}
      BY <1>1, <1>w, CountedMeansOpen
    <2>3. CountCovers'
      BY <1>1, <2>1 DEF ClosingOrder, CountCovers
    <2>4. ClosedWhenDone' /\ OneHolder'
      BY <1>0, <1>1, <2>2, CountedMeansOpen
         DEF ClosedWhenDone, OneHolder, HoldsPill, StreamEnded, PillQueued
    <2>5. PillLast'
      BY <1>0, <1>1 DEF ClosingOrder, PillLast
    <2> QED BY <2>3, <2>4, <2>5 DEF ClosingOrder
  <1>2. CASE WorkerCheck(w)
    BY <1>1, <1>2 DEF WorkerCheck, Counted, channelVars
  <1>3. CASE WorkerPop(w)
    BY <1>1, <1>3 DEF WorkerPop, Counted
  <1>4. CASE WorkerEmit(w)
    <2>0. w \in Counted
      BY <1>4 DEF WorkerEmit, Counted
    <2>1. CASE words[w] = <<>>
      BY <1>1, <1>4, <2>0, <2>1 DEF WorkerEmit
    <2>2. CASE words[w] # <<>>
      <3> DEFINE token == Cleaned[Head(words[w])]
      <3>1. /\ IF token \in StopWords \cup {Empty} THEN UNCHANGED parserQueue
                                                  ELSE PushToken(token)
            /\ UNCHANGED <<workerPc, activeWorkers, downstreamClosed>>
        BY <1>4, <2>2, Zenon DEF WorkerEmit
      <3>2. CASE UNCHANGED parserQueue
        BY <1>0, <3>1, <3>2, ClosingFrame DEF closingVars
      <3>3. CASE token # Empty /\ PushToken(token)
        <4>1. ~StreamEnded /\ ~downstreamClosed /\ ~MainHoldsPill
              /\ \A v \in Workers : workerPc[v] \notin {"close", "closing"}
          BY <2>0, CountedMeansOpen
        <4>2. parserQueue \in Seq(Tokens \cup {Empty})
          BY DEF TypeOK, ChannelsTypeOK
        <4>3. token \in Tokens \cup {Empty, token}
          OBVIOUS
        <4>4. /\ Len(parserQueue') = Len(parserQueue) + 1
              /\ Len(parserQueue) \in Nat
              /\ \A i \in 1 .. Len(parserQueue) : parserQueue'[i] = parserQueue[i]
              /\ parserQueue'[Len(parserQueue) + 1] = token
          <5>1. parserQueue \in Seq(Tokens \cup {Empty, token})
            BY <4>2, SeqDef
          <5> QED BY <3>3, <4>3, <5>1, PushSeq, LenProperties DEF PushToken
        <4>5. PillQueued' => PillQueued
          BY <3>3, <4>4 DEF PillQueued
        <4>6. ~StreamEnded'
          BY <1>0, <4>1, <4>5 DEF StreamEnded
        <4>7. Counted' = Counted
          BY <1>0, <3>1 DEF Counted
        <4>8. CountCovers' /\ ClosedWhenDone'
          BY <3>1, <4>7 DEF ClosingOrder, CountCovers, ClosedWhenDone
        <4>9. OneHolder'
          BY <1>0, <3>1, <4>1, <4>6 DEF OneHolder, HoldsPill
        <4>10. PillLast'
          BY <1>0, <4>6 DEF PillLast, StreamEnded, PillQueued
        <4> QED BY <4>8, <4>9, <4>10 DEF ClosingOrder
      <3> QED BY <3>1, <3>2, <3>3
    <2> QED BY <2>1, <2>2
  <1>5. CASE WorkerLeave(w)
    <2>0. w \in Counted
      BY <1>5 DEF WorkerLeave, Counted
    <2>1. /\ activeWorkers' = activeWorkers - 1
          /\ workerPc'[w] \in {"close", "done"}
          /\ workerPc'[w] = "close" => activeWorkers = 1
          /\ \A v \in Workers \ {w} : workerPc'[v] = workerPc[v]
          /\ UNCHANGED <<downstreamClosed, parserQueue>>
      BY <1>5, <1>w DEF WorkerLeave, channelVars
    <2>2. Counted' = Counted \ {w}
      BY <1>0, <2>1 DEF Counted
    <2>3. /\ Cardinality(Counted) \in Nat /\ Cardinality(Counted') \in Nat
          /\ Cardinality(Counted') = Cardinality(Counted) - 1
      <3>1. Counted \in SUBSET Workers /\ Counted' \in SUBSET Workers
        BY <2>2 DEF Counted
      <3>2. IsFiniteSet(Counted) /\ Cardinality(Counted) \in Nat /\ Cardinality(Counted') \in Nat
        BY <3>1, WorkerSets
      <3> QED BY <2>0, <2>2, <3>2, FS_RemoveElement
    <2>4. CountCovers'
      BY <1>t, <2>1, <2>3 DEF ClosingOrder, CountCovers
    <2>5. ~downstreamClosed /\ ~StreamEnded /\ ~MainHoldsPill
          /\ \A v \in Workers : workerPc[v] \notin {"close", "closing"}
      BY <2>0, CountedMeansOpen
    <2>6. workerPc'[w] = "close" => Counted' = {}
      <3>1. workerPc'[w] = "close" => Cardinality(Counted') <= 0
        BY <1>t, <2>1, <2>3, <2>4 DEF CountCovers
      <3>2. Counted' \in SUBSET Workers
        BY <2>2 DEF Counted
      <3> QED BY <2>3, <3>1, <3>2, WorkerSets, FS_EmptySet
    <2>7. ClosedWhenDone'
      BY <2>1, <2>5, <2>6 DEF ClosedWhenDone
    <2>8. OneHolder'
      BY <1>0, <2>1, <2>5 DEF OneHolder, HoldsPill, StreamEnded, PillQueued
    <2>9. PillLast'
      BY <1>0, <2>1 DEF ClosingOrder, PillLast
    <2> QED BY <2>4, <2>7, <2>8, <2>9 DEF ClosingOrder
  <1>6. CASE WorkerClose(w)
    <2>1. /\ workerPc[w] = "close" /\ UNCHANGED <<activeWorkers, parserQueue>>
          /\ \A v \in Workers \ {w} : workerPc'[v] = workerPc[v]
          /\ \/ ~downstreamClosed /\ downstreamClosed' /\ workerPc'[w] = "closing"
             \/ downstreamClosed /\ downstreamClosed' /\ workerPc'[w] = "done"
      BY <1>6, <1>w DEF WorkerClose, WinClose, LoseClose, channelVars
    <2>2. Counted = {}
      BY <2>1 DEF ClosingOrder, ClosedWhenDone
    <2>3. Counted' = Counted
      BY <1>0, <2>1, <2>2 DEF Counted
    <2>4. CountCovers' /\ ClosedWhenDone'
      BY <2>1, <2>2, <2>3 DEF ClosingOrder, CountCovers, ClosedWhenDone
    <2>5. OneHolder'
      BY <1>0, <2>1 DEF ClosingOrder, OneHolder, HoldsPill, StreamEnded, PillQueued
    <2>6. PillLast'
      BY <1>0, <2>1 DEF ClosingOrder, PillLast
    <2> QED BY <2>4, <2>5, <2>6 DEF ClosingOrder
  <1>7. CASE WorkerClosing(w)
    <2>1. /\ workerPc[w] = "closing" /\ UNCHANGED <<activeWorkers, downstreamClosed>>
          /\ workerPc'[w] = "done" /\ PushToken(Empty)
          /\ \A v \in Workers \ {w} : workerPc'[v] = workerPc[v]
      BY <1>7, <1>w DEF WorkerClosing
    <2>2. /\ downstreamClosed /\ ~MainHoldsPill /\ ~StreamEnded
          /\ \A v \in Workers \ {w} : ~HoldsPill(v)
      BY <2>1 DEF ClosingOrder, OneHolder, HoldsPill
    <2>3. Counted = {} /\ Counted' = Counted
      BY <1>0, <2>1, <2>2 DEF ClosingOrder, ClosedWhenDone, Counted
    <2>4. CountCovers' /\ ClosedWhenDone'
      BY <2>1, <2>3 DEF ClosingOrder, CountCovers, ClosedWhenDone
    <2>5. OneHolder'
      BY <1>0, <2>1, <2>2 DEF OneHolder, HoldsPill
    <2>6. PillLast'
      BY <1>0, <2>1, <2>2, PillPushed
    <2> QED BY <2>4, <2>5, <2>6 DEF ClosingOrder
  <1> QED BY <1>2, <1>3, <1>4, <1>5, <1>6, <1>7 DEF Worker, WorkerStep

\* Parser steps: what it pops last is the pill.
LEMMA ParserClosingOrder ==
  ASSUME KernalInv, ParserThread
  PROVE  ClosingOrder'
  <1> USE DEF KernalInv
  <1>0. /\ UNCHANGED <<state, mainPc, workerPc, activeWorkers, downstreamClosed>>
        /\ MainHoldsPill' = MainHoldsPill /\ Fed' = Fed
        /\ \A v \in Workers : HoldsPill(v)' = HoldsPill(v)
    BY DEF ParserThread, kernalVars, lexerVars, MainHoldsPill, Fed, HoldsPill
  <1>1. Counted' = Counted
    BY <1>0 DEF Counted
  <1>2. CountCovers' /\ ClosedWhenDone'
    BY <1>0, <1>1 DEF ClosingOrder, CountCovers, ClosedWhenDone
  <1>3. /\ StreamEnded' => StreamEnded
        /\ PillLast'
    <2>1. CASE ParserCheck
      <3>1. /\ parserQueue' = parserQueue /\ parserPc = "check"
            /\ parserPc' = IF parserRunning THEN "pop" ELSE "done"
        BY <2>1 DEF ParserCheck, channelVars
      <3>2. Fed => parserRunning
        BY <3>1 DEF BootPhases
      <3> QED BY <1>0, <3>1, <3>2 DEF StreamEnded, PillQueued, ClosingOrder, PillLast
    <2>2. CASE ParserPop
      <3>1. /\ parserQueue # <<>> /\ parserQueue' = Tail(parserQueue) /\ parserPc = "pop"
            /\ parserPc' = IF Head(parserQueue) = Empty THEN "settle" ELSE "check"
        BY <2>2 DEF ParserPop
      <3>2. /\ Head(parserQueue) = parserQueue[1]
            /\ Len(parserQueue) \in Nat \ {0}
            /\ Len(parserQueue') = Len(parserQueue) - 1
            /\ \A i \in 1 .. Len(parserQueue') : parserQueue'[i] = parserQueue[i + 1]
            /\ parserQueue' \in Seq(Tokens \cup {Empty})
        BY <3>1, PopSeq DEF TypeOK, ChannelsTypeOK
      <3>3. PillQueued' => PillQueued
        BY <3>2 DEF PillQueued
      <3>4. Head(parserQueue) = Empty => PillQueued
        BY <3>2 DEF PillQueued
      <3>5. StreamEnded' => StreamEnded
        BY <1>0, <3>1, <3>3, <3>4 DEF StreamEnded
      <3>6. Fed /\ Head(parserQueue) = Empty => parserQueue' = <<>>
        <4>1. Fed /\ Head(parserQueue) = Empty => Len(parserQueue') = 0
          BY <3>2 DEF ClosingOrder, PillLast
        <4> QED BY <3>2, <4>1, EmptySeq
      <3>7. Fed => \A i \in 1 .. Len(parserQueue') :
                     parserQueue'[i] = Empty => i = Len(parserQueue')
        BY <3>2 DEF ClosingOrder, PillLast
      <3> QED BY <1>0, <3>1, <3>5, <3>6, <3>7 DEF PillLast
    <2>3. CASE ParserSettle
      BY <1>0, <2>3
         DEF ParserSettle, channelVars, StreamEnded, PillQueued, ClosingOrder, PillLast
    <2> QED BY <2>1, <2>2, <2>3 DEF ParserThread, ParserStep
  <1>4. OneHolder'
    BY <1>0, <1>3 DEF ClosingOrder, OneHolder
  <1> QED BY <1>2, <1>3, <1>4 DEF ClosingOrder

\* CloseParserQueue_ on the main thread, when every worker has returned.
LEMMA CloseByOrder ==
  ASSUME KernalInv, NEW from, NEW pushing, NEW after, CloseBy(from, pushing, after),
         from \in {"undoClose", "closeParser"}, pushing \in {"undoClosing", "closingParser"},
         after \notin {"spawn", "undoClosing", "closingParser"}, Fed' = Fed
  PROVE  ClosingOrder'
  <1> USE DEF KernalInv
  <1>0. /\ UNCHANGED <<activeWorkers, workerPc, parserPc>>
        /\ mainPc \in {from, pushing} /\ mainPc' \in {pushing, after}
    BY DEF CloseBy, Main, parserVars, workerVars
  <1>1. Counted = {} /\ Counted' = {}
    <2>1. \A v \in Workers : workerPc[v] \in {"none", "done"}
      BY <1>0 DEF BootPhases, WorkersFinished, Spawned
    <2> QED BY <1>0, <2>1 DEF Counted
  <1>2. CountCovers' /\ ClosedWhenDone'
    BY <1>0, <1>1 DEF ClosingOrder, CountCovers, ClosedWhenDone
  <1>3. \A v \in Workers : ~HoldsPill(v) /\ ~HoldsPill(v)'
    BY <1>0 DEF BootPhases, WorkersFinished, Spawned, HoldsPill
  <1>4. OneHolder' /\ PillLast'
    <2>1. CASE Main(from, pushing) /\ WinClose /\ UNCHANGED parserQueue
      <3>1. ~StreamEnded' /\ downstreamClosed'
        BY <1>0, <2>1 DEF ClosingOrder, OneHolder, WinClose, StreamEnded, PillQueued
      <3> QED BY <1>0, <1>3, <2>1, <3>1 DEF ClosingOrder, OneHolder, PillLast
    <2>2. CASE Main(from, after) /\ LoseClose /\ UNCHANGED parserQueue
      <3>1. ~MainHoldsPill' /\ downstreamClosed'
        BY <2>2 DEF Main, LoseClose, MainHoldsPill
      <3> QED BY <1>0, <1>3, <2>2, <3>1 DEF ClosingOrder, OneHolder, PillLast
    <2>3. CASE Main(pushing, after) /\ PushToken(Empty) /\ UNCHANGED downstreamClosed
      <3>1. ~StreamEnded /\ downstreamClosed /\ ~MainHoldsPill'
        BY <2>3 DEF Main, MainHoldsPill, ClosingOrder, OneHolder
      <3>2. PillLast'
        <4>1. CASE Fed
          <5>1. ~PillQueued /\ parserPc \notin {"settle", "done"}
            BY <3>1, <4>1 DEF StreamEnded
          <5>2. parserQueue \in Seq(Tokens \cup {Empty})
            BY DEF TypeOK, ChannelsTypeOK
          <5>3. /\ Len(parserQueue') = Len(parserQueue) + 1
                /\ Len(parserQueue) \in Nat
                /\ \A i \in 1 .. Len(parserQueue) : parserQueue'[i] = parserQueue[i]
            BY <2>3, <5>2, PushSeq, LenProperties DEF PushToken
          <5> QED BY <1>0, <5>1, <5>3 DEF PillQueued, PillLast
        <4>2. CASE ~Fed
          BY <4>2 DEF PillLast
        <4> QED BY <4>1, <4>2
      <3> QED BY <1>3, <2>3, <3>1, <3>2 DEF OneHolder
    <2> QED BY <2>1, <2>2, <2>3 DEF CloseBy
  <1> QED BY <1>2, <1>4 DEF ClosingOrder

\* The start of the Lexer: the count before the first thread, then one by one.
LEMMA StartLexerOrder ==
  ASSUME KernalInv, StartLexer
  PROVE  ClosingOrder'
  <1> USE DEF KernalInv
  <1>0. UNCHANGED <<parserQueue, parserPc>> /\ Fed' = Fed
    <2>1. UNCHANGED <<parserQueue, parserPc>>
      BY DEF StartLexer, channelVars, parserVars
    <2>2. UNCHANGED state \/ Become("Lexer", "STARTED")
      BY DEF StartLexer
    <2>3. state'["Parser"] = state["Parser"]
      BY <2>2 DEF Become, TypeOK, KernalTypeOK, Subsystems
    <2> QED BY <2>1, <2>3 DEF Fed
  <1>1. CASE Main("startLexer", "spawn") /\ LexerPrepare
    <2>1. /\ activeWorkers' = Cardinality(Workers) /\ downstreamClosed' = FALSE
          /\ workerPc' = workerPc
          /\ \A w \in Workers : workerPc[w] = "none"
          /\ parserQueue = <<>> /\ parserPc = "none"
          /\ mainPc' = "spawn"
      BY <1>1 DEF Main, LexerPrepare, workerVars, BootPhases
    <2>2. Counted' = Workers /\ Cardinality(Workers) \in Nat
      BY <2>1, WorkerSets DEF Counted
    <2>3. ~StreamEnded'
      BY <1>0, <2>1 DEF StreamEnded, PillQueued
    <2>4. ~MainHoldsPill' /\ \A w \in Workers : ~HoldsPill(w)'
      BY <2>1 DEF MainHoldsPill, HoldsPill
    <2>5. CountCovers'
      BY <2>1, <2>2 DEF CountCovers
    <2>6. ClosedWhenDone'
      BY <2>1 DEF ClosedWhenDone
    <2>7. OneHolder'
      BY <2>3, <2>4 DEF OneHolder
    <2>8. PillLast'
      BY <1>0, <2>1 DEF PillLast
    <2> QED BY <2>5, <2>6, <2>7, <2>8 DEF ClosingOrder
  <1>2. ASSUME NEW w \in Workers, Main("spawn", "spawn"), SpawnWorker(w)
        PROVE  ClosingOrder'
    <2>1. /\ workerPc[w] = "none" /\ workerPc'[w] = "check"
          /\ \A v \in Workers \ {w} : workerPc'[v] = workerPc[v]
          /\ UNCHANGED <<activeWorkers, downstreamClosed>>
          /\ mainPc = "spawn" /\ mainPc' = "spawn"
      BY <1>2 DEF Main, SpawnWorker, TypeOK, LexerTypeOK
    <2>2. Counted' = Counted
      BY <2>1 DEF Counted
    <2>3. \A v \in Workers : /\ workerPc'[v] \in {"close", "closing"}
                               <=> workerPc[v] \in {"close", "closing"}
                             /\ HoldsPill(v)' = HoldsPill(v)
      BY <2>1 DEF HoldsPill
    <2>4. CountCovers' /\ ClosedWhenDone'
      BY <2>1, <2>2, <2>3 DEF ClosingOrder, CountCovers, ClosedWhenDone
    <2>5. OneHolder' /\ PillLast'
      BY <1>0, <2>1, <2>3
         DEF ClosingOrder, OneHolder, PillLast, MainHoldsPill, StreamEnded, PillQueued
    <2> QED BY <2>4, <2>5 DEF ClosingOrder
  <1>3. CASE Main("spawn", "startParser") /\ SpawnCoordinator
    <2>1. UNCHANGED closingVars /\ mainPc' = "startParser"
      BY <1>0, <1>3 DEF closingVars, SpawnCoordinator, workerVars, Main
    <2> QED BY <1>0, <2>1, ClosingFrame DEF MainHoldsPill
  <1>4. CASE mainPc = "spawn" /\ mainPc' = "recount" /\ LexerStopRunning
    <2>1. UNCHANGED closingVars
      BY <1>0, <1>4 DEF closingVars, LexerStopRunning, workerVars
    <2> QED BY <1>0, <1>4, <2>1, ClosingFrame DEF MainHoldsPill
  <1> QED BY <1>1, <1>2, <1>3, <1>4 DEF StartLexer

\* The recount covers the workers that exist.
LEMMA RecountOrder ==
  ASSUME KernalInv, UndoRecount
  PROVE  ClosingOrder'
  <1> USE DEF KernalInv
  <1>1. /\ mainPc = "recount" /\ mainPc' = "undoPills"
        /\ activeWorkers' = Cardinality(Spawned)
        /\ UNCHANGED <<workerPc, downstreamClosed, parserQueue, parserPc, state>>
    BY DEF UndoRecount, Main, LexerRecount, workerVars, channelVars, parserVars
  <1>2. Counted' = Counted /\ Counted \in SUBSET Spawned /\ Spawned \in SUBSET Workers
    BY <1>1 DEF Counted, Spawned
  <1>3. CountCovers'
    BY <1>1, <1>2, WorkerSets DEF CountCovers
  <1>4. ClosedWhenDone'
    BY <1>1, <1>2 DEF ClosingOrder, ClosedWhenDone
  <1>5. OneHolder' /\ PillLast'
    BY <1>1 DEF ClosingOrder, OneHolder, PillLast, HoldsPill, MainHoldsPill, StreamEnded,
                PillQueued, Fed
  <1> QED BY <1>3, <1>4, <1>5 DEF ClosingOrder

\* The steps of the main thread that stop the Parser: from then on the order of its
\* queue no longer matters.
LEMMA StopParserOrder ==
  ASSUME KernalInv, StopParser
  PROVE  ClosingOrder'
  <1> USE DEF KernalInv
  <1>0. /\ UNCHANGED <<workerPc, activeWorkers, downstreamClosed, parserPc>>
        /\ mainPc' # "spawn" /\ ~MainHoldsPill'
    BY DEF StopParser, SkipStop, BeginStop, Main, lexerVars, parserVars, ParserStopRunning,
           MainHoldsPill
  <1>1. CASE SkipStop("Parser", "stopParser", "stopLexer") /\ UNCHANGED parserQueue
    BY <1>0, <1>1, ClosingFrame DEF SkipStop, closingVars, Fed
  <1>2. CASE ~Fed'
    <2>1. Counted \in SUBSET Workers /\ Counted' \in SUBSET Counted
      BY <1>0 DEF Counted
    <2>2. /\ Cardinality(Counted') <= Cardinality(Counted)
          /\ Cardinality(Counted') \in Int /\ Cardinality(Counted) \in Int
          /\ activeWorkers \in Int
      BY <2>1, WorkerSets DEF TypeOK, LexerTypeOK
    <2>3. CountCovers' /\ ClosedWhenDone'
      BY <1>0, <2>1, <2>2 DEF ClosingOrder, CountCovers, ClosedWhenDone
    <2>4. OneHolder' /\ PillLast'
      BY <1>0, <1>2 DEF ClosingOrder, OneHolder, PillLast, HoldsPill, StreamEnded
    <2> QED BY <2>3, <2>4 DEF ClosingOrder
  <1>3. \/ SkipStop("Parser", "stopParser", "stopLexer") /\ UNCHANGED parserQueue
        \/ ~Fed'
    <2>1. "Parser" \in Subsystems /\ state \in [Subsystems -> States]
      BY DEF Subsystems, TypeOK, KernalTypeOK
    <2> QED BY <2>1 DEF StopParser, BeginStop, Become, Main, BootPhases, Fed
  <1> QED BY <1>1, <1>2, <1>3

\* Every other step of the main thread, and the signal.
LEMMA MainClosingOrder ==
  ASSUME KernalInv, MainStep \/ Signal \/ ScanThrows
  PROVE  ClosingOrder'
  <1> USE DEF KernalInv
  <1>s. "Parser" \in Subsystems /\ state \in [Subsystems -> States]
    BY DEF Subsystems, TypeOK, KernalTypeOK
  <1>1. ASSUME UNCHANGED closingVars, mainPc' # "spawn", ~MainHoldsPill' \/ mainPc' = mainPc,
               state'["Parser"] = state["Parser"] \/ Fed
        PROVE  ClosingOrder'
    BY <1>1, ClosingFrame DEF MainHoldsPill, Fed
  <1> USE DEF closingVars, channelVars, lexerVars, parserVars, OthersUnchanged, Main,
              MainHoldsPill, Become
  <1>2. CASE InitAll \/ StartStore
    BY <1>1, <1>2, <1>s DEF InitAll, StartStore, BootPhases, Starting
  <1>3. CASE StartReader
    BY <1>1, <1>3, <1>s DEF StartReader
  <1>4. CASE StartLexer
    BY <1>4, StartLexerOrder
  <1>5. CASE UndoRecount
    BY <1>5, RecountOrder
  <1>6. CASE UndoPill \/ UndoJoin
    BY <1>1, <1>6 DEF UndoPill, UndoJoin
  <1>7. CASE UndoClose
    <2>1. CloseBy("undoClose", "undoClosing", "stopEngine") /\ Fed' = Fed
      BY <1>7 DEF UndoClose, Fed
    <2> QED BY <2>1, CloseByOrder
  <1>8. CASE StartParser
    \* parserPc leaves "none", with the stream as it was.
    <2>1. /\ UNCHANGED <<workerPc, activeWorkers, downstreamClosed, parserQueue>>
          /\ mainPc = "startParser" /\ mainPc' \notin {"spawn", "undoClosing", "closingParser"}
          /\ parserPc = "none" /\ parserPc' \in {"none", "check"}
          /\ Fed
      BY <1>8 DEF StartParser, StartFails, ParserOnStart, BootPhases, Starting
    <2>2. Counted' = Counted
      BY <2>1 DEF Counted
    <2>3. CountCovers' /\ ClosedWhenDone'
      BY <2>1, <2>2 DEF ClosingOrder, CountCovers, ClosedWhenDone
    <2>4. StreamEnded' => StreamEnded
      BY <2>1 DEF StreamEnded, PillQueued
    <2>5. OneHolder' /\ PillLast'
      BY <2>1, <2>4 DEF ClosingOrder, OneHolder, PillLast, HoldsPill
    <2> QED BY <2>3, <2>5 DEF ClosingOrder
  <1>9. CASE AwaitIndexing \/ Serve
    BY <1>1, <1>9 DEF AwaitIndexing, StartFails, Serve
  <1>10. CASE StartEngine
    BY <1>1, <1>10, <1>s DEF StartEngine
  <1>11. CASE StopEngine
    BY <1>1, <1>11, <1>s DEF StopEngine, SkipStop, BeginStop
  <1>12. CASE StopParser
    BY <1>12, StopParserOrder
  <1>13. CASE StopLexer
    BY <1>1, <1>13, <1>s
       DEF StopLexer, SkipStop, BeginStop, LexerStopRunning, coordVars, workerVars
  <1>14. CASE StopLexerClose
    <2>1. CloseBy("closeParser", "closingParser", "stopReader") /\ Fed' = Fed
      BY <1>14, <1>s DEF StopLexerClose, Fed
    <2> QED BY <2>1, CloseByOrder
  <1>15. CASE StopReader
    BY <1>1, <1>15, <1>s DEF StopReader, SkipStop, BeginStop
  <1>16. CASE StopStore
    BY <1>1, <1>16, <1>s DEF StopStore
  <1>17. CASE Signal
    <2>1. UNCHANGED closingVars /\ UNCHANGED <<state, mainPc>>
      BY <1>17 DEF Signal
    <2> QED BY <2>1, ClosingFrame DEF Fed
  <1>18. CASE ScanThrows
    BY <1>1, <1>18 DEF ScanThrows
  <1> QED
    BY <1>2, <1>3, <1>4, <1>5, <1>6, <1>7, <1>8, <1>9, <1>10, <1>11, <1>12, <1>13,
       <1>14, <1>15, <1>16, <1>17, <1>18 DEF MainStep

-----------------------------------------------------------------------------
(* The phases of the main thread. *)

\* A step of a thread leaves main where it is.
LEMMA ThreadPhases ==
  ASSUME KernalInv, Reader \/ Coordinator \/ ParserThread \/ EngineThread \/ Query
  PROVE  BootPhases'
  <1> USE DEF KernalInv
  <1>1. CASE Reader
    <2>1. UNCHANGED <<lexerVars, parserVars, kernalVars, parserQueue>>
      BY <1>1 DEF Reader, ReaderStep, ReaderScan, ReaderPush, ReaderClose, channelVars
    <2> QED BY <2>1 DEF BootPhases, lexerVars, parserVars, kernalVars, WorkersFinished,
                        Spawned, Fed
  <1>2. CASE Coordinator
    <2>1. UNCHANGED <<workerPc, parserVars, kernalVars, parserQueue>>
      BY <1>2 DEF Coordinator, CoordStep, CoordCheck, CoordPop, CoordRead, CoordPush,
                  CoordPill, channelVars, workerVars
    <2> QED BY <2>1 DEF BootPhases, parserVars, kernalVars, WorkersFinished, Spawned, Fed
  <1>3. CASE ParserThread
    <2>1. UNCHANGED <<workerPc, parserRunning, kernalVars>> /\ parserPc # "none"
      BY <1>3 DEF ParserThread, ParserStep, ParserCheck, ParserPop, ParserSettle, lexerVars
    <2> QED BY <2>1 DEF BootPhases, kernalVars, WorkersFinished, Spawned, Fed
  <1>4. CASE EngineThread \/ Query
    <2>1. UNCHANGED <<workerPc, parserVars, kernalVars, parserQueue>>
      BY <1>4 DEF EngineThread, Query, lexerVars, channelVars
    <2> QED BY <2>1 DEF BootPhases, parserVars, kernalVars, WorkersFinished, Spawned, Fed
  <1> QED BY <1>1, <1>2, <1>3, <1>4

\* A worker that takes a step exists and has not returned.
LEMMA WorkerPhases ==
  ASSUME KernalInv, NEW w \in Workers, Worker(w)
  PROVE  BootPhases'
  <1> USE DEF KernalInv
  <1>1. workerPc[w] \notin {"none", "done"} /\ UNCHANGED <<parserVars, kernalVars>>
    BY DEF Worker, WorkerStep, WorkerCheck, WorkerPop, WorkerEmit, WorkerLeave, WorkerClose,
           WorkerClosing
  <1>2. /\ mainPc \notin {"init", "startStore", "startReader", "startLexer"}
        /\ mainPc \notin {"undoClose", "undoClosing", "closeParser", "closingParser"}
    BY <1>1 DEF BootPhases, WorkersFinished, Spawned
  <1> QED BY <1>1, <1>2 DEF BootPhases, parserVars, kernalVars, Fed

\* A step of the main thread, or a signal.
LEMMA MainPhases ==
  ASSUME KernalInv, MainStep \/ Signal \/ ScanThrows
  PROVE  BootPhases'
  <1> USE DEF KernalInv
  <1>s. "Parser" \in Subsystems /\ state \in [Subsystems -> States]
    BY DEF Subsystems, TypeOK, KernalTypeOK
  <1> USE <1>s DEF BootPhases, Fed, Main, Become, Starting, channelVars, lexerVars,
                   parserVars, OthersUnchanged, WorkersFinished, Spawned
  <1>1. CASE InitAll
    BY <1>1 DEF InitAll
  <1>2. CASE StartStore
    BY <1>2 DEF StartStore
  <1>3. CASE StartReader
    BY <1>3 DEF StartReader
  <1>4. CASE StartLexer
    <2>1. /\ UNCHANGED <<parserQueue, parserPc, parserRunning>>
          /\ mainPc \in {"startLexer", "spawn"} /\ mainPc' \in {"spawn", "startParser", "recount"}
          /\ state'["Parser"] = state["Parser"]
          /\ mainPc' = "startParser" => mainPc = "spawn"
      BY <1>4 DEF StartLexer
    <2> QED BY <2>1
  <1>5. CASE UndoRecount \/ UndoPill
    BY <1>5 DEF UndoRecount, UndoPill, LexerRecount, workerVars
  <1>6. CASE UndoJoin
    BY <1>6 DEF UndoJoin
  <1>7. CASE UndoClose
    BY <1>7 DEF UndoClose, CloseBy, workerVars
  <1>8. CASE StartParser
    BY <1>8 DEF StartParser, StartFails, ParserOnStart
  <1>9. CASE AwaitIndexing \/ Serve
    BY <1>9 DEF AwaitIndexing, StartFails, Serve
  <1>10. CASE StartEngine
    BY <1>10 DEF StartEngine
  <1>11. CASE StopEngine
    BY <1>11 DEF StopEngine, SkipStop, BeginStop
  <1>12. CASE StopParser
    <2>1. CASE SkipStop("Parser", "stopParser", "stopLexer") /\ UNCHANGED <<parserVars, parserQueue>>
      BY <2>1 DEF SkipStop
    <2>2. CASE BeginStop("Parser", "stopParser", "unblockParser") /\ ParserStopRunning
      BY <2>2 DEF BeginStop, ParserStopRunning
    <2>3. CASE Main("unblockParser", "joinParser") /\ UNCHANGED <<state, parserVars>>
      BY <2>3
    <2>4. CASE Main("joinParser", "stopLexer") /\ Become("Parser", "STOPPED")
      BY <2>4
    <2> QED BY <1>12, <2>1, <2>2, <2>3, <2>4 DEF StopParser
  <1>13. CASE StopLexer
    BY <1>13 DEF StopLexer, SkipStop, BeginStop, LexerStopRunning, workerVars
  <1>14. CASE StopLexerClose
    BY <1>14 DEF StopLexerClose, CloseBy, workerVars
  <1>15. CASE StopReader
    BY <1>15 DEF StopReader, SkipStop, BeginStop
  <1>16. CASE StopStore
    BY <1>16 DEF StopStore
  <1>17. CASE Signal \/ ScanThrows
    BY <1>17 DEF Signal, ScanThrows
  <1> QED
    BY <1>1, <1>2, <1>3, <1>4, <1>5, <1>6, <1>7, <1>8, <1>9, <1>10, <1>11, <1>12, <1>13,
       <1>14, <1>15, <1>16, <1>17 DEF MainStep

-----------------------------------------------------------------------------
(* The lifecycle: who stops whom, and when a thread is gone. *)

\* A worker's step moves that worker only.
LEMMA WorkerMovesAlone ==
  ASSUME TypeOK, NEW w \in Workers, Worker(w)
  PROVE  \A v \in Workers \ {w} : workerPc'[v] = workerPc[v]
  BY DEF Worker, WorkerStep, WorkerCheck, WorkerPop, WorkerEmit, WorkerLeave, WorkerClose,
         WorkerClosing, WorkerGoto, TypeOK, LexerTypeOK

\* A thread that has returned, or that nobody has created, does not move; a thread's
\* step leaves main and the states of the subsystems where they are.
LEMMA ThreadsOnly ==
  ASSUME TypeOK, \/ Reader \/ Coordinator \/ ParserThread \/ EngineThread \/ Query
                 \/ \E w \in Workers : Worker(w)
  PROVE  /\ UNCHANGED <<state, mainPc>>
         /\ readerPc \in {"none", "done"} => readerPc' = readerPc
         /\ coordPc \in {"none", "done"} => coordPc' = coordPc
         /\ parserPc \in {"none", "done"} => parserPc' = parserPc
         /\ enginePc \in {"none", "done"} => enginePc' = enginePc
         /\ \A w \in Workers : workerPc[w] \in {"none", "done"} => workerPc'[w] = workerPc[w]
  <1> USE DEF kernalVars, readerVars, lexerVars, parserVars, engineVars, workerVars, coordVars
  <1>1. CASE Reader
    BY <1>1 DEF Reader, ReaderStep, ReaderScan, ReaderPush, ReaderClose
  <1>2. CASE Coordinator
    BY <1>2 DEF Coordinator, CoordStep, CoordCheck, CoordPop, CoordRead, CoordPush, CoordPill
  <1>3. CASE ParserThread
    BY <1>3 DEF ParserThread, ParserStep, ParserCheck, ParserPop, ParserSettle
  <1>4. CASE EngineThread \/ Query
    BY <1>4 DEF EngineThread, Query, EngineCheck, EnginePrompt
  <1>5. ASSUME NEW w \in Workers, Worker(w)
        PROVE  /\ UNCHANGED <<kernalVars, readerVars, parserVars, engineVars, coordVars>>
               /\ \A v \in Workers : workerPc[v] \in {"none", "done"} => workerPc'[v] = workerPc[v]
    <2>1. workerPc[w] \notin {"none", "done"}
      BY <1>5 DEF Worker, WorkerStep, WorkerCheck, WorkerPop, WorkerEmit, WorkerLeave,
                  WorkerClose, WorkerClosing
    <2>2. \A v \in Workers \ {w} : workerPc'[v] = workerPc[v]
      BY <1>5, WorkerMovesAlone
    <2> QED BY <1>5, <2>1, <2>2 DEF Worker, WorkerStep
  <1> QED BY <1>1, <1>2, <1>3, <1>4, <1>5

\* So a step of a thread keeps the order of the stops.
LEMMA ThreadLifecycle ==
  ASSUME KernalInv, \/ Reader \/ Coordinator \/ ParserThread \/ EngineThread \/ Query
                    \/ \E w \in Workers : Worker(w)
  PROVE  Lifecycle'
  <1>1. /\ UNCHANGED <<state, mainPc>>
        /\ readerPc \in {"none", "done"} => readerPc' = readerPc
        /\ coordPc \in {"none", "done"} => coordPc' = coordPc
        /\ parserPc \in {"none", "done"} => parserPc' = parserPc
        /\ enginePc \in {"none", "done"} => enginePc' = enginePc
        /\ \A w \in Workers : workerPc[w] \in {"none", "done"} => workerPc'[w] = workerPc[w]
    BY ThreadsOnly DEF KernalInv
  <1>2. StopOrder'
    BY <1>1 DEF KernalInv, Lifecycle, StopOrder
  <1>3. WorkersFinished => WorkersFinished'
    BY <1>1 DEF WorkersFinished, Spawned
  <1>4. ThreadsFollowState'
    BY <1>1, <1>3 DEF KernalInv, Lifecycle, ThreadsFollowState, NotStarted
  <1> QED BY <1>2, <1>4 DEF Lifecycle

\* The table of the stops, row by row.
LEMMA StopTable ==
  /\ OnStopOf["Store"] = {}
  /\ OnStopOf["DirReader"] = {"joinReader"}
  /\ OnStopOf["Lexer"] = {"unblockLexer", "joinCoordinator", "joinWorkers",
                          "closeParser", "closingParser"}
  /\ OnStopOf["Parser"] = {"unblockParser", "joinParser"}
  /\ OnStopOf["Engine"] = {"joinEngine"}
  BY DEF OnStopOf

\* A step of the main thread keeps the order of the stops.
LEMMA MainStopOrder ==
  ASSUME KernalInv, MainStep \/ Signal \/ ScanThrows
  PROVE  StopOrder'
  <1>s. state \in [Subsystems -> States] /\ Lifecycle
    BY DEF KernalInv, TypeOK, KernalTypeOK
  <1> USE <1>s, StopTable DEF Lifecycle, StopOrder, AfterStore, AfterReader, AfterLexer, AfterParser,
              AfterEngine, Main, Become, Subsystems
  <1>1. CASE InitAll
    BY <1>1 DEF InitAll, ThreadsFollowState
  <1>2. CASE StartStore
    BY <1>2 DEF StartStore
  <1>3. CASE StartReader
    BY <1>3 DEF StartReader
  <1>4. CASE StartLexer
    BY <1>4 DEF StartLexer
  <1>5. CASE UndoRecount \/ UndoPill \/ UndoJoin
    BY <1>5 DEF UndoRecount, UndoPill, UndoJoin
  <1>6. CASE UndoClose
    BY <1>6 DEF UndoClose, CloseBy
  <1>7. CASE StartParser
    BY <1>7 DEF StartParser, StartFails
  <1>8. CASE AwaitIndexing \/ Serve
    BY <1>8 DEF AwaitIndexing, StartFails, Serve
  <1>9. CASE StartEngine
    BY <1>9 DEF StartEngine
  <1>10. CASE StopEngine
    BY <1>10 DEF StopEngine, SkipStop, BeginStop
  <1>11. CASE StopParser
    BY <1>11 DEF StopParser, SkipStop, BeginStop
  <1>12. CASE StopLexer
    BY <1>12 DEF StopLexer, SkipStop, BeginStop
  <1>13. CASE StopLexerClose
    BY <1>13 DEF StopLexerClose, CloseBy
  <1>14. CASE StopReader
    BY <1>14 DEF StopReader, SkipStop, BeginStop
  <1>15. CASE StopStore
    BY <1>15 DEF StopStore
  <1>16. CASE Signal \/ ScanThrows
    BY <1>16 DEF Signal, ScanThrows
  <1> QED
    BY <1>1, <1>2, <1>3, <1>4, <1>5, <1>6, <1>7, <1>8, <1>9, <1>10, <1>11, <1>12, <1>13,
       <1>14, <1>15, <1>16 DEF MainStep

\* And what the states of the subsystems say of their threads.
LEMMA MainThreadsFollow ==
  ASSUME KernalInv, MainStep \/ Signal \/ ScanThrows
  PROVE  ThreadsFollowState'
  <1>s. /\ state \in [Subsystems -> States] /\ Lifecycle /\ BootPhases
        /\ workerPc \in [Workers -> {"none", "check", "pop", "emit", "leave",
                                     "close", "closing", "done"}]
    BY DEF KernalInv, TypeOK, KernalTypeOK, LexerTypeOK
  <1> USE <1>s DEF Lifecycle, ThreadsFollowState, NotStarted, Main, Become, Subsystems
  <1>f. UNCHANGED workerPc => (WorkersFinished' <=> WorkersFinished)
    BY DEF WorkersFinished, Spawned
  <1>g. (\A w \in Workers : workerPc[w] = "none") => WorkersFinished
    BY DEF WorkersFinished, Spawned
  <1> USE <1>f DEF channelVars, readerVars, lexerVars, parserVars, engineVars, coordVars,
                   workerVars, OthersUnchanged, MainKeeps
  <1>1. CASE InitAll
    <2>1. WorkersFinished'
      BY <1>1, <1>g DEF InitAll, BootPhases
    <2> QED BY <1>1, <2>1 DEF InitAll
  <1>2. CASE StartStore
    BY <1>2 DEF StartStore
  <1>3. CASE StartReader
    BY <1>3 DEF StartReader, ReaderOnStart
  <1>4. CASE StartLexer
    <2>1. CASE Main("startLexer", "spawn") /\ LexerPrepare /\ UNCHANGED state
      BY <1>4, <2>1 DEF StartLexer, LexerPrepare
    <2>2. ASSUME NEW w \in Workers, Main("spawn", "spawn"), SpawnWorker(w), UNCHANGED state
          PROVE  ThreadsFollowState'
      BY <1>4, <2>2 DEF StartLexer, SpawnWorker
    <2>3. CASE Main("spawn", "startParser") /\ SpawnCoordinator /\ Become("Lexer", "STARTED")
      BY <1>4, <2>3 DEF StartLexer, SpawnCoordinator
    <2>4. CASE mainPc = "spawn" /\ mainPc' = "recount" /\ LexerStopRunning /\ UNCHANGED state
      BY <1>4, <2>4 DEF StartLexer, LexerStopRunning
    <2> QED BY <1>4, <2>1, <2>2, <2>3, <2>4 DEF StartLexer
  <1>5. CASE UndoRecount \/ UndoPill \/ UndoJoin
    BY <1>5 DEF UndoRecount, UndoPill, UndoJoin, LexerRecount
  <1>6. CASE UndoClose
    BY <1>6 DEF UndoClose, CloseBy
  <1>7. CASE StartParser
    BY <1>7 DEF StartParser, StartFails, ParserOnStart
  <1>8. CASE AwaitIndexing \/ Serve
    BY <1>8 DEF AwaitIndexing, StartFails, Serve
  <1>9. CASE StartEngine
    BY <1>9 DEF StartEngine, EngineOnStart
  <1>10. CASE StopEngine
    BY <1>10 DEF StopEngine, SkipStop, BeginStop, EngineOnStop, EngineFinished
  <1>11. CASE StopParser
    BY <1>11 DEF StopParser, SkipStop, BeginStop, ParserStopRunning, ParserFinished
  <1>12. CASE StopLexer
    BY <1>12 DEF StopLexer, SkipStop, BeginStop, LexerStopRunning, CoordinatorFinished
  <1>13. CASE StopLexerClose
    BY <1>13 DEF StopLexerClose, CloseBy, BootPhases
  <1>14. CASE StopReader
    BY <1>14 DEF StopReader, SkipStop, BeginStop, ReaderOnStop, ReaderFinished
  <1>15. CASE StopStore
    BY <1>15 DEF StopStore
  <1>16. CASE Signal \/ ScanThrows
    BY <1>16 DEF Signal, ScanThrows
  <1> QED
    BY <1>1, <1>2, <1>3, <1>4, <1>5, <1>6, <1>7, <1>8, <1>9, <1>10, <1>11, <1>12, <1>13,
       <1>14, <1>15, <1>16 DEF MainStep

\* It holds before the first step.
LEMMA InitLifecycle == Init => Lifecycle
  BY StopTable DEF Init, ReaderInit, LexerInit, ParserInit, EngineInit, Lifecycle, StopOrder,
         ThreadsFollowState, NotStarted, Subsystems, WorkersFinished, Spawned, AfterStore,
         AfterReader, AfterLexer, AfterParser, AfterEngine

-----------------------------------------------------------------------------
(* One pill per worker. *)

PillsIn(q) == {i \in 1 .. Len(q) : q[i] = LinePill}

\* The pills of a queue can be counted; one more at the end of it counts one more, and
\* any other element none.
LEMMA PillsPushed ==
  ASSUME NEW S, NEW q \in Seq(S), NEW e \in S
  PROVE  /\ IsFiniteSet(PillsIn(q)) /\ Cardinality(PillsIn(q)) \in Nat
         /\ Cardinality(PillsIn(Append(q, e))) =
              Cardinality(PillsIn(q)) + (IF e = LinePill THEN 1 ELSE 0)
  <1>1. Len(q) \in Nat
    BY LenProperties
  <1>2. IsFiniteSet(PillsIn(q)) /\ Cardinality(PillsIn(q)) \in Nat
    <2>1. IsFiniteSet(1 .. Len(q)) /\ PillsIn(q) \subseteq 1 .. Len(q)
      BY <1>1, FS_Interval DEF PillsIn
    <2> QED BY <2>1, FS_Subset, FS_CardinalityType
  <1>3. /\ Len(Append(q, e)) = Len(q) + 1
        /\ \A i \in 1 .. Len(q) : Append(q, e)[i] = q[i]
        /\ Append(q, e)[Len(q) + 1] = e
    BY PushSeq
  <1>4. CASE e = LinePill
    <2>1. PillsIn(Append(q, e)) = PillsIn(q) \cup {Len(q) + 1} /\ Len(q) + 1 \notin PillsIn(q)
      BY <1>1, <1>3, <1>4 DEF PillsIn
    <2> QED BY <1>2, <1>4, <2>1, FS_AddElement
  <1>5. CASE e # LinePill
    <2>1. PillsIn(Append(q, e)) = PillsIn(q)
      BY <1>1, <1>3, <1>5 DEF PillsIn
    <2> QED BY <1>2, <1>5, <2>1
  <1> QED BY <1>2, <1>4, <1>5

\* A pop that takes a pill counts one less, any other pop counts the same.
LEMMA PillsPopped ==
  ASSUME NEW S, NEW q \in Seq(S), q # <<>>
  PROVE  Cardinality(PillsIn(Tail(q))) =
           Cardinality(PillsIn(q)) - (IF Head(q) = LinePill THEN 1 ELSE 0)
  <1>1. /\ Head(q) = q[1] /\ Len(q) \in Nat \ {0} /\ Len(Tail(q)) = Len(q) - 1
        /\ \A i \in 1 .. Len(Tail(q)) : Tail(q)[i] = q[i + 1]
    BY PopSeq
  <1>2. /\ IsFiniteSet(PillsIn(q)) /\ Cardinality(PillsIn(q)) \in Nat
        /\ IsFiniteSet(PillsIn(Tail(q)))
    <2>1. /\ IsFiniteSet(1 .. Len(q)) /\ PillsIn(q) \subseteq 1 .. Len(q)
          /\ IsFiniteSet(1 .. Len(Tail(q))) /\ PillsIn(Tail(q)) \subseteq 1 .. Len(Tail(q))
      BY <1>1, FS_Interval DEF PillsIn
    <2> QED BY <2>1, FS_Subset, FS_CardinalityType
  <1> DEFINE Behind == PillsIn(q) \ {1}
             shift  == [i \in PillsIn(Tail(q)) |-> i + 1]
  <1>3. shift \in Bijection(PillsIn(Tail(q)), Behind)
    <2>1. \A i \in PillsIn(Tail(q)) : i + 1 \in Behind
      BY <1>1 DEF PillsIn
    <2>2. \A j \in Behind : j - 1 \in PillsIn(Tail(q)) /\ shift[j - 1] = j
      BY <1>1 DEF PillsIn
    <2>3. \A i, j \in PillsIn(Tail(q)) : shift[i] = shift[j] => i = j
      BY <1>1 DEF PillsIn
    <2> QED BY <2>1, <2>2, <2>3, Fun_IsBij
  <1>4. Cardinality(PillsIn(Tail(q))) = Cardinality(Behind)
    BY <1>2, <1>3, FS_Bijection DEF ExistsBijection
  <1>5. CASE Head(q) = LinePill
    <2>1. 1 \in PillsIn(q)
      BY <1>1, <1>5 DEF PillsIn
    <2> QED BY <1>2, <1>4, <1>5, <2>1, FS_RemoveElement
  <1>6. CASE Head(q) # LinePill
    <2>1. Behind = PillsIn(q)
      BY <1>1, <1>6 DEF PillsIn
    <2>2. Cardinality(PillsIn(Tail(q))) = Cardinality(PillsIn(q))
      BY <1>4, <2>1, Zenon
    <2> QED BY <1>2, <1>6, <2>2
  <1> QED BY <1>5, <1>6

pillVars == <<lineQueue, lexerRunning, coordPc, pillsDue, workerPc>>

\* PillsQueued counts the pills of the queue, and is a number.
LEMMA PillsQueuedCounts ==
  ASSUME TypeOK
  PROVE  PillsQueued = Cardinality(PillsIn(lineQueue)) /\ PillsQueued \in Nat
  <1>1. lineQueue \in Seq(Line \cup {LinePill})
    BY DEF TypeOK, ChannelsTypeOK
  <1>2. LinePill \in Line \cup {LinePill}
    OBVIOUS
  <1>3. Cardinality(PillsIn(lineQueue)) \in Nat
    BY <1>1, <1>2, PillsPushed
  <1> QED BY <1>3 DEF PillsQueued, PillsIn

\* A step that touches none of this, or stops the Lexer.
LEMMA PillFrame ==
  ASSUME KernalInv, \/ UNCHANGED pillVars
                    \/ ~lexerRunning'
  PROVE  OnePillPerWorker'
  <1>1. CASE ~lexerRunning'
    BY <1>1 DEF OnePillPerWorker
  <1>2. CASE UNCHANGED pillVars
    <2>1. PillsQueued' = PillsQueued
      BY <1>2 DEF PillsQueued, pillVars
    <2>2. Emitting' = Emitting
      BY <1>2 DEF Emitting, MayEmit, pillVars
    <2> QED BY <1>2, <2>1, <2>2 DEF pillVars, KernalInv, OnePillPerWorker
  <1> QED BY <1>1, <1>2

\* A step of the coordinator.  Before its pills every worker is there and the queue holds
\* none; each pill it pushes was due.
LEMMA CoordPills ==
  ASSUME KernalInv, Coordinator
  PROVE  NoPillYet' /\ OnePillPerWorker'
  <1>t. /\ TypeOK /\ Lifecycle /\ NoPillYet /\ OnePillPerWorker
        /\ UNCHANGED <<mainPc, lexerRunning, workerPc>> /\ coordPc # "none"
    BY DEF KernalInv, Coordinator, CoordStep, CoordCheck, CoordPop, CoordRead, CoordPush,
           CoordPill, kernalVars, workerVars
  <1>q. lineQueue \in Seq(Line \cup {LinePill}) /\ LinePill \in Line \cup {LinePill}
    BY <1>t DEF TypeOK, ChannelsTypeOK
  <1>m. mainPc \notin {"init", "startStore", "startReader", "startLexer"}
    BY <1>t DEF Lifecycle, ThreadsFollowState, NotStarted, Subsystems
  <1>w. Emitting' = Emitting /\ \A w \in Workers : MayEmit(w)' <=> MayEmit(w)
    BY <1>t DEF Emitting, MayEmit
  <1>1. CASE ~lexerRunning
    <2>1. NoPillYet'
      BY <1>1, <1>t, <1>m DEF NoPillYet
    <2> QED BY <1>1, <1>t, <2>1, PillFrame
  <1>2. ASSUME lexerRunning, UNCHANGED <<lineQueue, pillsDue>>,
               coordPc' = coordPc \/ (coordPc' \notin {"none", "pills", "done"} /\
                                      coordPc \notin {"none", "pills", "done"})
        PROVE  NoPillYet' /\ OnePillPerWorker'
    <2>1. NoPillYet'
      BY <1>2, <1>t, <1>m, <1>w DEF NoPillYet
    <2>2. CASE coordPc' = coordPc
      BY <1>2, <1>t, <2>1, <2>2, PillFrame DEF pillVars
    <2>3. CASE coordPc' \notin {"none", "pills", "done"}
      BY <2>1, <2>3 DEF OnePillPerWorker
    <2> QED BY <1>2, <2>1, <2>2, <2>3
  <1>3. CASE lexerRunning /\ CoordCheck
    BY <1>2, <1>3 DEF CoordCheck, channelVars
  <1>4. CASE lexerRunning /\ CoordPop
    <2>1. CASE coordPc' # "pills"
      BY <1>2, <1>4, <2>1 DEF CoordPop
    <2>2. CASE coordPc' = "pills"
      <3>1. pillsDue' = Cardinality(Workers) /\ lineQueue' = lineQueue /\ coordPc = "pop"
        BY <1>4, <2>2 DEF CoordPop
      <3>2. /\ \A i \in 1 .. Len(lineQueue) : lineQueue[i] # LinePill
            /\ \A w \in Workers : MayEmit(w)
        BY <1>4, <1>t, <3>1 DEF NoPillYet
      <3>3. Emitting' = Workers
        BY <1>w, <3>2 DEF Emitting
      <3>4. PillsQueued' = 0
        BY <3>1, <3>2, FS_EmptySet DEF PillsQueued
      <3>5. Cardinality(Workers) \in Nat
        BY WorkersAssumption, FS_CardinalityType
      <3>6. NoPillYet'
        BY <1>t, <1>m, <2>2 DEF NoPillYet
      <3>7. /\ PillsQueued' + pillsDue' = Cardinality(Emitting')
            /\ \A i \in 1 .. Len(lineQueue') : lineQueue'[i] # LinePill
        BY <3>1, <3>2, <3>3, <3>4, <3>5
      <3> QED BY <3>6, <3>7 DEF OnePillPerWorker
    <2> QED BY <2>1, <2>2
  <1>5. CASE lexerRunning /\ CoordRead
    BY <1>2, <1>5 DEF CoordRead, channelVars
  <1>6. CASE lexerRunning /\ CoordPush
    <2> DEFINE ilp == [filepath |-> file, line |-> Head(unread)]
    <2>1. /\ lineQueue' = Append(lineQueue, ilp) /\ coordPc = "push" /\ coordPc' = "read"
      BY <1>6 DEF CoordPush, PushLine
    <2>2. file \in Entries /\ Head(unread) \in Seq(Words)
      BY <1>t, <2>1, PopSeq DEF TypeOK, LexerTypeOK
    <2>3. ilp \in Line /\ ilp # LinePill
      BY <2>2, CorpusAssumption DEF Line, LinePill
    <2> HIDE DEF ilp
    <2>4. /\ Len(lineQueue') = Len(lineQueue) + 1 /\ Len(lineQueue) \in Nat
          /\ \A i \in 1 .. Len(lineQueue) : lineQueue'[i] = lineQueue[i]
          /\ lineQueue'[Len(lineQueue) + 1] = ilp
      BY <1>q, <2>1, <2>3, PushSeq, LenProperties
    <2>5. \A i \in 1 .. Len(lineQueue') : lineQueue'[i] # LinePill
      BY <1>6, <1>t, <2>1, <2>3, <2>4 DEF NoPillYet
    <2> QED BY <1>6, <1>t, <1>m, <1>w, <2>1, <2>5 DEF NoPillYet, OnePillPerWorker
  <1>7. CASE lexerRunning /\ CoordPill
    <2>1. CASE pillsDue = 0
      <3>1. coordPc = "pills" /\ coordPc' = "done" /\ UNCHANGED <<pillsDue, lineQueue>>
        BY <1>7, <2>1 DEF CoordPill
      <3>2. PillsQueued' = PillsQueued
        BY <3>1 DEF PillsQueued
      <3> QED BY <1>t, <1>m, <1>w, <3>1, <3>2 DEF NoPillYet, OnePillPerWorker
    <2>2. CASE pillsDue # 0
      <3>1. /\ coordPc = "pills" /\ coordPc' = "pills" /\ pillsDue' = pillsDue - 1
            /\ lineQueue' = Append(lineQueue, LinePill)
        BY <1>7, <2>2 DEF CoordPill, PushLine
      <3>2. /\ Len(lineQueue') = Len(lineQueue) + 1 /\ Len(lineQueue) \in Nat
            /\ \A i \in 1 .. Len(lineQueue) : lineQueue'[i] = lineQueue[i]
            /\ lineQueue'[Len(lineQueue) + 1] = LinePill
        BY <1>q, <3>1, PushSeq, LenProperties
      <3>3. TypeOK'
        BY NextTypes, <1>t DEF Next
      <3>4. PillsQueued' = PillsQueued + 1
        BY <1>q, <1>t, <3>1, <3>3, PillsPushed, PillsQueuedCounts DEF PillsQueued, PillsIn
      <3>5. PillsQueued \in Nat /\ pillsDue \in Nat
        BY <1>t, PillsQueuedCounts DEF TypeOK, LexerTypeOK
      <3>6. PillsQueued' + pillsDue' = Cardinality(Emitting')
        BY <1>7, <1>t, <1>w, <3>1, <3>4, <3>5 DEF OnePillPerWorker
      <3>7. \A i, j \in 1 .. Len(lineQueue') :
              i < j /\ lineQueue'[i] = LinePill => lineQueue'[j] = LinePill
        BY <1>7, <1>t, <3>1, <3>2 DEF OnePillPerWorker
      <3> QED BY <1>t, <1>m, <3>1, <3>6, <3>7 DEF NoPillYet, OnePillPerWorker
    <2> QED BY <2>1, <2>2
  <1> QED BY <1>1, <1>3, <1>4, <1>5, <1>6, <1>7 DEF Coordinator, CoordStep

\* A step of a worker.  While the Lexer runs it leaves by taking a pill, which counts one
\* pill and one worker less.
LEMMA WorkerPills ==
  ASSUME KernalInv, NEW w \in Workers, Worker(w)
  PROVE  NoPillYet' /\ OnePillPerWorker'
  <1>t. /\ TypeOK /\ BootPhases /\ NoPillYet /\ OnePillPerWorker
        /\ UNCHANGED <<mainPc, lexerRunning, coordPc, pillsDue>>
        /\ workerPc[w] \notin {"none", "done"}
    BY DEF KernalInv, Worker, WorkerStep, WorkerCheck, WorkerPop, WorkerEmit, WorkerLeave,
           WorkerClose, WorkerClosing, kernalVars, coordVars
  <1>q. /\ lineQueue \in Seq(Line \cup {LinePill}) /\ LinePill \in Line \cup {LinePill}
        /\ pillsDue \in Nat /\ PillsQueued \in Nat
    BY <1>t, PillsQueuedCounts DEF TypeOK, ChannelsTypeOK, LexerTypeOK
  <1>m. mainPc \notin {"init", "startStore", "startReader", "startLexer"}
    BY <1>t DEF BootPhases
  <1>o. \A v \in Workers \ {w} : workerPc'[v] = workerPc[v]
    BY <1>t, WorkerMovesAlone
  <1>1. CASE ~lexerRunning
    <2>1. NoPillYet'
      BY <1>1, <1>t, <1>m DEF NoPillYet
    <2> QED BY <1>1, <1>t, <2>1, PillFrame
  \* A move within the loop, the queue as it was.
  <1>2. ASSUME lexerRunning, UNCHANGED lineQueue, MayEmit(w)' <=> MayEmit(w)
        PROVE  NoPillYet' /\ OnePillPerWorker'
    <2>1. Emitting' = Emitting /\ \A v \in Workers : MayEmit(v) => MayEmit(v)'
      BY <1>2, <1>o DEF Emitting, MayEmit
    <2>2. PillsQueued' = PillsQueued
      BY <1>2 DEF PillsQueued
    <2>3. NoPillYet'
      BY <1>2, <1>m, <1>t, <1>o, <2>1 DEF NoPillYet
    <2> QED BY <1>2, <1>t, <2>1, <2>2, <2>3 DEF OnePillPerWorker
  <1>3. ASSUME lexerRunning, WorkerCheck(w) \/ WorkerEmit(w) \/ WorkerLeave(w)
                             \/ WorkerClose(w) \/ WorkerClosing(w)
        PROVE  UNCHANGED lineQueue /\ (MayEmit(w)' <=> MayEmit(w))
    <2>1. workerPc \in [Workers -> {"none", "check", "pop", "emit", "leave",
                                     "close", "closing", "done"}]
      BY <1>t DEF TypeOK, LexerTypeOK
    <2> QED BY <1>3, <2>1 DEF WorkerCheck, WorkerEmit, WorkerLeave, WorkerClose, WorkerClosing,
                              WorkerGoto, MayEmit, channelVars
  <1>4. CASE lexerRunning /\ WorkerPop(w)
    <2>1. /\ workerPc[w] = "pop" /\ lineQueue # <<>> /\ lineQueue' = Tail(lineQueue)
          /\ IF Head(lineQueue) = LinePill THEN workerPc'[w] = "leave" ELSE workerPc'[w] = "emit"
      BY <1>4, <1>t DEF WorkerPop, WorkerGoto, TypeOK, LexerTypeOK
    <2>2. /\ Head(lineQueue) = lineQueue[1] /\ Len(lineQueue) \in Nat \ {0}
          /\ Len(lineQueue') = Len(lineQueue) - 1
          /\ \A i \in 1 .. Len(lineQueue') : lineQueue'[i] = lineQueue[i + 1]
      BY <1>q, <2>1, PopSeq
    <2>3. TypeOK'
      BY <1>t, NextTypes DEF Next
    <2>4. PillsQueued' = PillsQueued - (IF Head(lineQueue) = LinePill THEN 1 ELSE 0)
      BY <1>q, <1>t, <2>1, <2>3, PillsPopped, PillsQueuedCounts DEF PillsQueued, PillsIn
    <2>5. \A i \in 1 .. Len(lineQueue') : i + 1 \in 1 .. Len(lineQueue)
      BY <2>2
    <2>6. CASE coordPc \notin {"pills", "done"}
      <3>1. Head(lineQueue) # LinePill
        BY <1>4, <1>t, <2>2, <2>6 DEF NoPillYet
      <3>2. \A i \in 1 .. Len(lineQueue') : lineQueue'[i] # LinePill
        BY <1>4, <1>t, <2>2, <2>5, <2>6 DEF NoPillYet
      <3>3. \A v \in Workers : MayEmit(v) => MayEmit(v)'
        BY <1>o, <2>1, <3>1 DEF MayEmit
      <3>4. \A v \in Workers : workerPc[v] = "none" => workerPc'[v] = "none"
        BY <1>o, <1>t
      <3> QED BY <1>4, <1>t, <1>m, <2>6, <3>2, <3>3, <3>4 DEF NoPillYet, OnePillPerWorker
    <2>7. CASE coordPc \in {"pills", "done"}
      <3>1. NoPillYet'
        BY <1>4, <1>t, <1>m, <2>7 DEF NoPillYet
      <3>2. \A i, j \in 1 .. Len(lineQueue') :
              i < j /\ lineQueue'[i] = LinePill => lineQueue'[j] = LinePill
        <4> TAKE i, j \in 1 .. Len(lineQueue')
        <4>1. /\ i + 1 \in 1 .. Len(lineQueue) /\ j + 1 \in 1 .. Len(lineQueue)
              /\ i < j => i + 1 < j + 1
          BY <2>2, <2>5
        <4> QED BY <1>4, <1>t, <2>2, <2>7, <4>1 DEF OnePillPerWorker
      <3>3. Emitting' = IF Head(lineQueue) = LinePill THEN Emitting \ {w} ELSE Emitting
        BY <1>o, <2>1 DEF Emitting, MayEmit
      <3>4. w \in Emitting /\ Emitting \in SUBSET Workers
        BY <2>1 DEF Emitting, MayEmit
      <3>5. /\ Cardinality(Emitting) \in Nat
            /\ Cardinality(Emitting \ {w}) = Cardinality(Emitting) - 1
        BY <3>4, WorkerSets, FS_RemoveElement
      <3>6. PillsQueued' + pillsDue' = Cardinality(Emitting')
        BY <1>4, <1>q, <1>t, <2>4, <2>7, <3>3, <3>5 DEF OnePillPerWorker
      <3> QED BY <3>1, <3>2, <3>6 DEF OnePillPerWorker
    <2> QED BY <2>6, <2>7
  <1> QED BY <1>1, <1>2, <1>3, <1>4 DEF Worker, WorkerStep

\* A step of the other threads, or of main.
LEMMA OtherPills ==
  ASSUME KernalInv, \/ MainStep \/ Signal \/ ScanThrows
                    \/ Reader \/ ParserThread \/ EngineThread \/ Query
  PROVE  NoPillYet' /\ OnePillPerWorker'
  <1>t. /\ TypeOK /\ BootPhases /\ Lifecycle /\ NoPillYet /\ OnePillPerWorker
        /\ lineQueue \in Seq(Line \cup {LinePill})
        /\ workerPc \in [Workers -> {"none", "check", "pop", "emit", "leave",
                                     "close", "closing", "done"}]
    BY DEF KernalInv, TypeOK, ChannelsTypeOK, LexerTypeOK
  \* All but the start of the Lexer, the pills of its catch block and its stop.
  <1>1. ASSUME UNCHANGED pillVars,
               mainPc' \in {"init", "startStore", "startReader", "startLexer"} =>
                 mainPc \in {"init", "startStore", "startReader", "startLexer"},
               mainPc' \in {"recount", "undoPills"} => mainPc \in {"recount", "undoPills"}
        PROVE  NoPillYet' /\ OnePillPerWorker'
    <2>1. NoPillYet'
      BY <1>1, <1>t DEF NoPillYet, MayEmit, pillVars
    <2> QED BY <1>1, <2>1, PillFrame
  <1> USE DEF pillVars, channelVars, readerVars, lexerVars, parserVars, engineVars, kernalVars,
              coordVars, workerVars, OthersUnchanged, Main
  <1>2. CASE Reader \/ ParserThread \/ EngineThread \/ Query \/ Signal \/ ScanThrows
    BY <1>1, <1>2 DEF Reader, ReaderStep, ReaderScan, ReaderPush, ReaderClose, ParserThread,
                      ParserStep, ParserCheck, ParserPop, ParserSettle, EngineThread, Query,
                      Signal, ScanThrows
  <1>3. CASE InitAll \/ StartStore \/ StartReader
    BY <1>1, <1>3 DEF InitAll, StartStore, StartReader
  <1>4. CASE StartLexer
    <2>1. CASE Main("startLexer", "spawn") /\ LexerPrepare
      <3>1. /\ lineQueue' = <<>> /\ coordPc' = "none"
            /\ \A w \in Workers : workerPc'[w] = "none"
        BY <1>4, <1>t, <2>1 DEF StartLexer, LexerPrepare, NoPillYet, BootPhases, Lifecycle,
                                ThreadsFollowState, NotStarted
      <3> QED BY <2>1, <3>1 DEF NoPillYet, OnePillPerWorker
    <2>2. ASSUME NEW w \in Workers, Main("spawn", "spawn"), SpawnWorker(w)
          PROVE  NoPillYet' /\ OnePillPerWorker'
      <3>1. /\ coordPc = "none" /\ UNCHANGED <<lineQueue, lexerRunning, coordPc>>
            /\ workerPc'[w] = "check"
            /\ \A v \in Workers \ {w} : workerPc'[v] = workerPc[v]
        BY <1>4, <1>t, <2>2 DEF StartLexer, SpawnWorker, Lifecycle, ThreadsFollowState,
                                NotStarted
      <3> QED BY <1>t, <2>2, <3>1 DEF NoPillYet, OnePillPerWorker, MayEmit
    <2>3. CASE Main("spawn", "startParser") /\ SpawnCoordinator
      <3>1. /\ coordPc = "none" /\ coordPc' = "check"
            /\ UNCHANGED <<lineQueue, lexerRunning, workerPc>>
            /\ \A w \in Workers : workerPc[w] # "none"
        BY <1>4, <1>t, <2>3 DEF StartLexer, SpawnCoordinator, Spawned, Lifecycle,
                                ThreadsFollowState, NotStarted
      <3> QED BY <1>t, <2>3, <3>1 DEF NoPillYet, OnePillPerWorker, MayEmit
    <2>4. CASE mainPc = "spawn" /\ mainPc' = "recount" /\ LexerStopRunning
      BY <2>4 DEF LexerStopRunning, NoPillYet, OnePillPerWorker
    <2> QED BY <1>4, <2>1, <2>2, <2>3, <2>4 DEF StartLexer
  <1>5. CASE UndoRecount \/ UndoJoin
    BY <1>1, <1>5 DEF UndoRecount, LexerRecount, UndoJoin
  <1>6. CASE UndoPill
    BY <1>6, <1>t DEF UndoPill, NoPillYet, OnePillPerWorker
  <1>7. CASE UndoClose \/ StopLexerClose
    BY <1>1, <1>7 DEF UndoClose, StopLexerClose, CloseBy
  <1>8. CASE StartParser \/ AwaitIndexing \/ StartEngine \/ Serve
    BY <1>1, <1>8 DEF StartParser, AwaitIndexing, StartEngine, Serve, StartFails
  <1>9. CASE StopEngine \/ StopParser \/ StopReader \/ StopStore
    BY <1>1, <1>9 DEF StopEngine, StopParser, StopReader, StopStore, SkipStop, BeginStop
  <1>10. CASE StopLexer
    <2>1. CASE UNCHANGED lexerVars
      BY <1>1, <1>10, <2>1 DEF StopLexer, SkipStop, BeginStop
    <2>2. CASE BeginStop("Lexer", "stopLexer", "unblockLexer") /\ LexerStopRunning
      BY <2>2 DEF BeginStop, LexerStopRunning, NoPillYet, OnePillPerWorker
    <2> QED BY <1>10, <2>1, <2>2 DEF StopLexer
  <1> QED BY <1>2, <1>3, <1>4, <1>5, <1>6, <1>7, <1>8, <1>9, <1>10 DEF MainStep

-----------------------------------------------------------------------------
\* KernalInv is inductive: it holds at the start.
LEMMA InitInv == Init => KernalInv
  <1> SUFFICES ASSUME Init PROVE KernalInv
    OBVIOUS
  <1>1. TypeOK
    BY InitTypes
  <1>2. /\ \A w \in Workers : workerPc[w] = "none"
        /\ activeWorkers = 0 /\ downstreamClosed = FALSE
        /\ parserQueue = <<>> /\ parserPc = "none"
        /\ mainPc = "init" /\ Fed
    BY DEF Init, LexerInit, ChannelsInit, ParserInit, Fed, Subsystems
  <1>3. BootPhases
    BY <1>2 DEF BootPhases
  <1>4. Counted = {} /\ Cardinality(Counted) = 0
    BY <1>2, FS_EmptySet DEF Counted
  <1>5. CountCovers /\ ClosedWhenDone
    BY <1>2, <1>4 DEF CountCovers, ClosedWhenDone
  <1>6. OneHolder /\ PillLast
    BY <1>2 DEF OneHolder, PillLast, HoldsPill, MainHoldsPill, StreamEnded, PillQueued
  <1>7. NoPillYet /\ OnePillPerWorker
    BY <1>2 DEF NoPillYet, OnePillPerWorker, Init, LexerInit, ChannelsInit
  <1> QED BY <1>1, <1>3, <1>5, <1>6, <1>7, InitLifecycle DEF KernalInv, ClosingOrder

\* And every step keeps it.
LEMMA NextInv == KernalInv /\ [Next]_vars => KernalInv'
  <1> SUFFICES ASSUME KernalInv, [Next]_vars PROVE KernalInv'
    OBVIOUS
  <1>1. TypeOK'
    BY NextTypes DEF KernalInv
  <1>2. ASSUME UNCHANGED <<channelVars, lexerVars, parserVars, kernalVars>>
        PROVE  ClosingOrder'
    BY <1>2, ClosingFrame
       DEF closingVars, channelVars, lexerVars, parserVars, kernalVars, Fed, MainHoldsPill
  <1>3. CASE UNCHANGED vars
    <2> USE <1>3 DEF vars, channelVars, readerVars, lexerVars, parserVars, engineVars, kernalVars
    <2>1. BootPhases'
      BY DEF KernalInv, BootPhases, WorkersFinished, Spawned, Fed
    <2>2. Lifecycle'
      BY DEF KernalInv, Lifecycle, StopOrder, ThreadsFollowState, NotStarted, WorkersFinished,
             Spawned
    <2>3. NoPillYet' /\ OnePillPerWorker'
      <3>1. NoPillYet'
        BY DEF KernalInv, NoPillYet, MayEmit
      <3> QED BY <3>1, PillFrame DEF pillVars
    <2> QED BY <1>1, <1>2, <2>1, <2>2, <2>3 DEF KernalInv
  <1>4. CASE MainStep \/ Signal \/ ScanThrows
    <2>1. Lifecycle'
      BY <1>4, MainStopOrder, MainThreadsFollow DEF Lifecycle
    <2> QED BY <1>1, <1>4, <2>1, MainClosingOrder, MainPhases, OtherPills DEF KernalInv
  <1>5. CASE \E w \in Workers : Worker(w)
    BY <1>1, <1>5, WorkerClosingOrder, WorkerPhases, ThreadLifecycle, WorkerPills DEF KernalInv
  <1>6. CASE ParserThread
    BY <1>1, <1>6, ParserClosingOrder, ThreadPhases, ThreadLifecycle, OtherPills DEF KernalInv
  <1>7. CASE Reader \/ Coordinator
    <2>1. UNCHANGED closingVars /\ UNCHANGED <<state, mainPc>>
      BY <1>7 DEF Reader, ReaderStep, ReaderScan, ReaderPush, ReaderClose, Coordinator,
                  CoordStep, CoordCheck, CoordPop, CoordRead, CoordPush, CoordPill,
                  channelVars, lexerVars, workerVars, parserVars, kernalVars, closingVars
    <2>2. ClosingOrder'
      BY <2>1, ClosingFrame DEF Fed, MainHoldsPill
    <2>3. NoPillYet' /\ OnePillPerWorker'
      BY <1>7, CoordPills, OtherPills
    <2> QED BY <1>1, <1>7, <2>2, <2>3, ThreadPhases, ThreadLifecycle DEF KernalInv
  <1>8. CASE EngineThread \/ Query
    <2>1. ClosingOrder'
      BY <1>2, <1>8 DEF EngineThread, Query
    <2> QED BY <1>1, <1>8, <2>1, ThreadPhases, ThreadLifecycle, OtherPills DEF KernalInv
  <1> QED BY <1>3, <1>4, <1>5, <1>6, <1>7, <1>8 DEF Next, Gone

\* The phases of main, the order of closing and of the stops, and the count of the pills
\* hold for any corpus, capacities, number
\* of workers, failures and moment of the signal.
THEOREM KernalInvariant == Spec => []KernalInv
  BY InitInv, NextInv, PTL DEF Spec

\* The Parser never settles with a token still on its way: CloseParserQueue_, from
\* whichever thread, puts one pill behind the last token.
THEOREM KernalEndOfStreamIsLast == Spec => []EndOfStreamIsLast
  <1>1. KernalInv => EndOfStreamIsLast
    <2> SUFFICES ASSUME KernalInv, Fed PROVE EndOfStreamIsLast
      BY DEF EndOfStreamIsLast, Fed
    <2>1. ASSUME StreamEnded
          PROVE  downstreamClosed /\ \A w \in Workers : ~MayEmit(w)
      BY <2>1 DEF KernalInv, ClosingOrder, OneHolder, ClosedWhenDone, Counted, MayEmit
    <2> QED BY <2>1 DEF KernalInv, ClosingOrder, PillLast, EndOfStreamIsLast, StreamEnded,
                        PillQueued
  <1> QED BY <1>1, KernalInvariant, PTL

\* Once the coordinator hands out its pills there is exactly one, queued or due, per
\* worker that has yet to leave, and no line behind a pill: CoordPill and WorkerPop keep
\* the count whatever the other workers do in between.
THEOREM KernalOnePillPerWorker == Spec => []OnePillPerWorker
  <1>1. KernalInv => OnePillPerWorker
    BY DEF KernalInv
  <1> QED BY <1>1, KernalInvariant, PTL

\* No thread outlives the subsystem that owns it: STOPPED means joined, a failed start of
\* the Lexer leaves no worker, and main returns with every thread gone.
THEOREM KernalNoThreadOutlives == Spec => []NoThreadOutlives
  <1>1. KernalInv => NoThreadOutlives
    <2> SUFFICES ASSUME KernalInv PROVE NoThreadOutlives
      OBVIOUS
    <2>1. /\ state \in [Subsystems -> States] /\ StopOrder /\ ThreadsFollowState
          /\ mainPc \in Stopping =>
               mainPc \notin {"spawn", "recount", "undoPills", "undoJoin", "aborted"}
      BY DEF KernalInv, TypeOK, KernalTypeOK, Lifecycle, Stopping
    <2>2. mainPc = "exited" =>
            \A s \in Subsystems : state[s] \in {"CREATED", "INITIALIZED", "STOPPED"}
      BY <2>1, StopTable DEF StopOrder, Subsystems, States, AfterStore, AfterReader, AfterLexer,
                             AfterParser, AfterEngine
    <2> QED BY <2>1, <2>2 DEF NoThreadOutlives, ThreadsFollowState, NotStarted, Subsystems
  <1> QED BY <1>1, KernalInvariant, PTL
=============================================================================

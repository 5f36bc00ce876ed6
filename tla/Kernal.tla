------------------------------- MODULE Kernal -------------------------------
(***************************************************************************)
(* The whole program: main.cpp and kernal.cpp drive the five subsystems    *)
(* through the lifecycle of subsystem.hpp, and the threads those start run *)
(* the indexing pipeline and the query loop.                               *)
(*                                                                         *)
(* The main thread runs InitAll, StartAll, the wait for shutdown and       *)
(* StopAll one after the other; mainPc names the call it is in.  A signal  *)
(* only sets a flag.  While mainPc is "aborted" (an exception left main or *)
(* the function of a thread) or "exited" the process is gone and nothing   *)
(* moves.                                                                  *)
(***************************************************************************)
EXTENDS DirectoryReader, Lexer, Parser, Engine

CONSTANTS Failures,       \* what may fail: "corpus" is not there, the file system throws
                          \* ("scan"), a thread is not created: "reader", "worker",
                          \* "coordinator", "parser", "engine"
          IndexPresent,   \* the values HasSearchIndex may have when the Store starts
          MaySignal,      \* whether SIGINT or SIGTERM may arrive
          MayTimeOut      \* whether indexing may outlast kIndexTimeout

ASSUME EnvironmentAssumption ==
  /\ Failures \subseteq {"corpus", "scan", "reader", "worker", "coordinator", "parser", "engine"}
  /\ IndexPresent \subseteq BOOLEAN
  /\ MaySignal \in BOOLEAN
  /\ MayTimeOut \in BOOLEAN

VARIABLES state,            \* state_ of each subsystem
          mainPc,           \* where the main thread is
          mainPills,        \* pills the failing Lexer::OnStart has still to push
          shutdown,         \* g_shutdown
          hasSearchIndex,   \* hasSearchIndex of the Store
          startFailed       \* whether StartAll or InitAll returned an error

kernalVars == <<state, mainPc, mainPills, shutdown, hasSearchIndex, startFailed>>
vars == <<channelVars, readerVars, lexerVars, parserVars, engineVars, kernalVars>>

Subsystems == {"Store", "DirReader", "Lexer", "Parser", "Engine"}
States     == {"CREATED", "INITIALIZED", "STARTED", "STOPPING", "STOPPED"}

Starting == {"init", "startStore", "startReader", "startLexer", "spawn", "undo",
             "recount", "undoPills", "undoJoin", "undoClose", "undoClosing",
             "startParser", "await", "heartbeat", "startEngine"}
Stopping == {"stopEngine", "joinEngine", "stopParser", "unblockParser", "joinParser",
             "stopLexer", "unblockLexer", "joinCoordinator", "joinWorkers",
             "closeParser", "closingParser", "stopReader", "joinReader", "stopStore"}
Alive == mainPc \notin {"exited", "aborted"}

Init == /\ ChannelsInit /\ ReaderInit /\ LexerInit /\ ParserInit /\ EngineInit
        /\ state = [s \in Subsystems |-> "CREATED"]
        /\ mainPc = "init"
        /\ mainPills = 0
        /\ shutdown = FALSE
        /\ hasSearchIndex = FALSE
        /\ startFailed = FALSE

-----------------------------------------------------------------------------
(* Steps of the main thread. *)

Main(from, to) == mainPc = from /\ mainPc' = to
Become(s, st)  == state' = [state EXCEPT ![s] = st]

\* What a step of the main thread leaves alone when it is inside no subsystem.
OthersUnchanged == UNCHANGED <<channelVars, readerVars, lexerVars, parserVars, engineVars>>

\* Kernal::InitAll: in registration order, up to the first error; main returns 1.  Nobody
\* catches what exists and is_directory throw.
InitAll ==
  /\ \/ /\ Main("init", "startStore")
        /\ state' = [s \in Subsystems |-> "INITIALIZED"]
        /\ UNCHANGED startFailed
     \/ /\ "corpus" \in Failures
        /\ Main("init", "exited")
        /\ Become("Store", "INITIALIZED")
        /\ startFailed' = TRUE
     \/ /\ "scan" \in Failures
        /\ Main("init", "aborted")
        /\ Become("Store", "INITIALIZED")
        /\ UNCHANGED startFailed
  /\ UNCHANGED <<mainPills, shutdown, hasSearchIndex>>
  /\ OthersUnchanged

\* Kernal::StartAll, one action per subsystem; an error goes to main's StopAll.
StartStore == /\ mainPc = "startStore"
              /\ Become("Store", "STARTED")
              /\ \E present \in IndexPresent :
                   /\ hasSearchIndex' = present
                   /\ mainPc' = IF present THEN "startEngine" ELSE "startReader"
              /\ UNCHANGED <<mainPills, shutdown, startFailed>>
              /\ OthersUnchanged

StartFails == /\ mainPc' = "stopEngine"
              /\ startFailed' = TRUE

\* DirectoryReader::OnStart does not catch what std::thread throws: it leaves main.
StartReader ==
  /\ \/ /\ Main("startReader", "startLexer")
        /\ ReaderOnStart
        /\ Become("DirReader", "STARTED")
     \/ /\ "reader" \in Failures
        /\ Main("startReader", "aborted")
        /\ UNCHANGED <<readerVars, state>>
  /\ UNCHANGED <<mainPills, shutdown, hasSearchIndex, startFailed>>
  /\ UNCHANGED <<channelVars, lexerVars, parserVars, engineVars>>

\* Lexer::OnStart: the workers one by one, then the coordinator.
StartLexer ==
  /\ \/ Main("startLexer", "spawn") /\ LexerPrepare /\ UNCHANGED state
     \/ /\ Main("spawn", "spawn")
        /\ \E w \in Workers : SpawnWorker(w)
        /\ UNCHANGED state
     \/ /\ Main("spawn", "startParser")
        /\ SpawnCoordinator
        /\ Become("Lexer", "STARTED")
     \/ /\ mainPc = "spawn"
        /\ IF Spawned = Workers THEN "coordinator" \in Failures ELSE "worker" \in Failures
        /\ mainPc' = "recount"
        /\ LexerStopRunning
        /\ UNCHANGED state
  /\ UNCHANGED <<mainPills, shutdown, hasSearchIndex, startFailed>>
  /\ UNCHANGED <<channelVars, readerVars, parserVars, engineVars>>

\* The catch block of Lexer::OnStart: recount, one pill per worker that exists,
\* join them, close the parser's queue, return the error.
\* Mutant: no pill for the workers that did start.
UndoRecountNoPills == /\ Main("recount", "undoPills")
                      /\ LexerRecount
                      /\ mainPills' = 0
                      /\ UNCHANGED <<state, shutdown, hasSearchIndex, startFailed>>
                      /\ UNCHANGED <<channelVars, readerVars, parserVars, engineVars>>

UndoRecount == /\ Main("recount", "undoPills")
               /\ LexerRecount
               /\ mainPills' = Cardinality(Spawned)
               /\ UNCHANGED <<state, shutdown, hasSearchIndex, startFailed>>
               /\ UNCHANGED <<channelVars, readerVars, parserVars, engineVars>>

UndoPill == /\ mainPc = "undoPills"
            /\ IF mainPills = 0
                 THEN mainPc' = "undoJoin" /\ UNCHANGED <<mainPills, lineQueue>>
                 ELSE /\ PushLine(LinePill)
                      /\ mainPills' = mainPills - 1
                      /\ UNCHANGED mainPc
            /\ UNCHANGED <<state, shutdown, hasSearchIndex, startFailed>>
            /\ UNCHANGED <<dirQueue, parserQueue, readerVars, lexerVars, parserVars, engineVars>>

\* Mutant: the catch block does not wait for them.
UndoNoJoin == /\ Main("undoJoin", "undoClose")
              /\ UNCHANGED <<state, mainPills, shutdown, hasSearchIndex, startFailed>>
              /\ OthersUnchanged

UndoJoin == /\ Main("undoJoin", "undoClose")
            /\ WorkersFinished
            /\ UNCHANGED <<state, mainPills, shutdown, hasSearchIndex, startFailed>>
            /\ OthersUnchanged

\* CloseParserQueue_ on the main thread: from the catch block and from OnStop.
CloseBy(from, pushing, after) ==
  /\ \/ /\ Main(from, pushing) /\ WinClose
        /\ UNCHANGED parserQueue
     \/ /\ Main(from, after) /\ LoseClose
        /\ UNCHANGED parserQueue
     \/ /\ Main(pushing, after)
        /\ PushToken(Empty)
        /\ UNCHANGED downstreamClosed
  /\ UNCHANGED <<dirQueue, lineQueue, readerVars, parserVars, engineVars>>
  /\ UNCHANGED <<lexerRunning, activeWorkers, coordVars, workerVars>>

UndoClose == /\ CloseBy("undoClose", "undoClosing", "stopEngine")
             /\ startFailed' = (mainPc' = "stopEngine")
             /\ UNCHANGED <<state, mainPills, shutdown, hasSearchIndex>>

StartParser ==
  /\ mainPc = "startParser"
  /\ \/ /\ mainPc' = "await"
        /\ ParserOnStart
        /\ Become("Parser", "STARTED")
        /\ UNCHANGED startFailed
     \/ /\ "parser" \in Failures
        /\ StartFails
        /\ UNCHANGED <<parserVars, state>>
  /\ UNCHANGED <<mainPills, shutdown, hasSearchIndex>>
  /\ UNCHANGED <<channelVars, readerVars, lexerVars, engineVars>>

\* Mutant: wait() instead of get(), any end of the wait counts as success.
AwaitWithoutGet ==
  /\ \/ /\ mainPc = "await" /\ promise # "unset"
        /\ mainPc' = "startEngine"
        /\ UNCHANGED startFailed
     \/ /\ mainPc = "await" /\ promise = "unset"
        /\ mainPc' = "heartbeat"
        /\ UNCHANGED startFailed
     \/ /\ mainPc = "heartbeat" /\ shutdown
        /\ StartFails
     \/ /\ mainPc = "heartbeat" /\ MayTimeOut
        /\ mainPc' = "startEngine"
        /\ UNCHANGED startFailed
     \/ /\ mainPc = "heartbeat" /\ ~shutdown
        /\ mainPc' = "await"
        /\ UNCHANGED startFailed
  /\ UNCHANGED <<state, mainPills, shutdown, hasSearchIndex>>
  /\ OthersUnchanged

\* AwaitIndexing_: wait_for finds the future ready, or its heartbeat runs out; then
\* the shutdown flag is tested first and the deadline second.
AwaitIndexing ==
  /\ \/ /\ mainPc = "await" /\ promise = "value"
        /\ mainPc' = "startEngine"
        /\ UNCHANGED startFailed
     \/ /\ mainPc = "await" /\ promise = "exception"
        /\ StartFails
     \/ /\ mainPc = "await" /\ promise = "unset"
        /\ mainPc' = "heartbeat"
        /\ UNCHANGED startFailed
     \/ /\ mainPc = "heartbeat" /\ (shutdown \/ MayTimeOut)
        /\ StartFails
     \/ /\ mainPc = "heartbeat" /\ ~shutdown
        /\ mainPc' = "await"
        /\ UNCHANGED startFailed
  /\ UNCHANGED <<state, mainPills, shutdown, hasSearchIndex>>
  /\ OthersUnchanged

\* Engine::OnStart does not catch either.
StartEngine ==
  /\ \/ /\ Main("startEngine", "serving")
        /\ EngineOnStart
        /\ Become("Engine", "STARTED")
     \/ /\ "engine" \in Failures
        /\ Main("startEngine", "aborted")
        /\ UNCHANGED <<engineVars, state>>
  /\ UNCHANGED <<mainPills, shutdown, hasSearchIndex, startFailed>>
  /\ UNCHANGED <<channelVars, readerVars, lexerVars, parserVars>>

\* main polls the flag every 100 ms.
Serve == /\ mainPc = "serving"
         /\ mainPc' = IF shutdown THEN "stopEngine" ELSE "serving"
         /\ UNCHANGED <<state, mainPills, shutdown, hasSearchIndex, startFailed>>
         /\ OthersUnchanged

-----------------------------------------------------------------------------
(* Kernal::StopAll, in reverse registration order.  Subsystem::Stop skips a *)
(* subsystem that is not STARTED, and goes STOPPING, OnStop, STOPPED.       *)

SkipStop(s, from, next) == /\ Main(from, next)
                           /\ state[s] # "STARTED"
                           /\ UNCHANGED state

BeginStop(s, from, next) == /\ Main(from, next)
                            /\ state[s] = "STARTED"
                            /\ Become(s, "STOPPING")

MainKeeps == UNCHANGED <<mainPills, shutdown, hasSearchIndex, startFailed>>

StopEngine ==
  /\ \/ SkipStop("Engine", "stopEngine", "stopParser") /\ UNCHANGED engineVars
     \/ BeginStop("Engine", "stopEngine", "joinEngine") /\ EngineOnStop
     \/ /\ Main("joinEngine", "stopParser")
        /\ EngineFinished
        /\ Become("Engine", "STOPPED")
        /\ UNCHANGED engineVars
  /\ MainKeeps
  /\ UNCHANGED <<channelVars, readerVars, lexerVars, parserVars>>

StopParser ==
  /\ \/ /\ SkipStop("Parser", "stopParser", "stopLexer")
        /\ UNCHANGED <<parserVars, parserQueue>>
     \/ /\ BeginStop("Parser", "stopParser", "unblockParser")
        /\ ParserStopRunning
        /\ UNCHANGED parserQueue
     \/ /\ Main("unblockParser", "joinParser")
        /\ PushToken(Empty)
        /\ UNCHANGED <<state, parserVars>>
     \/ /\ Main("joinParser", "stopLexer")
        /\ ParserFinished
        /\ Become("Parser", "STOPPED")
        /\ UNCHANGED <<parserVars, parserQueue>>
  /\ MainKeeps
  /\ UNCHANGED <<dirQueue, lineQueue, readerVars, lexerVars, engineVars>>

StopLexer ==
  /\ \/ /\ SkipStop("Lexer", "stopLexer", "stopReader")
        /\ UNCHANGED <<lexerVars, dirQueue>>
     \/ /\ BeginStop("Lexer", "stopLexer", "unblockLexer")
        /\ LexerStopRunning
        /\ UNCHANGED dirQueue
     \/ /\ Main("unblockLexer", "joinCoordinator")
        /\ PushDir(Empty)
        /\ UNCHANGED <<state, lexerVars>>
     \/ /\ Main("joinCoordinator", "joinWorkers")
        /\ CoordinatorFinished
        /\ UNCHANGED <<state, lexerVars, dirQueue>>
     \/ /\ Main("joinWorkers", "closeParser")
        /\ WorkersFinished
        /\ UNCHANGED <<state, lexerVars, dirQueue>>
  /\ MainKeeps
  /\ UNCHANGED <<lineQueue, parserQueue, readerVars, parserVars, engineVars>>

\* The last statement of Lexer::OnStop, after which the Lexer is STOPPED.
StopLexerClose == /\ CloseBy("closeParser", "closingParser", "stopReader")
                  /\ IF mainPc' = "stopReader" THEN Become("Lexer", "STOPPED")
                                               ELSE UNCHANGED state
                  /\ MainKeeps

StopReader ==
  /\ \/ SkipStop("DirReader", "stopReader", "stopStore") /\ UNCHANGED readerVars
     \/ BeginStop("DirReader", "stopReader", "joinReader") /\ ReaderOnStop
     \/ /\ Main("joinReader", "stopStore")
        /\ ReaderFinished
        /\ Become("DirReader", "STOPPED")
        /\ UNCHANGED readerVars
  /\ MainKeeps
  /\ UNCHANGED <<channelVars, lexerVars, parserVars, engineVars>>

\* The Store has nothing to stop; main returns.
StopStore == /\ Main("stopStore", "exited")
             /\ Become("Store", "STOPPED")
             /\ MainKeeps
             /\ OthersUnchanged

MainStep == \/ InitAll \/ StartStore \/ StartReader \/ StartLexer
            \/ UndoRecount \/ UndoPill \/ UndoJoin \/ UndoClose
            \/ StartParser \/ AwaitIndexing \/ StartEngine \/ Serve
            \/ StopEngine \/ StopParser \/ StopLexer \/ StopLexerClose
            \/ StopReader \/ StopStore

-----------------------------------------------------------------------------
\* HandleShutdownSignal, installed before InitAll.
Signal == /\ Alive /\ MaySignal /\ ~shutdown
          /\ shutdown' = TRUE
          /\ UNCHANGED <<state, mainPc, mainPills, hasSearchIndex, startFailed>>
          /\ OthersUnchanged

Reader == /\ Alive /\ ReaderStep
          /\ UNCHANGED <<lexerVars, parserVars, engineVars, kernalVars>>

\* The directory cannot be opened or read on, or an entry has no status: the exception
\* leaves DirectoryReader::Run, which is a thread's function, and the process terminates.
ScanThrows == /\ Alive /\ "scan" \in Failures
              /\ Scanning
              /\ mainPc' = "aborted"
              /\ UNCHANGED <<state, mainPills, shutdown, hasSearchIndex, startFailed>>
              /\ OthersUnchanged

Coordinator == /\ Alive /\ CoordStep
               /\ UNCHANGED <<readerVars, parserVars, engineVars, kernalVars>>

Worker(w) == /\ Alive /\ WorkerStep(w)
             /\ UNCHANGED <<readerVars, parserVars, engineVars, kernalVars>>

ParserThread == /\ Alive /\ ParserStep
                /\ UNCHANGED <<readerVars, lexerVars, engineVars, kernalVars>>

EngineThread == /\ Alive /\ EngineCheck
                /\ UNCHANGED <<channelVars, readerVars, lexerVars, parserVars, kernalVars>>

\* The user at the terminal.
Query == /\ Alive /\ EnginePrompt
         /\ UNCHANGED <<channelVars, readerVars, lexerVars, parserVars, kernalVars>>

Gone == ~Alive /\ UNCHANGED vars

Next == \/ MainStep \/ Signal \/ Reader \/ Coordinator \/ ParserThread
        \/ EngineThread \/ Query \/ ScanThrows \/ Gone
        \/ \E w \in Workers : Worker(w)

Spec == Init /\ [][Next]_vars

\* The operating system runs every thread that can take a step, and a condition
\* variable or a join that can return does.  Neither the user nor the signal is owed.
Fairness == /\ WF_vars(MainStep) /\ WF_vars(Reader) /\ WF_vars(Coordinator)
            /\ WF_vars(ParserThread) /\ WF_vars(EngineThread)
            /\ \A w \in Workers : WF_vars(Worker(w))

FairSpec == Spec /\ Fairness

\* As FairSpec, with a user who keeps answering the prompt or closes the input.
AttendedSpec == FairSpec /\ WF_vars(Query)

-----------------------------------------------------------------------------
KernalTypeOK ==
  /\ state \in [Subsystems -> States]
  /\ mainPc \in Starting \cup Stopping \cup {"serving", "exited", "aborted"}
  /\ mainPills \in Nat
  /\ shutdown \in BOOLEAN
  /\ hasSearchIndex \in BOOLEAN
  /\ startFailed \in BOOLEAN

TypeOK == /\ ChannelsTypeOK /\ ReaderTypeOK /\ LexerTypeOK
          /\ ParserTypeOK /\ EngineTypeOK /\ KernalTypeOK

MayEmit(w) == workerPc[w] \in {"check", "pop", "emit"}
Emitting   == {w \in Workers : MayEmit(w)}

\* Until the Parser is told to stop, an end-of-stream pill is the last thing in its
\* queue, there is one, and it is only there (or consumed) when no worker can push
\* another token: the Parser never settles with tokens still on their way.
EndOfStreamIsLast ==
  state["Parser"] \in {"CREATED", "INITIALIZED", "STARTED"} =>
    /\ \A i \in 1 .. Len(parserQueue) : parserQueue[i] = Empty => i = Len(parserQueue)
    /\ \/ parserPc \in {"settle", "done"}
       \/ \E i \in 1 .. Len(parserQueue) : parserQueue[i] = Empty
       => /\ downstreamClosed
          /\ \A w \in Workers : ~MayEmit(w) \/ workerPc[w] = "none"
    /\ parserPc \in {"settle", "done"} => parserQueue = <<>>

PillsQueued == Cardinality({i \in 1 .. Len(lineQueue) : lineQueue[i] = LinePill})

\* Once the coordinator is handing out pills, and nobody has told the Lexer to stop,
\* there is exactly one pill, queued or still due, per worker that has yet to leave,
\* and no line behind a pill: no worker starves and no line is stranded.
OnePillPerWorker ==
  lexerRunning /\ coordPc \in {"pills", "done"} =>
    /\ PillsQueued + pillsDue = Cardinality(Emitting)
    /\ \A i, j \in 1 .. Len(lineQueue) :
         i < j /\ lineQueue[i] = LinePill => lineQueue[j] = LinePill

\* What Subsystem::Stop and the catch block of Lexer::OnStart owe the queues, which
\* main destroys on its way out: a subsystem that is STOPPED, or whose start failed,
\* has no thread left, and when main returns no subsystem is left STARTED.
NoThreadOutlives ==
  /\ state["DirReader"] = "STOPPED" => readerPc = "done"
  /\ state["Lexer"] = "STOPPED" => coordPc = "done" /\ WorkersFinished
  /\ state["Parser"] = "STOPPED" => parserPc = "done"
  /\ state["Engine"] = "STOPPED" => enginePc = "done"
  /\ mainPc \in Stopping /\ state["Lexer"] = "INITIALIZED"
       => coordPc = "none" /\ WorkersFinished
  /\ mainPc = "exited" =>
       /\ \A s \in Subsystems : state[s] \notin {"STARTED", "STOPPING"}
       /\ readerPc \in {"none", "done"} /\ coordPc \in {"none", "done"} /\ WorkersFinished
       /\ parserPc \in {"none", "done"} /\ enginePc \in {"none", "done"}

\* Why the pill is last: activeWorkers counts at least the workers that may still
\* push; the last of them to leave, or main after joining them, is the one to close;
\* whoever won downstreamClosed holds the only pill until the Parser has it.
Counted == {w \in Workers : \/ workerPc[w] \in {"check", "pop", "emit", "leave"}
                            \/ workerPc[w] = "none" /\ mainPc = "spawn"}
HoldsPill(w)   == workerPc[w] = "closing"
MainHoldsPill  == mainPc \in {"undoClosing", "closingParser"}
PillQueued     == \E i \in 1 .. Len(parserQueue) : parserQueue[i] = Empty
Fed            == state["Parser"] \in {"CREATED", "INITIALIZED", "STARTED"}
StreamEnded    == Fed /\ (PillQueued \/ parserPc \in {"settle", "done"})

CountCovers == Cardinality(Counted) <= activeWorkers

ClosedWhenDone ==
  downstreamClosed \/ (\E w \in Workers : workerPc[w] \in {"close", "closing"})
    => Counted = {}

OneHolder ==
  /\ (\E w \in Workers : HoldsPill(w)) \/ MainHoldsPill \/ StreamEnded
       => downstreamClosed
  /\ \A w \in Workers : HoldsPill(w) =>
       /\ \A v \in Workers \ {w} : ~HoldsPill(v)
       /\ ~MainHoldsPill /\ ~StreamEnded
  /\ MainHoldsPill => ~StreamEnded

PillLast ==
  Fed => /\ parserPc \in {"settle", "done"} => parserQueue = <<>>
         /\ \A i \in 1 .. Len(parserQueue) :
              parserQueue[i] = Empty => i = Len(parserQueue)

ClosingOrder == CountCovers /\ ClosedWhenDone /\ OneHolder /\ PillLast

\* Where the main thread is says what the threads have done so far.
BootPhases ==
  /\ mainPc \in {"init", "startStore", "startReader", "startLexer"} =>
       (\A w \in Workers : workerPc[w] = "none") /\ parserQueue = <<>>
  /\ mainPc \in {"init", "startStore", "startReader", "startLexer", "spawn", "startParser"}
       => parserPc = "none"
  /\ mainPc \in {"undoClose", "undoClosing", "closeParser", "closingParser"}
       => WorkersFinished
  /\ mainPc \in {"unblockParser", "joinParser"} => state["Parser"] = "STOPPING"
  /\ mainPc \in Starting \cup {"serving"} => Fed
  /\ Fed /\ parserPc # "none" => parserRunning

\* Why no thread outlives its subsystem: a subsystem is STOPPING only inside its own
\* OnStop (or the process died there) and not STARTED after it, has no thread before OnStart, and is not STOPPED
\* before its thread is joined.
OnStopOf == [Store     |-> {},
             DirReader |-> {"joinReader"},
             Lexer     |-> {"unblockLexer", "joinCoordinator", "joinWorkers",
                            "closeParser", "closingParser"},
             Parser    |-> {"unblockParser", "joinParser"},
             Engine    |-> {"joinEngine"}]
AfterStore  == {"exited"}
AfterReader == AfterStore \cup {"stopStore"}
AfterLexer  == AfterReader \cup {"stopReader", "joinReader"}
AfterParser == AfterLexer \cup {"stopLexer"} \cup OnStopOf.Lexer
AfterEngine == AfterParser \cup {"stopParser"} \cup OnStopOf.Parser

NotStarted(s) == state[s] \in {"CREATED", "INITIALIZED"}

StopOrder ==
  /\ \A s \in Subsystems : state[s] = "STOPPING" => mainPc \in OnStopOf[s] \cup {"aborted"}
  /\ mainPc \in AfterStore  => state["Store"] # "STARTED"
  /\ mainPc \in AfterReader => state["DirReader"] # "STARTED"
  /\ mainPc \in AfterLexer  => state["Lexer"] # "STARTED"
  /\ mainPc \in AfterParser => state["Parser"] # "STARTED"
  /\ mainPc \in AfterEngine => state["Engine"] # "STARTED"

ThreadsFollowState ==
  /\ mainPc = "init" => \A s \in Subsystems : state[s] = "CREATED"
  /\ mainPc \in {"startStore", "startReader", "startLexer", "spawn"}
       => state["Lexer"] = "INITIALIZED"
  /\ NotStarted("DirReader") => readerPc = "none"
  /\ NotStarted("Lexer")     => coordPc = "none"
  /\ NotStarted("Parser")    => parserPc = "none"
  /\ NotStarted("Engine")    => enginePc = "none"
  /\ NotStarted("Lexer") => \/ WorkersFinished
                            \/ mainPc \in {"spawn", "recount", "undoPills", "undoJoin", "aborted"}
  /\ mainPc \in {"joinWorkers", "closeParser", "closingParser"} => coordPc = "done"
  /\ state["DirReader"] = "STOPPED" => readerPc = "done"
  /\ state["Lexer"] = "STOPPED"     => coordPc = "done" /\ WorkersFinished
  /\ state["Parser"] = "STOPPED"    => parserPc = "done"
  /\ state["Engine"] = "STOPPED"    => enginePc = "done"

Lifecycle == StopOrder /\ ThreadsFollowState

\* Why there is one pill per worker: while the Lexer runs a worker leaves by a pill
\* only, and there is none before the coordinator has ended its loop, by when every
\* worker exists.
NoPillYet ==
  /\ mainPc \in {"init", "startStore", "startReader", "startLexer"}
       => lineQueue = <<>> /\ ~lexerRunning
  /\ mainPc \in {"recount", "undoPills"} => ~lexerRunning
  /\ lexerRunning /\ coordPc \notin {"pills", "done"} =>
       /\ \A i \in 1 .. Len(lineQueue) : lineQueue[i] # LinePill
       /\ \A w \in Workers : MayEmit(w) \/ (workerPc[w] = "none" /\ coordPc = "none")

KernalInv == TypeOK /\ BootPhases /\ ClosingOrder /\ Lifecycle /\ NoPillYet /\ OnePillPerWorker

\* StartAll decides, with queues of any size and whatever the corpus holds: the program
\* serves queries, returns, or dies of a thread that could not be created.
BootDecides == (mainPc = "startStore") ~> (mainPc \in {"serving", "exited", "aborted"})

\* "so a long cold boot is interruptible": once the signal has arrived the process ends.
ShutdownCompletes == shutdown ~> ~Alive

\* "If subsystem N fails to start, subsystems 1 through N-1 are stopped", for the failures
\* that main is told of: once a start has failed main stops what runs and returns, if the
\* reader's thread does not take the process with it (ScanThrows).
StartFailureReturns == (mainPc = "recount" \/ startFailed) ~> ~Alive
=============================================================================

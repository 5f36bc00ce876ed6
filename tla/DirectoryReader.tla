-------------------------- MODULE DirectoryReader ---------------------------
(* directoryreader.cpp: one thread that lists the corpus into dirQueue. *)
EXTENDS Channels

VARIABLES readerRunning,   \* running_
          readerPc,        \* where Run is
          unseen,          \* the entries directory_iterator has still to yield
          path             \* the entry in hand

readerVars == <<readerRunning, readerPc, unseen, path>>

ReaderInit == /\ readerRunning = FALSE
              /\ readerPc = "none"
              /\ unseen = Entries
              /\ path = Empty

ReaderTypeOK == /\ readerRunning \in BOOLEAN
                /\ readerPc \in {"none", "scan", "push", "close", "done"}
                /\ unseen \subseteq Entries
                /\ path \in Entries \cup {Empty}

\* OnStart: the flag, then the thread.
ReaderOnStart == /\ readerRunning' = TRUE
                 /\ readerPc' = "scan"
                 /\ UNCHANGED <<unseen, path>>

\* OnStop: the flag; the join waits for ReaderFinished.  Nothing wakes the thread.
ReaderOnStop == /\ readerRunning' = FALSE
                /\ UNCHANGED <<readerPc, unseen, path>>

ReaderFinished == readerPc = "done"

\* Where directory_iterator and is_regular_file may throw; Kernal says what that does.
Scanning == readerPc = "scan"

\* The next entry, in whatever order the directory has, unless told to stop.
ReaderScan ==
  /\ readerPc = "scan"
  /\ \/ /\ readerRunning
        /\ \E entry \in unseen :
             /\ unseen' = unseen \ {entry}
             /\ IF entry \in Regular
                  THEN readerPc' = "push" /\ path' = entry
                  ELSE UNCHANGED <<readerPc, path>>
     \/ /\ unseen = {} \/ ~readerRunning
        /\ readerPc' = "close"
        /\ UNCHANGED <<unseen, path>>
  /\ UNCHANGED <<readerRunning, channelVars>>

ReaderPush == /\ readerPc = "push"
              /\ PushDir(path)
              /\ readerPc' = "scan"
              /\ path' = Empty
              /\ UNCHANGED <<readerRunning, unseen, lineQueue, parserQueue>>

\* The end-of-paths pill, on both exits from the loop.
ReaderClose == /\ readerPc = "close"
               /\ PushDir(Empty)
               /\ readerPc' = "done"
               /\ UNCHANGED <<readerRunning, unseen, path, lineQueue, parserQueue>>

ReaderStep == ReaderScan \/ ReaderPush \/ ReaderClose
=============================================================================

------------------------------- MODULE Engine -------------------------------
(* engine.cpp: one thread that answers the queries typed on standard input. *)

VARIABLES engineRunning,   \* running_
          enginePc         \* where Run is

engineVars == <<engineRunning, enginePc>>

EngineInit == engineRunning = FALSE /\ enginePc = "none"

EngineTypeOK == /\ engineRunning \in BOOLEAN
                /\ enginePc \in {"none", "check", "prompt", "done"}

EngineOnStart == engineRunning' = TRUE /\ enginePc' = "check"

\* OnStop: the flag, then the join.  A thread inside getline stays there.
EngineOnStop == engineRunning' = FALSE /\ UNCHANGED enginePc

EngineFinished == enginePc = "done"

EngineCheck == /\ enginePc = "check"
               /\ enginePc' = IF engineRunning THEN "prompt" ELSE "done"
               /\ UNCHANGED engineRunning

\* getline returns: a blank line or the end of the input ends the loop, a query is
\* looked up (which reads the Store's index and changes nothing) if still running.
EnginePrompt == /\ enginePc = "prompt"
                /\ \E blank \in BOOLEAN :
                     enginePc' = IF blank \/ ~engineRunning THEN "done" ELSE "check"
                /\ UNCHANGED engineRunning
=============================================================================

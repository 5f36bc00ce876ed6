----------------------------- MODULE FileManager ----------------------------
(***************************************************************************)
(* The two FileManagers of the lessons, each on one open file: that of     *)
(* master-file-manager ("lesson": truncates, then Put and Read) and that   *)
(* of the drills ("drill": O_DIRECT, keeps what is there, Write and        *)
(* WriteAt).  The kernel takes or gives as many bytes as it likes, is      *)
(* interrupted by signals, and fails.                                      *)
(***************************************************************************)
EXTENDS Integers, Sequences

CONSTANTS Chunks,       \* what callers write: sequences of bytes
          Offsets,      \* where WriteAt is asked to write
          MaxLength     \* bound: bytes in the file, and bytes Put

ASSUME FileAssumption == /\ Chunks \subseteq Seq(Nat \ {0}) /\ Offsets \subseteq Nat
                         /\ MaxLength \in Nat

VARIABLES kind,         \* which of the two classes
          content, position,
          call,         \* [of, at, data, from, done]: the running call, or how the last one ended
          taken,        \* lesson: every byte the kernel took, in order
          readFailed    \* a Read threw, and left position behind the end

fileVars == <<kind, content, position, call, taken, readFailed>>

Call(of, at, data, from) == [of |-> of, at |-> at, data |-> data, from |-> from, done |-> 0]

\* The constructors: O_TRUNC in one class only.
OpenTruncated == kind = "lesson" /\ content = <<>>
OpenFile_     == kind = "drill" /\ content \in {<<>>, <<0, 0>>}
FileInit == /\ OpenTruncated \/ OpenFile_
            /\ position = 0 /\ call = Call("open", "returned", <<>>, 0)
            /\ taken = <<>> /\ readFailed = FALSE

Between == call.at \notin {"writing", "reading"}      \* no call is running
Written(file, from, bytes) ==                         \* past the end it leaves a hole of zeros
    [i \in 1..(IF Len(file) > from + Len(bytes) THEN Len(file) ELSE from + Len(bytes)) |->
        IF i > from /\ i <= from + Len(bytes) THEN bytes[i - from]
        ELSE IF i <= Len(file) THEN file[i] ELSE 0]

Begun(data) == IF data = <<>> THEN "wrote" ELSE "writing"   \* no bytes, no turn of the loop

\* Put and Write: from wherever the descriptor is.
WriteHere(of) ==
    /\ Between
    /\ \E data \in Chunks : /\ position + Len(data) <= MaxLength
                            /\ Len(taken) + Len(data) <= MaxLength
                            /\ call' = Call(of, Begun(data), data, position)
    /\ UNCHANGED <<kind, content, position, taken, readFailed>>
Put   == kind = "lesson" /\ WriteHere("Put")
Write == kind = "drill" /\ WriteHere("Write")

\* WriteAt: lseek first, and nothing is written when it fails.
WriteAt == /\ Between /\ kind = "drill"
           /\ \E data \in Chunks, offset \in Offsets :
                /\ offset + Len(data) <= MaxLength
                /\ \/ position' = offset /\ call' = Call("WriteAt", Begun(data), data, offset)
                   \/ position' = position /\ call' = Call("WriteAt", "threw", data, offset)
           /\ UNCHANGED <<kind, content, taken, readFailed>>

\* write() gives back n > 0: the loop goes on from data + done, and returns at the end.
\* Mutant: it goes on from data.
WriteSomeAgain == /\ call.at = "writing"
                  /\ \E n \in 1..Len(call.data) - call.done :
                       LET bytes == SubSeq(call.data, 1, n) IN
                       /\ content' = Written(content, position, bytes)
                       /\ position' = position + n
                       /\ taken' = IF kind = "lesson" THEN taken \o bytes ELSE taken
                       /\ call' = [call EXCEPT !.done = @ + n,
                                     !.at = IF call.done + n = Len(call.data) THEN "wrote" ELSE "writing"]
                  /\ UNCHANGED <<kind, readFailed>>
WriteSome == /\ call.at = "writing"
             /\ \E n \in 1..Len(call.data) - call.done :
                  LET bytes == SubSeq(call.data, call.done + 1, call.done + n) IN
                  /\ content' = Written(content, position, bytes)
                  /\ position' = position + n
                  /\ taken' = IF kind = "lesson" THEN taken \o bytes ELSE taken
                  /\ call' = [call EXCEPT !.done = @ + n,
                                !.at = IF call.done + n = Len(call.data) THEN "wrote" ELSE "writing"]
             /\ UNCHANGED <<kind, readFailed>>

\* The three write loops, which do the same.
write_chunk == call.of = "Put" /\ WriteSome
Write_      == call.of = "Write" /\ WriteSome
WriteAt_    == call.of = "WriteAt" /\ WriteSome

\* EINTR, for write and read: once more, nothing has moved.
Interrupted == ~Between /\ UNCHANGED fileVars

\* Any other error, or a write of no bytes, throws; what was written so far stays.
WriteFails == /\ call.at = "writing" /\ call' = [call EXCEPT !.at = "threw"]
              /\ UNCHANGED <<kind, content, position, taken, readFailed>>

\* Read: from the start, chunk after chunk until read() gives 0.
Read == /\ Between /\ kind = "lesson"
        /\ \/ position' = 0 /\ call' = Call("Read", "reading", <<>>, 0)
           \/ position' = position /\ call' = Call("Read", "threw", <<>>, 0)
        /\ UNCHANGED <<kind, content, taken, readFailed>>

ReadChunk == /\ call.at = "reading" /\ position < Len(content)
             /\ \E n \in 1..Len(content) - position :
                  /\ call' = [call EXCEPT !.data = @ \o SubSeq(content, position + 1, position + n)]
                  /\ position' = position + n
             /\ UNCHANGED <<kind, content, taken, readFailed>>

ReadEnd == /\ call.at = "reading" /\ position = Len(content)
           /\ call' = [call EXCEPT !.at = "read"]
           /\ UNCHANGED <<kind, content, position, taken, readFailed>>

ReadFails == /\ call.at = "reading" /\ call' = [call EXCEPT !.at = "threw"]
             /\ readFailed' = (readFailed \/ position < Len(content))
             /\ UNCHANGED <<kind, content, position, taken>>

FileNext == \/ Put \/ Write \/ WriteAt \/ write_chunk \/ Write_ \/ WriteAt_
            \/ WriteFails \/ Interrupted
            \/ Read \/ ReadChunk \/ ReadEnd \/ ReadFails

-----------------------------------------------------------------------------
\* However the kernel cuts the writes and the reads, and whatever failed in between: a
\* write that returned has its bytes, all of them and in order, where it began; a Read
\* that returned has the whole file; and the lesson's file is the bytes of its Puts one
\* after the other, a Put that threw having left a first part.  A Read that throws half way
\* ends that: it leaves the descriptor in the middle, and the next Put overwrites.
FileHoldsWhatWasWritten ==
    /\ call.at = "wrote" => SubSeq(content, call.from + 1, call.from + Len(call.data)) = call.data
    /\ call.at = "read" => call.data = content
    /\ kind = "lesson" /\ ~readFailed => content = taken
=============================================================================

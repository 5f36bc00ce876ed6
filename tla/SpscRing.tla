------------------------------ MODULE SpscRing ------------------------------
(***************************************************************************)
(* The lock-free push and pop of ringbuffer.hpp, for one producer and one  *)
(* consumer: no mutex, so each access to an index is a step.  The indices  *)
(* are machine words: IndexValues of them (2^64), after which the next     *)
(* one is 0 again.                                                         *)
(***************************************************************************)
EXTENDS Integers

CONSTANTS SIZE,          \* slots
          IndexValues,   \* the values of a size_t
          MaxPushes      \* bound: items the producer offers with success

ASSUME RingAssumption == /\ SIZE \in Nat \ {0} /\ IndexValues \in Nat
                         /\ IndexValues >= 2 * SIZE
                         /\ IndexValues % SIZE = 0 /\ MaxPushes \in Nat

VARIABLES write_index, read_index, slots,
          producer,     \* [at, write, read]: where push is, and what it has loaded
          consumer,     \* [at, read, write, item] of pop
          pushed, popped,  \* how many items have gone in and out
          refused       \* what a call that returned false last saw: "", "full" or "empty"

ringVars == <<write_index, read_index, slots, producer, consumer, pushed, popped, refused>>

Slot(index) == index % SIZE        \* index & (SIZE - 1), SIZE a power of 2
\* size_t arithmetic.
Plus1(x) == IF x + 1 = IndexValues THEN 0 ELSE x + 1
Minus(x, y) == IF x >= y THEN x - y ELSE x - y + IndexValues

\* The two tests, on the indices as loaded.
FullTestSigned(write, read) == write >= read + SIZE     \* mutant: compared, not subtracted
FullTest(write, read)  == Minus(write, read) >= SIZE
EmptyTest(read, write) == read >= write

RingInit == /\ write_index = 0 /\ read_index = 0
            /\ slots = [s \in 0..SIZE - 1 |-> 0]
            /\ producer = [at |-> "idle", write |-> 0]
            /\ consumer = [at |-> "idle", read |-> 0, item |-> 0]
            /\ pushed = 0 /\ popped = 0 /\ refused = ""

\* The item is its number: the pushed + 1st.
PushLoadWrite == /\ producer.at = "idle" /\ pushed < MaxPushes
                 /\ producer' = [at |-> "loadRead", write |-> write_index]
                 /\ UNCHANGED <<write_index, read_index, slots, consumer, pushed, popped, refused>>

PushLoadRead == /\ producer.at = "loadRead"
                /\ IF FullTest(producer.write, read_index)
                     THEN /\ producer' = [producer EXCEPT !.at = "idle"]
                          /\ refused' = "full"
                     ELSE /\ producer' = [producer EXCEPT !.at = "fill"]
                          /\ refused' = ""
                /\ UNCHANGED <<write_index, read_index, slots, consumer, pushed, popped>>

PushFill == /\ producer.at = "fill"
            /\ slots' = [slots EXCEPT ![Slot(producer.write)] = pushed + 1]
            /\ producer' = [producer EXCEPT !.at = "publish"]
            /\ refused' = ""
            /\ UNCHANGED <<write_index, read_index, consumer, pushed, popped>>

PushPublish == /\ producer.at = "publish"
               /\ write_index' = Plus1(producer.write)
               /\ pushed' = pushed + 1
               /\ producer' = [producer EXCEPT !.at = "idle"]
               /\ refused' = ""
               /\ UNCHANGED <<read_index, slots, consumer, popped>>

PopLoadRead == /\ consumer.at = "idle"
               /\ consumer' = [consumer EXCEPT !.at = "loadWrite", !.read = read_index]
               /\ UNCHANGED <<write_index, read_index, slots, producer, pushed, popped, refused>>

PopLoadWrite == /\ consumer.at = "loadWrite"
                /\ IF EmptyTest(consumer.read, write_index)
                     THEN /\ consumer' = [consumer EXCEPT !.at = "idle"]
                          /\ refused' = "empty"
                     ELSE /\ consumer' = [consumer EXCEPT !.at = "take"]
                          /\ refused' = ""
                /\ UNCHANGED <<write_index, read_index, slots, producer, pushed, popped>>

PopTake == /\ consumer.at = "take"
           /\ consumer' = [consumer EXCEPT !.at = "release", !.item = slots[Slot(consumer.read)]]
           /\ refused' = ""
           /\ UNCHANGED <<write_index, read_index, slots, producer, pushed, popped>>

PopRelease == /\ consumer.at = "release"
              /\ read_index' = Plus1(consumer.read)
              /\ popped' = popped + 1
              /\ consumer' = [consumer EXCEPT !.at = "idle"]
              /\ refused' = ""
              /\ UNCHANGED <<write_index, slots, producer, pushed>>

RingNext == \/ PushLoadWrite \/ PushLoadRead \/ PushFill \/ PushPublish
            \/ PopLoadRead \/ PopLoadWrite \/ PopTake \/ PopRelease

-----------------------------------------------------------------------------
Wrapped == pushed >= IndexValues

\* With no lock between them: the item pop returns is the next one in order, taken before
\* push may write its slot again; and until write_index has gone through all its values
\* once, a call returns false only when the buffer really was full, or really was empty.
\* From then on pop's test compares where push's subtracts, and finds nothing.
LockFreeFifo ==
    /\ consumer.at = "release" => consumer.item = popped + 1
    /\ popped <= pushed /\ pushed - popped <= SIZE
    /\ refused = "full" => pushed - popped = SIZE
    /\ refused = "empty" => pushed = popped \/ Wrapped
=============================================================================

----------------------------- MODULE RingBuffer -----------------------------
(***************************************************************************)
(* RingBuffer<T, SIZE>::push_blocking and ::pop_blocking, the two calls    *)
(* every stage of the indexing pipeline uses, at the grain at which the    *)
(* threads interleave: acquire the mutex, test the predicate, park on the  *)
(* condition variable or touch the slot, move the index, unlock, notify.   *)
(*                                                                         *)
(* A thread is a producer or a consumer and makes Calls[t] calls.  The     *)
(* indices count up from 0 and are never reduced; they are size_t in the   *)
(* code, so the module speaks of runs of fewer than 2^64 pushes.           *)
(***************************************************************************)
EXTENDS Integers, Sequences

CONSTANTS Producers, Consumers,   \* the threads that call push_blocking, pop_blocking
          Items,                  \* the values pushed
          Size,                   \* SIZE, the number of slots
          Calls,                  \* [Threads -> Nat], how many calls a thread makes
          NoThread,               \* the holder of a free mutex
          NoItem                  \* a slot never written

Threads == Producers \cup Consumers

ASSUME SizeAssumption == Size \in Nat \ {0}
ASSUME ThreadAssumption == /\ Producers \cap Consumers = {}
                           /\ NoThread \notin Threads
                           /\ NoItem \notin Items
ASSUME CallsAssumption == Calls \in [Threads -> Nat]

VARIABLES write_index, read_index, slots,
          mtx,         \* the thread that holds the mutex, or NoThread
          not_full,    \* the threads parked on the condition variable not_full
          not_empty,   \* the threads parked on not_empty
          pc,          \* where each thread is in its call
          item,        \* the argument of a push, the out parameter of a pop
          made,        \* the calls each thread has completed
          delivered    \* the items pop_blocking has taken, in order

vars == <<write_index, read_index, slots, mtx, not_full, not_empty, pc, item,
          made, delivered>>
indices == <<write_index, read_index>>
queues  == <<not_full, not_empty>>

-----------------------------------------------------------------------------
SlotOf(index) == index % Size          \* index & (SIZE - 1), SIZE a power of 2

\* Mutant: the full test lets one push too many through.
RoomOffByOne == write_index - read_index <= Size

Room     == write_index - read_index < Size   \* the predicate of not_full.wait
NonEmpty == read_index < write_index          \* the predicate of not_empty.wait

\* The buffer's contents, oldest first: what the slots between the indices hold.
Contents == [i \in 1 .. write_index - read_index |->
               slots[SlotOf(read_index + i - 1)]]

Init == /\ write_index = 0
        /\ read_index = 0
        /\ slots = [s \in 0 .. Size - 1 |-> NoItem]
        /\ mtx = NoThread
        /\ not_full = {}
        /\ not_empty = {}
        /\ pc = [t \in Threads |-> "idle"]
        /\ item = [t \in Threads |-> NoItem]
        /\ made = [t \in Threads |-> 0]
        /\ delivered = <<>>

Goto(t, label) == pc' = [pc EXCEPT ![t] = label]

\* The thread calls push_blocking(i), or pop_blocking.
CallPush(p) == /\ pc[p] = "idle" /\ made[p] < Calls[p]
               /\ \E i \in Items : item' = [item EXCEPT ![p] = i]
               /\ Goto(p, "lock")
               /\ UNCHANGED <<indices, slots, mtx, queues, made, delivered>>

CallPop(c) == /\ pc[c] = "idle" /\ made[c] < Calls[c]
              /\ Goto(c, "lock")
              /\ UNCHANGED <<indices, slots, mtx, queues, item, made, delivered>>

\* std::unique_lock at the start of the call, or the condition variable taking
\* the mutex back after a wake-up: both go on to evaluate the predicate.
Lock(t) == /\ pc[t] = "lock" /\ mtx = NoThread
           /\ mtx' = t
           /\ Goto(t, "test")
           /\ UNCHANGED <<indices, slots, queues, item, made, delivered>>

\* The predicate holds: the wait returns with the mutex held.
ProceedPush(p) == /\ pc[p] = "test" /\ Room
                  /\ Goto(p, "store")
                  /\ UNCHANGED <<indices, slots, mtx, queues, item, made, delivered>>

ProceedPop(c) == /\ pc[c] = "test" /\ NonEmpty
                 /\ Goto(c, "load")
                 /\ UNCHANGED <<indices, slots, mtx, queues, item, made, delivered>>

\* It does not: the thread parks and releases the mutex in one step.
ParkPush(p) == /\ pc[p] = "test" /\ ~Room
               /\ not_full' = not_full \cup {p}
               /\ mtx' = NoThread
               /\ Goto(p, "parked")
               /\ UNCHANGED <<indices, slots, not_empty, item, made, delivered>>

ParkPop(c) == /\ pc[c] = "test" /\ ~NonEmpty
              /\ not_empty' = not_empty \cup {c}
              /\ mtx' = NoThread
              /\ Goto(c, "parked")
              /\ UNCHANGED <<indices, slots, not_full, item, made, delivered>>

\* A condition variable may wake a thread that nobody notified.
Spurious(t) == /\ pc[t] = "parked"
               /\ not_full' = not_full \ {t}
               /\ not_empty' = not_empty \ {t}
               /\ Goto(t, "lock")
               /\ UNCHANGED <<indices, slots, mtx, item, made, delivered>>

\* Mutant: the slot after the one that will be published.
StoreNextSlot(p) == /\ pc[p] = "store"
                    /\ slots' = [slots EXCEPT ![SlotOf(write_index + 1)] = item[p]]
                    /\ Goto(p, "publish")
                    /\ UNCHANGED <<indices, mtx, queues, item, made, delivered>>

\* slots[write & (SIZE - 1)] = item, then write_index.store(write + 1).
StoreSlot(p) == /\ pc[p] = "store"
                /\ slots' = [slots EXCEPT ![SlotOf(write_index)] = item[p]]
                /\ Goto(p, "publish")
                /\ UNCHANGED <<indices, mtx, queues, item, made, delivered>>

Publish(p) == /\ pc[p] = "publish"
              /\ write_index' = write_index + 1
              /\ Goto(p, "unlock")
              /\ UNCHANGED <<read_index, slots, mtx, queues, item, made, delivered>>

\* Mutant: the newest item instead of the oldest.
LoadNewest(c) == /\ pc[c] = "load"
                 /\ item' = [item EXCEPT ![c] = slots[SlotOf(write_index - 1)]]
                 /\ Goto(c, "advance")
                 /\ UNCHANGED <<indices, slots, mtx, queues, made, delivered>>

\* item = slots[read & (SIZE - 1)], then read_index.store(read + 1).
LoadSlot(c) == /\ pc[c] = "load"
               /\ item' = [item EXCEPT ![c] = slots[SlotOf(read_index)]]
               /\ Goto(c, "advance")
               /\ UNCHANGED <<indices, slots, mtx, queues, made, delivered>>

Advance(c) == /\ pc[c] = "advance"
              /\ read_index' = read_index + 1
              /\ delivered' = Append(delivered, item[c])
              /\ Goto(c, "unlock")
              /\ UNCHANGED <<write_index, slots, mtx, queues, item, made>>

Unlock(t) == /\ pc[t] = "unlock"
             /\ mtx' = NoThread
             /\ Goto(t, "notify")
             /\ UNCHANGED <<indices, slots, queues, item, made, delivered>>

\* notify_one, after the mutex is released: wakes one parked thread, any of
\* them, or does nothing when none is parked.  The call returns.
Returns(t) == made' = [made EXCEPT ![t] = @ + 1]

\* Mutant: push_blocking forgets to notify.
ForgetNotEmpty(p) == /\ pc[p] = "notify"
                     /\ Goto(p, "idle")
                     /\ Returns(p)
                     /\ UNCHANGED <<indices, slots, mtx, queues, item, delivered>>

NotifyNotEmpty(p) ==
  /\ pc[p] = "notify"
  /\ \/ /\ not_empty = {}
        /\ UNCHANGED not_empty
        /\ Goto(p, "idle")
     \/ \E t \in not_empty :
          /\ not_empty' = not_empty \ {t}
          /\ pc' = [pc EXCEPT ![p] = "idle", ![t] = "lock"]
  /\ Returns(p)
  /\ UNCHANGED <<indices, slots, mtx, not_full, item, delivered>>

NotifyNotFull(c) ==
  /\ pc[c] = "notify"
  /\ \/ /\ not_full = {}
        /\ UNCHANGED not_full
        /\ Goto(c, "idle")
     \/ \E t \in not_full :
          /\ not_full' = not_full \ {t}
          /\ pc' = [pc EXCEPT ![c] = "idle", ![t] = "lock"]
  /\ Returns(c)
  /\ UNCHANGED <<indices, slots, mtx, not_empty, item, delivered>>

-----------------------------------------------------------------------------
PushStep(p) == \/ CallPush(p) \/ Lock(p) \/ ProceedPush(p) \/ ParkPush(p)
               \/ StoreSlot(p) \/ Publish(p) \/ Unlock(p) \/ NotifyNotEmpty(p)

PopStep(c) == \/ CallPop(c) \/ Lock(c) \/ ProceedPop(c) \/ ParkPop(c)
              \/ LoadSlot(c) \/ Advance(c) \/ Unlock(c) \/ NotifyNotFull(c)

AllReturned == \A t \in Threads : pc[t] = "idle" /\ made[t] = Calls[t]

\* Every call has returned: the threads have nothing left to do.
Finished == AllReturned /\ UNCHANGED vars

Next == \/ \E p \in Producers : PushStep(p)
        \/ \E c \in Consumers : PopStep(c)
        \/ \E t \in Threads : Spurious(t)
        \/ Finished

Spec == Init /\ [][Next]_vars

\* The scheduler runs every thread that can take a step, and the platform's
\* spurious wake-ups are not endless.  Nothing is assumed of which thread the
\* mutex or a notify favours.
Fairness == /\ \A p \in Producers : WF_vars(PushStep(p))
            /\ \A c \in Consumers : WF_vars(PopStep(c))
            /\ <>[][\A t \in Threads : ~Spurious(t)]_vars

FairSpec == Spec /\ Fairness

-----------------------------------------------------------------------------
InCriticalSection(t) ==
  pc[t] \in {"test", "store", "publish", "load", "advance", "unlock"}

TypeOK == /\ write_index \in Nat
          /\ read_index \in Nat
          /\ slots \in [0 .. Size - 1 -> Items \cup {NoItem}]
          /\ mtx \in Threads \cup {NoThread}
          /\ not_full \subseteq Producers
          /\ not_empty \subseteq Consumers
          /\ pc \in [Threads -> {"idle", "lock", "test", "parked", "store", "publish",
                                 "load", "advance", "unlock", "notify"}]
          /\ item \in [Threads -> Items \cup {NoItem}]
          /\ made \in [Threads -> Nat]
          /\ delivered \in Seq(Items \cup {NoItem})

\* A slot, an index or a predicate is touched only by the thread that holds the
\* mutex: the blocking calls use relaxed loads because of it.
OwnerInside == \A t \in Threads : InCriticalSection(t) => mtx = t

\* No push overwrites an item that was not popped and no pop runs ahead of the
\* pushes, also between a slot access and the move of its index.
NoOverrun == /\ read_index <= write_index
             /\ write_index - read_index <= Size
             /\ \A t \in Threads :
                  /\ pc[t] \in {"store", "publish"} => write_index - read_index < Size
                  /\ pc[t] \in {"load", "advance"} => read_index < write_index

\* What the proof of the above carries along: a parked thread is in a wait set, a
\* producer's argument and the slot it is about to publish, and what a consumer has
\* loaded, are what the index moves will say they are.
InTransit ==
  /\ \A t \in Threads : (pc[t] = "parked") <=> (t \in not_full \cup not_empty)
  /\ \A p \in Producers :
       pc[p] \in {"lock", "test", "parked", "store", "publish"} => item[p] \in Items
  /\ \A t \in Threads :
       /\ (pc[t] = "publish") => (slots[SlotOf(write_index)] = item[t])
       /\ (pc[t] = "advance") => (slots[SlotOf(read_index)] = item[t])

IndInv == TypeOK /\ OwnerInside /\ NoOverrun /\ InTransit

\* The concurrent buffer implements the bounded FIFO: every item published is
\* delivered once, in order, and never more than Size are held.
Abstract == INSTANCE BoundedQueue WITH Items <- Items, Capacity <- Size,
                                       queue <- Contents, delivered <- delivered
ImplementsBoundedQueue == Abstract!QSpec

\* When producers and consumers make as many calls as each other, every call
\* returns: no notification is lost between a predicate test and the park.
EveryCallReturns == <>AllReturned
=============================================================================

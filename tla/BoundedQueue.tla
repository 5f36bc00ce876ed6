---------------------------- MODULE BoundedQueue ----------------------------
(***************************************************************************)
(* What a queue between two stages of the pipeline promises: a FIFO of at  *)
(* most Capacity items.  Put waits for room, Get waits for an item, each   *)
(* takes effect at one instant.  RingBuffer implements it; the pipeline    *)
(* modules use its two operators on their queues.                          *)
(***************************************************************************)
EXTENDS Naturals, Sequences

CONSTANTS Items, Capacity

VARIABLES queue,      \* the items accepted and not yet delivered, oldest first
          delivered   \* every item delivered so far, in the order of delivery

qvars == <<queue, delivered>>

QInit == queue = <<>> /\ delivered = <<>>

Put(item) == /\ Len(queue) < Capacity
             /\ queue' = Append(queue, item)
             /\ UNCHANGED delivered

Get == /\ queue # <<>>
       /\ queue' = Tail(queue)
       /\ delivered' = Append(delivered, Head(queue))

QNext == Get \/ \E item \in Items : Put(item)

QSpec == QInit /\ [][QNext]_qvars
=============================================================================

------------------------- MODULE RingBuffer_proofs --------------------------
(***************************************************************************)
(* Proofs about RingBuffer for any threads, any number of calls and any    *)
(* Size: the inductive invariant and the refinement of BoundedQueue.       *)
(***************************************************************************)
EXTENDS RingBuffer, SequenceTheorems, TLAPS

\* Two indices less than Size apart never share a slot: the arithmetic on which
\* the whole buffer rests.
LEMMA SlotInjective ==
  ASSUME NEW a \in Nat, NEW b \in Nat, a < b, b - a < Size
  PROVE  SlotOf(a) # SlotOf(b)
<1> SUFFICES ASSUME a % Size = b % Size PROVE FALSE
  BY DEF SlotOf
<1> DEFINE qa == a \div Size
           qb == b \div Size
<1>1. /\ qa \in Int /\ qb \in Int
      /\ a = Size * qa + (a % Size)
      /\ b = Size * qb + (b % Size)
  BY SizeAssumption
<1> HIDE DEF qa, qb
<1>2. b - a = Size * qb - Size * qa
  BY <1>1, SizeAssumption
<1>3. b - a = Size * (qb - qa)
  BY <1>1, <1>2, SizeAssumption
<1>4. qb - qa >= 1
  <2>1. CASE qb - qa <= 0
    <3>1. Size * (qb - qa) <= 0
      BY <2>1, <1>1, SizeAssumption
    <3> QED BY <3>1, <1>3
  <2> QED BY <2>1, <1>1
<1>5. Size * (qb - qa) >= Size
  BY <1>4, <1>1, SizeAssumption
<1> QED BY <1>3, <1>5, SizeAssumption

\* A slot number is in range.
LEMMA SlotInRange == ASSUME NEW i \in Nat PROVE SlotOf(i) \in 0 .. Size - 1
  BY SizeAssumption DEF SlotOf

-----------------------------------------------------------------------------
\* IInv holds initially.
LEMMA InitIndInv == Init => IndInv
<1> SUFFICES ASSUME Init PROVE IndInv
  OBVIOUS
<1>1. TypeOK
  BY SizeAssumption DEF Init, TypeOK
<1>2. OwnerInside
  BY DEF Init, OwnerInside, InCriticalSection
<1>3. NoOverrun
  BY SizeAssumption DEF Init, NoOverrun
<1>4. InTransit
  BY DEF Init, InTransit, Threads
<1> QED BY <1>1, <1>2, <1>3, <1>4 DEF IndInv

\* Typing is preserved by every step.
LEMMA NextTypeOK == TypeOK /\ [Next]_vars => TypeOK'
<1> SUFFICES ASSUME TypeOK, [Next]_vars PROVE TypeOK'
  OBVIOUS
<1> USE DEF TypeOK, Goto, indices, queues
<1>1. ASSUME NEW p \in Producers, PushStep(p) PROVE TypeOK'
  <2> USE DEF Threads
  <2>1. CASE CallPush(p)        BY <2>1 DEF CallPush
  <2>2. CASE Lock(p)            BY <2>2 DEF Lock
  <2>3. CASE ProceedPush(p)     BY <2>3 DEF ProceedPush
  <2>4. CASE ParkPush(p)        BY <2>4 DEF ParkPush
  <2>5. CASE StoreSlot(p)       BY <2>5, SlotInRange DEF StoreSlot
  <2>6. CASE Publish(p)         BY <2>6 DEF Publish
  <2>7. CASE Unlock(p)          BY <2>7 DEF Unlock
  <2>8. CASE NotifyNotEmpty(p)
    <3>1. CASE not_empty = {}
      BY <2>8, <3>1 DEF NotifyNotEmpty, Returns
    <3>2. ASSUME NEW t \in not_empty, not_empty' = not_empty \ {t},
                 pc' = [pc EXCEPT ![p] = "idle", ![t] = "lock"]
          PROVE  TypeOK'
      <4>1. pc' \in [Threads -> {"idle", "lock", "test", "parked", "store", "publish",
                                "load", "advance", "unlock", "notify"}]
        BY <3>2
      <4> QED BY <2>8, <3>2, <4>1 DEF NotifyNotEmpty, Returns
    <3> QED BY <2>8, <3>1, <3>2 DEF NotifyNotEmpty
  <2> QED BY <1>1, <2>1, <2>2, <2>3, <2>4, <2>5, <2>6, <2>7, <2>8 DEF PushStep
<1>2. ASSUME NEW c \in Consumers, PopStep(c) PROVE TypeOK'
  <2> USE DEF Threads
  <2>1. CASE CallPop(c)         BY <2>1 DEF CallPop
  <2>2. CASE Lock(c)            BY <2>2 DEF Lock
  <2>3. CASE ProceedPop(c)      BY <2>3 DEF ProceedPop
  <2>4. CASE ParkPop(c)         BY <2>4 DEF ParkPop
  <2>5. CASE LoadSlot(c)        BY <2>5, SlotInRange DEF LoadSlot
  <2>6. CASE Advance(c)         BY <2>6 DEF Advance
  <2>7. CASE Unlock(c)          BY <2>7 DEF Unlock
  <2>8. CASE NotifyNotFull(c)
    <3>1. CASE not_full = {}
      BY <2>8, <3>1 DEF NotifyNotFull, Returns
    <3>2. ASSUME NEW t \in not_full, not_full' = not_full \ {t},
                 pc' = [pc EXCEPT ![c] = "idle", ![t] = "lock"]
          PROVE  TypeOK'
      <4>1. pc' \in [Threads -> {"idle", "lock", "test", "parked", "store", "publish",
                                "load", "advance", "unlock", "notify"}]
        BY <3>2
      <4> QED BY <2>8, <3>2, <4>1 DEF NotifyNotFull, Returns
    <3> QED BY <2>8, <3>1, <3>2 DEF NotifyNotFull
  <2> QED BY <1>2, <2>1, <2>2, <2>3, <2>4, <2>5, <2>6, <2>7, <2>8 DEF PopStep
<1>3. ASSUME NEW t \in Threads, Spurious(t) PROVE TypeOK'
  BY <1>3 DEF Spurious
<1>4. CASE UNCHANGED vars
  BY <1>4 DEF vars
<1> QED BY <1>1, <1>2, <1>3, <1>4 DEF Next, Finished

\* Every step preserves the invariant.
LEMMA NextIndInv == IndInv /\ [Next]_vars => IndInv'
<1> SUFFICES ASSUME IndInv, [Next]_vars
             PROVE  OwnerInside' /\ NoOverrun' /\ InTransit'
  BY NextTypeOK DEF IndInv
<1>0. TypeOK /\ OwnerInside /\ NoOverrun /\ InTransit /\ TypeOK'
  BY NextTypeOK DEF IndInv
<1> USE <1>0, ThreadAssumption DEF TypeOK, Goto, indices, queues
<1>1. ASSUME NEW p \in Producers, PushStep(p)
      PROVE  OwnerInside' /\ NoOverrun' /\ InTransit'
  <2> USE DEF Threads
  <2>1. CASE CallPush(p)
    <3>1. OwnerInside'  BY <2>1 DEF CallPush, OwnerInside, InCriticalSection
    <3>2. NoOverrun'    BY <2>1, SizeAssumption DEF CallPush, OwnerInside, InCriticalSection, NoOverrun
    <3>3. InTransit'    BY <2>1 DEF CallPush, OwnerInside, InCriticalSection, NoOverrun, InTransit
    <3> QED BY <3>1, <3>2, <3>3
  <2>2. CASE Lock(p)
    <3>1. OwnerInside'  BY <2>2 DEF Lock, OwnerInside, InCriticalSection
    <3>2. NoOverrun'    BY <2>2, SizeAssumption DEF Lock, OwnerInside, InCriticalSection, NoOverrun
    <3>3. InTransit'    BY <2>2 DEF Lock, OwnerInside, InCriticalSection, NoOverrun, InTransit
    <3> QED BY <3>1, <3>2, <3>3
  <2>3. CASE ProceedPush(p)
    <3>1. OwnerInside'  BY <2>3 DEF ProceedPush, Room, OwnerInside, InCriticalSection
    <3>2. NoOverrun'    BY <2>3, SizeAssumption DEF ProceedPush, Room, OwnerInside, InCriticalSection, NoOverrun
    <3>3. InTransit'    BY <2>3 DEF ProceedPush, Room, OwnerInside, InCriticalSection, NoOverrun, InTransit
    <3> QED BY <3>1, <3>2, <3>3
  <2>4. CASE ParkPush(p)
    <3>1. OwnerInside'  BY <2>4 DEF ParkPush, OwnerInside, InCriticalSection
    <3>2. NoOverrun'    BY <2>4, SizeAssumption DEF ParkPush, OwnerInside, InCriticalSection, NoOverrun
    <3>3. InTransit'    BY <2>4 DEF ParkPush, OwnerInside, InCriticalSection, NoOverrun, InTransit
    <3> QED BY <3>1, <3>2, <3>3
  <2>5. CASE StoreSlot(p)
    <3>1. OwnerInside'  BY <2>5 DEF StoreSlot, OwnerInside, InCriticalSection
    <3>2. NoOverrun'    BY <2>5, SizeAssumption DEF StoreSlot, OwnerInside, InCriticalSection, NoOverrun
    <3>3. InTransit'    BY <2>5 DEF StoreSlot, OwnerInside, InCriticalSection, NoOverrun, InTransit
    <3> QED BY <3>1, <3>2, <3>3
  <2>6. CASE Publish(p)
    <3>1. OwnerInside'  BY <2>6 DEF Publish, OwnerInside, InCriticalSection
    <3>2. NoOverrun'    BY <2>6, SizeAssumption DEF Publish, OwnerInside, InCriticalSection, NoOverrun
    <3>3. InTransit'    BY <2>6 DEF Publish, OwnerInside, InCriticalSection, NoOverrun, InTransit
    <3> QED BY <3>1, <3>2, <3>3
  <2>7. CASE Unlock(p)
    <3>1. OwnerInside'  BY <2>7 DEF Unlock, OwnerInside, InCriticalSection
    <3>2. NoOverrun'    BY <2>7, SizeAssumption DEF Unlock, OwnerInside, InCriticalSection, NoOverrun
    <3>3. InTransit'    BY <2>7 DEF Unlock, OwnerInside, InCriticalSection, NoOverrun, InTransit
    <3> QED BY <3>1, <3>2, <3>3
  <2>8. CASE NotifyNotEmpty(p)
    <3>1. OwnerInside'  BY <2>8 DEF NotifyNotEmpty, OwnerInside, InCriticalSection
    <3>2. NoOverrun'    BY <2>8, SizeAssumption DEF NotifyNotEmpty, OwnerInside, InCriticalSection, NoOverrun
    <3>3. InTransit'
      <4>1. CASE not_empty = {}
        BY <2>8, <4>1 DEF NotifyNotEmpty, InTransit
      <4>2. ASSUME NEW t \in not_empty, not_empty' = not_empty \ {t},
                   pc' = [pc EXCEPT ![p] = "idle", ![t] = "lock"]
            PROVE  InTransit'
        <5>1. pc[t] = "parked" /\ t # p
          BY <2>8, <4>2 DEF NotifyNotEmpty, InTransit
        <5>2. \A u \in Threads : pc'[u] = IF u = t THEN "lock"
                                          ELSE IF u = p THEN "idle" ELSE pc[u]
          BY <4>2, <5>1
        <5> QED BY <2>8, <4>2, <5>1, <5>2 DEF NotifyNotEmpty, InTransit
      <4> QED BY <2>8, <4>1, <4>2 DEF NotifyNotEmpty
    <3> QED BY <3>1, <3>2, <3>3
  <2> QED BY <1>1, <2>1, <2>2, <2>3, <2>4, <2>5, <2>6, <2>7, <2>8 DEF PushStep
<1>2. ASSUME NEW c \in Consumers, PopStep(c)
      PROVE  OwnerInside' /\ NoOverrun' /\ InTransit'
  <2> USE DEF Threads
  <2>1. CASE CallPop(c)
    <3>1. OwnerInside'  BY <2>1 DEF CallPop, OwnerInside, InCriticalSection
    <3>2. NoOverrun'    BY <2>1, SizeAssumption DEF CallPop, OwnerInside, InCriticalSection, NoOverrun
    <3>3. InTransit'    BY <2>1 DEF CallPop, OwnerInside, InCriticalSection, NoOverrun, InTransit
    <3> QED BY <3>1, <3>2, <3>3
  <2>2. CASE Lock(c)
    <3>1. OwnerInside'  BY <2>2 DEF Lock, OwnerInside, InCriticalSection
    <3>2. NoOverrun'    BY <2>2, SizeAssumption DEF Lock, OwnerInside, InCriticalSection, NoOverrun
    <3>3. InTransit'    BY <2>2 DEF Lock, OwnerInside, InCriticalSection, NoOverrun, InTransit
    <3> QED BY <3>1, <3>2, <3>3
  <2>3. CASE ProceedPop(c)
    <3>1. OwnerInside'  BY <2>3 DEF ProceedPop, NonEmpty, OwnerInside, InCriticalSection
    <3>2. NoOverrun'    BY <2>3, SizeAssumption DEF ProceedPop, NonEmpty, OwnerInside, InCriticalSection, NoOverrun
    <3>3. InTransit'    BY <2>3 DEF ProceedPop, NonEmpty, OwnerInside, InCriticalSection, NoOverrun, InTransit
    <3> QED BY <3>1, <3>2, <3>3
  <2>4. CASE ParkPop(c)
    <3>1. OwnerInside'  BY <2>4 DEF ParkPop, OwnerInside, InCriticalSection
    <3>2. NoOverrun'    BY <2>4, SizeAssumption DEF ParkPop, OwnerInside, InCriticalSection, NoOverrun
    <3>3. InTransit'    BY <2>4 DEF ParkPop, OwnerInside, InCriticalSection, NoOverrun, InTransit
    <3> QED BY <3>1, <3>2, <3>3
  <2>5. CASE LoadSlot(c)
    <3>1. OwnerInside'  BY <2>5 DEF LoadSlot, OwnerInside, InCriticalSection
    <3>2. NoOverrun'    BY <2>5, SizeAssumption DEF LoadSlot, OwnerInside, InCriticalSection, NoOverrun
    <3>3. InTransit'    BY <2>5 DEF LoadSlot, OwnerInside, InCriticalSection, NoOverrun, InTransit
    <3> QED BY <3>1, <3>2, <3>3
  <2>6. CASE Advance(c)
    <3>1. OwnerInside'  BY <2>6 DEF Advance, OwnerInside, InCriticalSection
    <3>2. NoOverrun'    BY <2>6, SizeAssumption DEF Advance, OwnerInside, InCriticalSection, NoOverrun
    <3>3. InTransit'    BY <2>6 DEF Advance, OwnerInside, InCriticalSection, NoOverrun, InTransit
    <3> QED BY <3>1, <3>2, <3>3
  <2>7. CASE Unlock(c)
    <3>1. OwnerInside'  BY <2>7 DEF Unlock, OwnerInside, InCriticalSection
    <3>2. NoOverrun'    BY <2>7, SizeAssumption DEF Unlock, OwnerInside, InCriticalSection, NoOverrun
    <3>3. InTransit'    BY <2>7 DEF Unlock, OwnerInside, InCriticalSection, NoOverrun, InTransit
    <3> QED BY <3>1, <3>2, <3>3
  <2>8. CASE NotifyNotFull(c)
    <3>1. OwnerInside'  BY <2>8 DEF NotifyNotFull, OwnerInside, InCriticalSection
    <3>2. NoOverrun'    BY <2>8, SizeAssumption DEF NotifyNotFull, OwnerInside, InCriticalSection, NoOverrun
    <3>3. InTransit'
      <4>1. CASE not_full = {}
        BY <2>8, <4>1 DEF NotifyNotFull, InTransit
      <4>2. ASSUME NEW t \in not_full, not_full' = not_full \ {t},
                   pc' = [pc EXCEPT ![c] = "idle", ![t] = "lock"]
            PROVE  InTransit'
        <5>1. pc[t] = "parked" /\ t # c
          BY <2>8, <4>2 DEF NotifyNotFull, InTransit
        <5>2. \A u \in Threads : pc'[u] = IF u = t THEN "lock"
                                          ELSE IF u = c THEN "idle" ELSE pc[u]
          BY <4>2, <5>1
        <5> QED BY <2>8, <4>2, <5>1, <5>2 DEF NotifyNotFull, InTransit
      <4> QED BY <2>8, <4>1, <4>2 DEF NotifyNotFull
    <3> QED BY <3>1, <3>2, <3>3
  <2> QED BY <1>2, <2>1, <2>2, <2>3, <2>4, <2>5, <2>6, <2>7, <2>8 DEF PopStep
<1>3. ASSUME NEW t \in Threads, Spurious(t)
      PROVE  OwnerInside' /\ NoOverrun' /\ InTransit'
  BY <1>3 DEF Spurious, OwnerInside, InCriticalSection, NoOverrun, InTransit
<1>4. CASE UNCHANGED vars
  BY <1>4 DEF vars, OwnerInside, InCriticalSection, NoOverrun, InTransit
<1> QED BY <1>1, <1>2, <1>3, <1>4 DEF Next, Finished

\* In every reachable state, whatever the threads, the calls and Size: the types,
\* one thread at a time inside push_blocking and pop_blocking, and no overrun.
THEOREM RingBufferInvariant == Spec => []IndInv
<1>1. Init => IndInv
  BY InitIndInv
<1>2. IndInv /\ [Next]_vars => IndInv'
  BY NextIndInv
<1> QED BY <1>1, <1>2, PTL DEF Spec

THEOREM RingBufferNoOverrun == Spec => [](OwnerInside /\ NoOverrun)
<1>1. IndInv => OwnerInside /\ NoOverrun
  BY DEF IndInv
<1> QED BY <1>1, RingBufferInvariant, PTL

-----------------------------------------------------------------------------
(* The refinement: which step of the buffer is which step of the FIFO. *)

\* The contents are a sequence as long as the indices are apart.
LEMMA ContentsType ==
  ASSUME IndInv
  PROVE  /\ Contents \in Seq(Items \cup {NoItem})
         /\ Len(Contents) = write_index - read_index
         /\ \A i \in 1 .. write_index - read_index :
              Contents[i] = slots[SlotOf(read_index + i - 1)]
<1> DEFINE n == write_index - read_index
<1>1. n \in Nat
  BY DEF IndInv, TypeOK, NoOverrun
<1>2. \A i \in 1 .. n : read_index + i - 1 \in Nat
  BY <1>1 DEF IndInv, TypeOK
<1>3. \A i \in 1 .. n : slots[SlotOf(read_index + i - 1)] \in Items \cup {NoItem}
  BY <1>2, SlotInRange DEF IndInv, TypeOK
<1>4. Contents \in [1 .. n -> Items \cup {NoItem}]
  BY <1>3 DEF Contents
<1>5. Contents \in Seq(Items \cup {NoItem}) /\ Len(Contents) = n
  BY <1>1, <1>4
<1> QED BY <1>5 DEF Contents

\* Filling the free slot does not show.
LEMMA StoreSlotStutters ==
  ASSUME IndInv, NEW p \in Producers, StoreSlot(p)
  PROVE  UNCHANGED <<Contents, delivered>>
<1>1. write_index - read_index < Size /\ write_index \in Nat /\ read_index \in Nat
  BY DEF IndInv, TypeOK, NoOverrun, StoreSlot, Threads
<1>2. ASSUME NEW i \in 1 .. write_index - read_index
      PROVE  slots'[SlotOf(read_index + i - 1)] = slots[SlotOf(read_index + i - 1)]
  <2>1. /\ read_index + i - 1 \in Nat
        /\ read_index + i - 1 < write_index
        /\ write_index - (read_index + i - 1) < Size
    BY <1>1, SizeAssumption
  <2>2. SlotOf(read_index + i - 1) # SlotOf(write_index)
    BY <1>1, <2>1, SlotInjective
  <2> QED BY <1>1, <2>1, <2>2, SlotInRange DEF StoreSlot, IndInv, TypeOK
<1> QED BY <1>2 DEF StoreSlot, Contents, indices

\* Moving the write index is the FIFO's Put.
LEMMA PublishIsPut ==
  ASSUME IndInv, IndInv', NEW p \in Producers, Publish(p)
  PROVE  Abstract!Put(item[p]) /\ item[p] \in Items
<1> DEFINE n == write_index - read_index
<1>1. /\ n \in Nat /\ n < Size /\ read_index \in Nat /\ write_index \in Nat
      /\ item[p] \in Items
      /\ slots[SlotOf(write_index)] = item[p]
  BY DEF IndInv, TypeOK, NoOverrun, InTransit, Publish, Threads
<1>2. /\ write_index' = write_index + 1
      /\ UNCHANGED <<read_index, slots, delivered>>
  BY DEF Publish
<1>3. /\ Len(Contents) = n
      /\ Contents \in Seq(Items \cup {NoItem})
      /\ \A i \in 1 .. n : Contents[i] = slots[SlotOf(read_index + i - 1)]
  BY ContentsType
<1>4. Contents' = [i \in 1 .. n + 1 |-> slots[SlotOf(read_index + i - 1)]]
  BY <1>1, <1>2 DEF Contents
<1>5. Append(Contents, item[p])
        = [i \in 1 .. n + 1 |-> IF i <= n THEN Contents[i] ELSE item[p]]
  BY <1>1, <1>3
<1>6. \A i \in 1 .. n + 1 : slots[SlotOf(read_index + i - 1)]
                             = IF i <= n THEN Contents[i] ELSE item[p]
  <2> SUFFICES ASSUME NEW i \in 1 .. n + 1
               PROVE  slots[SlotOf(read_index + i - 1)]
                        = IF i <= n THEN Contents[i] ELSE item[p]
    OBVIOUS
  <2>1. CASE i <= n
    BY <2>1, <1>1, <1>3
  <2>2. CASE ~(i <= n)
    <3>1. read_index + i - 1 = write_index
      BY <2>2, <1>1
    <3> QED BY <2>2, <3>1, <1>1
  <2> QED BY <2>1, <2>2
<1>7. Contents' = Append(Contents, item[p])
  BY <1>4, <1>5, <1>6
<1> QED BY <1>1, <1>2, <1>3, <1>7 DEF Abstract!Put

\* Moving the read index is the FIFO's Get.
LEMMA AdvanceIsGet ==
  ASSUME IndInv, IndInv', NEW c \in Consumers, Advance(c)
  PROVE  Abstract!Get
<1> DEFINE n == write_index - read_index
<1>1. /\ n \in Nat /\ n > 0 /\ read_index \in Nat /\ write_index \in Nat
      /\ item[c] = slots[SlotOf(read_index)]
  BY DEF IndInv, TypeOK, NoOverrun, InTransit, Advance, Threads
<1>2. /\ read_index' = read_index + 1
      /\ delivered' = Append(delivered, item[c])
      /\ UNCHANGED <<write_index, slots>>
  BY DEF Advance
<1>3. /\ Len(Contents) = n
      /\ Contents \in Seq(Items \cup {NoItem})
      /\ \A i \in 1 .. n : Contents[i] = slots[SlotOf(read_index + i - 1)]
  BY ContentsType
<1>4. Contents # <<>>
  BY <1>1, <1>3
<1>5. Head(Contents) = item[c]
  <2>1. read_index + 1 - 1 = read_index
    BY <1>1
  <2> QED BY <1>1, <1>3, <1>4, <2>1
<1>6. Contents' = Tail(Contents)
  <2>1. Contents' = [i \in 1 .. n - 1 |-> slots[SlotOf(read_index + 1 + i - 1)]]
    BY <1>1, <1>2 DEF Contents
  <2>2. Tail(Contents) = [i \in 1 .. n - 1 |-> Contents[i + 1]]
    <3>1. /\ Tail(Contents) \in Seq(Items \cup {NoItem})
          /\ Len(Tail(Contents)) = n - 1
          /\ \A i \in 1 .. n - 1 : Tail(Contents)[i] = Contents[i + 1]
      BY <1>1, <1>3, <1>4
    <3>2. Tail(Contents) \in [1 .. n - 1 -> Items \cup {NoItem}]
      BY <3>1, LenProperties
    <3> QED BY <3>1, <3>2
  <2>3. \A i \in 1 .. n - 1 :
          Contents[i + 1] = slots[SlotOf(read_index + 1 + i - 1)]
    <3> SUFFICES ASSUME NEW i \in 1 .. n - 1
                 PROVE  Contents[i + 1] = slots[SlotOf(read_index + 1 + i - 1)]
      OBVIOUS
    <3>1. i + 1 \in 1 .. n /\ read_index + (i + 1) - 1 = read_index + 1 + i - 1
      BY <1>1
    <3> QED BY <1>3, <3>1
  <2> QED BY <2>1, <2>2, <2>3
<1> QED BY <1>2, <1>4, <1>5, <1>6 DEF Abstract!Get

\* Every step of the buffer is a step of the FIFO or changes nothing it shows.
LEMMA StepRefines ==
  IndInv /\ IndInv' /\ [Next]_vars => [Abstract!QNext]_(Abstract!qvars)
<1> SUFFICES ASSUME IndInv, IndInv', [Next]_vars
             PROVE  [Abstract!QNext]_(Abstract!qvars)
  OBVIOUS
<1> USE DEF Abstract!qvars
<1>1. ASSUME NEW p \in Producers, PushStep(p) PROVE [Abstract!QNext]_(Abstract!qvars)
  <2>1. CASE StoreSlot(p)
    BY <2>1, StoreSlotStutters
  <2>2. CASE Publish(p)
    BY <2>2, PublishIsPut DEF Abstract!QNext
  <2>3. CASE \/ CallPush(p) \/ Lock(p) \/ ProceedPush(p) \/ ParkPush(p)
             \/ Unlock(p) \/ NotifyNotEmpty(p)
    BY <2>3 DEF CallPush, Lock, ProceedPush, ParkPush, Unlock, NotifyNotEmpty,
                Contents, indices
  <2> QED BY <1>1, <2>1, <2>2, <2>3 DEF PushStep
<1>2. ASSUME NEW c \in Consumers, PopStep(c) PROVE [Abstract!QNext]_(Abstract!qvars)
  <2>1. CASE Advance(c)
    BY <2>1, AdvanceIsGet DEF Abstract!QNext
  <2>2. CASE \/ CallPop(c) \/ Lock(c) \/ ProceedPop(c) \/ ParkPop(c)
             \/ LoadSlot(c) \/ Unlock(c) \/ NotifyNotFull(c)
    BY <2>2 DEF CallPop, Lock, ProceedPop, ParkPop, LoadSlot, Unlock, NotifyNotFull,
                Contents, indices
  <2> QED BY <1>2, <2>1, <2>2 DEF PopStep
<1>3. ASSUME NEW t \in Threads, Spurious(t) PROVE [Abstract!QNext]_(Abstract!qvars)
  BY <1>3 DEF Spurious, Contents, indices
<1>4. CASE UNCHANGED vars
  BY <1>4 DEF vars, Contents
<1> QED BY <1>1, <1>2, <1>3, <1>4 DEF Next, Finished

\* The buffer implements the bounded FIFO for every Size and any number of
\* producers and consumers.
THEOREM RingBufferRefinesQueue == Spec => ImplementsBoundedQueue
<1>1. Init => Abstract!QInit
  <2> SUFFICES ASSUME Init PROVE Abstract!QInit
    OBVIOUS
  <2>1. Contents = <<>>
    BY InitIndInv, ContentsType DEF Init
  <2> QED BY <2>1 DEF Init, Abstract!QInit
<1>2. IndInv /\ IndInv' /\ [Next]_vars => [Abstract!QNext]_(Abstract!qvars)
  BY StepRefines
<1> QED BY <1>1, <1>2, RingBufferInvariant, PTL
      DEF Spec, ImplementsBoundedQueue, Abstract!QSpec
=============================================================================

--------------------------- MODULE SpscRingProofs ---------------------------
(***************************************************************************)
(* Proofs about SpscRing, for every capacity, counter width and element,   *)
(* and about SpscRingObserver, the size() a third thread calls.            *)
(***************************************************************************)
EXTENDS SpscRingObserver, SequenceTheorems, TLAPS

-----------------------------------------------------------------------------
(* The wrapping counters.                                                  *)

\* Unsigned subtraction of two counters, without the modulus.
LEMMA DistanceValue ==
    ASSUME NEW a \in Counter, NEW b \in Counter
    PROVE  Distance(a, b) = IF a >= b THEN a - b ELSE a - b + CounterMod
BY RingAssumption DEF Distance, Counter

\* Incrementing a counter, without the modulus.
LEMMA IncrementValue ==
    ASSUME NEW a \in Counter
    PROVE  /\ (a + 1) % CounterMod \in Counter
           /\ (a + 1) % CounterMod = IF a + 1 = CounterMod THEN 0 ELSE a + 1
BY RingAssumption DEF Counter

\* The distance of two counters is a counter value, 0 only for equal ones.
LEMMA DistanceRange ==
    ASSUME NEW a \in Counter, NEW b \in Counter
    PROVE  /\ Distance(a, b) \in Counter
           /\ Distance(a, b) = 0 <=> a = b
BY DistanceValue, RingAssumption DEF Counter

\* publish() moves tail one further from head.
LEMMA DistanceGrows ==
    ASSUME NEW a \in Counter, NEW b \in Counter, Distance(a, b) < Capacity
    PROVE  Distance((a + 1) % CounterMod, b) = Distance(a, b) + 1
BY DistanceValue, IncrementValue, RingAssumption DEF Counter

\* The release store of head moves it one closer to tail.
LEMMA DistanceShrinks ==
    ASSUME NEW a \in Counter, NEW b \in Counter, a # b
    PROVE  Distance(a, (b + 1) % CounterMod) = Distance(a, b) - 1
BY DistanceValue, IncrementValue, RingAssumption DEF Counter

\* A counter is a whole number of rings away from its unwrapped value.
LEMMA SlotPeriod ==
    ASSUME NEW x \in Int
    PROVE  SlotOf(x - CounterMod) = SlotOf(x) /\ SlotOf(x) \in 0..(Capacity - 1)
<1>1. PICK k \in Int : CounterMod = Capacity * k
  <2>1. CounterMod = Capacity * (CounterMod \div Capacity)
    BY RingAssumption
  <2>2. CounterMod \div Capacity \in Int
    BY RingAssumption
  <2> QED BY <2>1, <2>2
<1>2. PICK q \in Int, r \in 0..(Capacity - 1) : x = Capacity * q + r
  <2>1. /\ x = Capacity * (x \div Capacity) + (x % Capacity)
        /\ x \div Capacity \in Int
        /\ x % Capacity \in 0..(Capacity - 1)
    BY RingAssumption
  <2> QED BY <2>1
<1>3. x - CounterMod = Capacity * (q - k) + r /\ q - k \in Int
  BY <1>1, <1>2, RingAssumption
<1>4. ASSUME NEW y \in Int
      PROVE  (Capacity * y + r) % Capacity = r
  BY RingAssumption
<1> QED BY <1>2, <1>3, <1>4 DEF SlotOf

\* The slot of tail is the one Distance(tail, head) after the slot of head.
LEMMA SlotOfTail ==
    ASSUME NEW a \in Counter, NEW b \in Counter
    PROVE  SlotOf(a) = SlotOf(b + Distance(a, b))
<1> DEFINE x == b + Distance(a, b)
<1>1. x = a \/ x - CounterMod = a
  BY DistanceValue, RingAssumption DEF Counter
<1>2. x \in Int
  BY DistanceRange, RingAssumption DEF Counter
<1> HIDE DEF x
<1>3. SlotOf(x - CounterMod) = SlotOf(x)
  BY <1>2, SlotPeriod
<1>4. SlotOf(a) = SlotOf(x)
  BY <1>1, <1>3
<1> QED BY <1>4 DEF x

\* After head wrapped, the slots that follow it are the same ones.
LEMMA SlotAfterIncrement ==
    ASSUME NEW a \in Counter, NEW k \in Nat
    PROVE  SlotOf(((a + 1) % CounterMod) + k) = SlotOf(a + 1 + k)
<1>1. CASE a + 1 = CounterMod
  <2> DEFINE x == a + 1 + k
  <2>0. x \in Int
    BY RingAssumption DEF Counter
  <2> HIDE DEF x
  <2>1. SlotOf(x - CounterMod) = SlotOf(x)
    BY <2>0, SlotPeriod
  <2>2. ((a + 1) % CounterMod) + k = x - CounterMod
    BY <1>1, IncrementValue, RingAssumption DEF Counter, x
  <2> QED BY <2>1, <2>2 DEF x
<1>2. CASE a + 1 # CounterMod
  BY <1>2, IncrementValue
<1> QED BY <1>1, <1>2

\* Fewer than Capacity apart, two counter values designate two slots.
LEMMA SlotsDistinct ==
    ASSUME NEW x \in Int, NEW k \in 1..(Capacity - 1)
    PROVE  SlotOf(x) # SlotOf(x + k)
<1>1. /\ x = Capacity * (x \div Capacity) + (x % Capacity)
      /\ x \div Capacity \in Int
      /\ x % Capacity \in 0..(Capacity - 1)
  BY RingAssumption
<1>2. PICK q \in Int, r \in 0..(Capacity - 1) : x = Capacity * q + r
  BY <1>1
<1>3. ASSUME NEW y \in Int, NEW s \in 0..(Capacity - 1)
      PROVE  (Capacity * y + s) % Capacity = s
  BY RingAssumption
<1>4. SlotOf(x) = r
  BY <1>2, <1>3 DEF SlotOf
<1>5. CASE r + k < Capacity
  <2>1. x + k = Capacity * q + (r + k) /\ r + k \in 0..(Capacity - 1)
    BY <1>2, <1>5, RingAssumption
  <2> QED BY <2>1, <1>3, <1>4, RingAssumption DEF SlotOf
<1>6. CASE r + k >= Capacity
  <2>1. /\ x + k = Capacity * (q + 1) + (r + k - Capacity)
        /\ r + k - Capacity \in 0..(Capacity - 1)
        /\ q + 1 \in Int
    BY <1>2, <1>6, RingAssumption
  <2>2. SlotOf(x + k) = r + k - Capacity
    BY <2>1, <1>3 DEF SlotOf
  <2> QED BY <2>2, <1>4, RingAssumption
<1> QED BY <1>5, <1>6, RingAssumption
-----------------------------------------------------------------------------
(* The inductive invariant.                                                *)

\* The producer's copy of tail is current from the first load of try_claim to
\* publish; once a slot is claimed there is room, since head only moves away.
ProducerInv ==
    /\ ppc # "idle" => writeIdx = tail
    /\ ppc = "fill" => Distance(tail, head) < Capacity
    /\ ppc = "fill" => \A w \in filled : slots[SlotOf(tail)][w] = item[w]

\* The consumer's copy of head is current inside try_pop; once an element has
\* been found it stays there, and the words already copied are still those of
\* the slot.
ConsumerInv ==
    /\ cpc # "idle" => readIdx = head
    /\ cpc = "copy" => tail # head
    /\ cpc = "copy" => \A w \in copied : out[w] = slots[SlotOf(head)][w]

IInv == TypeOK /\ ProducerInv /\ ConsumerInv

\* The slot the producer fills is not one of those the consumer may read.
LEMMA ClaimedSlotIsFree ==
    ASSUME TypeOK, Distance(tail, head) < Capacity, NEW k \in 1..Distance(tail, head)
    PROVE  SlotOf(head + k - 1) # SlotOf(tail)
<1> DEFINE x == head + k - 1
           d == Distance(tail, head) - k + 1
<1>1. x \in Int /\ d \in 1..(Capacity - 1) /\ x + d = head + Distance(tail, head)
  BY RingAssumption DEF TypeOK, Counter
<1>2. SlotOf(tail) = SlotOf(head + Distance(tail, head))
  BY SlotOfTail DEF TypeOK
<1> HIDE DEF x, d
<1>3. SlotOf(x) # SlotOf(x + d)
  BY <1>1, SlotsDistinct
<1>4. SlotOf(x) # SlotOf(tail)
  BY <1>1, <1>2, <1>3
<1> QED BY <1>4 DEF x

LEMMA InitIInv == Init => IInv
<1> SUFFICES ASSUME Init PROVE IInv
  OBVIOUS
<1>1. Blank \in Element
  BY RingAssumption DEF Blank, Element
<1>2. 0 \in Counter /\ Distance(0, 0) = 0
  BY RingAssumption, DistanceRange DEF Counter
<1>3. TypeOK
  BY <1>1, <1>2, RingAssumption DEF Init, TypeOK
<1>4. ProducerInv /\ ConsumerInv
  BY DEF Init, ProducerInv, ConsumerInv
<1> QED BY <1>3, <1>4 DEF IInv

\* Every step of the producer preserves the invariant.
LEMMA ProducerStep ==
    ASSUME IInv, Producer
    PROVE  IInv'
<1> USE DEF IInv
<1>1. CASE ClaimLoadTail
  <2>1. TypeOK'
    BY <1>1 DEF ClaimLoadTail, TypeOK, consVars, Distance
  <2>2. ProducerInv'
    BY <1>1 DEF ClaimLoadTail, ProducerInv, consVars
  <2>3. ConsumerInv'
    BY <1>1 DEF ClaimLoadTail, ConsumerInv, consVars
  <2> QED BY <2>1, <2>2, <2>3
<1>2. CASE ClaimFull
  <2>1. TypeOK'
    BY <1>2 DEF ClaimFull, TypeOK, consVars, Distance
  <2>2. ProducerInv'
    BY <1>2 DEF ClaimFull, ProducerInv, consVars
  <2>3. ConsumerInv'
    BY <1>2 DEF ClaimFull, ConsumerInv, consVars
  <2> QED BY <2>1, <2>2, <2>3
<1>3. ASSUME NEW e \in Element, ClaimSlot(e) PROVE IInv'
  <2>1. TypeOK'
    BY <1>3 DEF ClaimSlot, TypeOK, consVars, Distance
  <2>2. Distance(tail, head) < Capacity
    <3>1. Distance(tail, head) # Capacity
      BY <1>3 DEF ClaimSlot, IsFull, ProducerInv
    <3> QED BY <3>1, RingAssumption DEF TypeOK
  <2>3. ProducerInv'
    BY <1>3, <2>2 DEF ClaimSlot, ProducerInv, consVars, Distance
  <2>4. ConsumerInv'
    BY <1>3 DEF ClaimSlot, ConsumerInv, consVars
  <2> QED BY <2>1, <2>3, <2>4
<1>4. ASSUME NEW w \in Word, StoreWord(w) PROVE IInv'
  <2>1. writeIdx = tail /\ SlotOf(tail) \in 0..(Capacity - 1)
    <3>1. tail \in Int
      BY RingAssumption DEF TypeOK, Counter
    <3> QED BY <1>4, <3>1, SlotPeriod DEF StoreWord, ProducerInv
  <2>2. TypeOK'
    BY <1>4, <2>1 DEF StoreWord, TypeOK, consVars, Distance, Element
  <2>3. ProducerInv'
    BY <1>4, <2>1 DEF StoreWord, ProducerInv, consVars, TypeOK, Element, Distance, SlotOf
  <2>4. ConsumerInv'
    <3>1. CASE cpc = "copy"
      <4>1. Distance(tail, head) \in 1..Capacity /\ Distance(tail, head) < Capacity
        BY <1>4, <3>1, DistanceRange, RingAssumption
        DEF StoreWord, ProducerInv, ConsumerInv, TypeOK, Counter
      <4>2. SlotOf(head + 1 - 1) # SlotOf(tail)
        BY <4>1, ClaimedSlotIsFree
      <4>3. head + 1 - 1 = head
        BY RingAssumption DEF TypeOK, Counter
      <4>4. slots'[SlotOf(head)] = slots[SlotOf(head)]
        BY <1>4, <2>1, <4>2, <4>3 DEF StoreWord, TypeOK
      <4> QED BY <1>4, <4>4 DEF StoreWord, ConsumerInv, consVars, SlotOf
    <3>2. CASE cpc # "copy"
      BY <1>4, <3>2 DEF StoreWord, ConsumerInv, consVars
    <3> QED BY <3>1, <3>2
  <2> QED BY <2>2, <2>3, <2>4
<1>5. CASE Publish
  <2>1. Distance(tail, head) < Capacity /\ tail \in Counter /\ head \in Counter
    BY <1>5 DEF Publish, ProducerInv, TypeOK
  <2>2. tail' \in Counter /\ Distance(tail', head) = Distance(tail, head) + 1
    BY <1>5, <2>1, IncrementValue, DistanceGrows DEF Publish
  <2>3. Distance(tail', head) \in 1..Capacity
    BY <2>1, <2>2, RingAssumption DEF TypeOK
  <2>4. TypeOK'
    BY <1>5, <2>2, <2>3 DEF Publish, TypeOK, consVars, Distance
  <2>5. ProducerInv'
    BY <1>5 DEF Publish, ProducerInv
  <2>6. tail' # head
    BY <2>1, <2>2, <2>3, DistanceRange
  <2>7. ConsumerInv'
    BY <1>5, <2>6 DEF Publish, ConsumerInv, consVars
  <2> QED BY <2>4, <2>5, <2>7
<1>6. CASE Abandon
  <2>1. TypeOK'
    BY <1>6 DEF Abandon, TypeOK, consVars, Distance
  <2>2. ProducerInv'
    BY <1>6 DEF Abandon, ProducerInv
  <2>3. ConsumerInv'
    BY <1>6 DEF Abandon, ConsumerInv, consVars
  <2> QED BY <2>1, <2>2, <2>3
<1> QED BY <1>1, <1>2, <1>3, <1>4, <1>5, <1>6 DEF Producer

\* Every step of the consumer, its death included, preserves the invariant.
LEMMA ConsumerStep ==
    ASSUME IInv, Consumer \/ ConsumerCrash
    PROVE  IInv'
<1> USE DEF IInv
<1>1. CASE PopLoadHead
  <2>1. TypeOK'
    BY <1>1 DEF PopLoadHead, TypeOK, prodVars, Distance
  <2>2. ProducerInv'
    BY <1>1 DEF PopLoadHead, ProducerInv, prodVars, Distance
  <2>3. ConsumerInv'
    BY <1>1 DEF PopLoadHead, ConsumerInv
  <2> QED BY <2>1, <2>2, <2>3
<1>2. CASE PopEmpty
  <2>1. TypeOK'
    BY <1>2 DEF PopEmpty, TypeOK, prodVars, Distance
  <2>2. ProducerInv'
    BY <1>2 DEF PopEmpty, ProducerInv, prodVars, Distance
  <2>3. ConsumerInv'
    BY <1>2 DEF PopEmpty, ConsumerInv
  <2> QED BY <2>1, <2>2, <2>3
<1>3. CASE PopFound
  <2>1. TypeOK'
    BY <1>3 DEF PopFound, TypeOK, prodVars, Distance
  <2>2. ProducerInv'
    BY <1>3 DEF PopFound, ProducerInv, prodVars, Distance
  <2>3. ConsumerInv'
    BY <1>3 DEF PopFound, ConsumerInv
  <2> QED BY <2>1, <2>2, <2>3
<1>4. ASSUME NEW w \in Word, CopyWord(w) PROVE IInv'
  <2>1. readIdx = head /\ SlotOf(head) \in 0..(Capacity - 1)
    <3>1. head \in Int
      BY RingAssumption DEF TypeOK, Counter
    <3> QED BY <1>4, <3>1, SlotPeriod DEF CopyWord, ConsumerInv
  <2>2. slots[SlotOf(head)][w] \in Item
    BY <2>1 DEF TypeOK, Element
  <2>3. TypeOK'
    BY <1>4, <2>1, <2>2 DEF CopyWord, TypeOK, prodVars, Distance, Element
  <2>4. ProducerInv'
    BY <1>4 DEF CopyWord, ProducerInv, prodVars, Distance
  <2>5. ConsumerInv'
    BY <1>4, <2>1 DEF CopyWord, ConsumerInv, TypeOK, Element, SlotOf
  <2> QED BY <2>3, <2>4, <2>5
<1>5. CASE Release
  <2>1. tail # head /\ readIdx = head /\ tail \in Counter /\ head \in Counter
    BY <1>5 DEF Release, ConsumerInv, TypeOK
  <2>2. head' \in Counter /\ Distance(tail, head') = Distance(tail, head) - 1
    BY <1>5, <2>1, IncrementValue, DistanceShrinks DEF Release
  <2>3. Distance(tail, head) \in 1..Capacity
    BY <2>1, DistanceRange, RingAssumption DEF TypeOK, Counter
  <2>4. Distance(tail, head') \in 0..(Capacity - 1)
    BY <2>2, <2>3, RingAssumption
  <2>5. TypeOK'
    BY <1>5, <2>2, <2>4, RingAssumption DEF Release, TypeOK, prodVars, Distance
  <2>6. ProducerInv'
    BY <1>5, <2>4, RingAssumption DEF Release, ProducerInv, prodVars, Distance
  <2>7. ConsumerInv'
    BY <1>5 DEF Release, ConsumerInv
  <2> QED BY <2>5, <2>6, <2>7
<1>6. CASE ConsumerCrash
  <2>1. TypeOK'
    BY <1>6, RingAssumption DEF ConsumerCrash, TypeOK, prodVars, Distance
  <2>2. ProducerInv'
    BY <1>6 DEF ConsumerCrash, ProducerInv, prodVars, Distance
  <2>3. ConsumerInv'
    BY <1>6 DEF ConsumerCrash, ConsumerInv
  <2> QED BY <2>1, <2>2, <2>3
<1> QED BY <1>1, <1>2, <1>3, <1>4, <1>5, <1>6 DEF Consumer

\* The invariant holds in every reachable state.
THEOREM Invariance == Spec => []IInv
<1>1. IInv /\ [Next]_vars => IInv'
  <2> SUFFICES ASSUME IInv, [Next]_vars PROVE IInv'
    OBVIOUS
  <2>1. CASE Next
    BY <2>1, ProducerStep, ConsumerStep DEF Next
  <2>2. CASE UNCHANGED vars
    BY <2>2 DEF vars, prodVars, consVars, IInv, TypeOK, ProducerInv, ConsumerInv, Distance
  <2> QED BY <2>1, <2>2
<1> QED BY InitIInv, <1>1, PTL DEF Spec
\* The counters keep their width and the occupancy never exceeds the capacity,
\* for every capacity and every counter width: the wrap of head and tail at
\* 2^32 is harmless.
THEOREM TypeCorrect == Spec => []TypeOK
BY Invariance, PTL DEF IInv

\* The producer and the consumer never touch the words of one slot at the
\* same time (the plain slot accesses of try_push and try_pop do not race).
THEOREM RaceFreedom == Spec => []NoSlotRace
<1>1. IInv => NoSlotRace
  <2> SUFFICES ASSUME IInv, ppc = "fill", cpc = "copy"
               PROVE  SlotOf(writeIdx) # SlotOf(readIdx)
    BY DEF NoSlotRace
  <2>1. writeIdx = tail /\ readIdx = head /\ tail # head /\ Distance(tail, head) < Capacity
    BY DEF IInv, ProducerInv, ConsumerInv
  <2>2. 1 \in 1..Distance(tail, head)
    BY <2>1, DistanceRange, RingAssumption DEF IInv, TypeOK, Counter
  <2>3. SlotOf(head + 1 - 1) # SlotOf(tail)
    BY <2>1, <2>2, ClaimedSlotIsFree DEF IInv
  <2>4. head + 1 - 1 = head
    BY RingAssumption DEF IInv, TypeOK, Counter
  <2> QED BY <2>1, <2>3, <2>4
<1> QED BY <1>1, Invariance, PTL

-----------------------------------------------------------------------------
(* The refinement of BoundedFifo.                                          *)

\* The queue the ring encodes is a sequence of elements.
LEMMA QueueType ==
    ASSUME TypeOK
    PROVE  Queue \in Seq(Element) /\ Len(Queue) = Distance(tail, head)
<1>1. Distance(tail, head) \in Nat
  BY RingAssumption DEF TypeOK
<1>2. ASSUME NEW k \in 1..Distance(tail, head)
      PROVE  slots[SlotOf(head + k - 1)] \in Element
  <2> DEFINE x == head + k - 1
  <2>1. x \in Int
    BY <1>1, RingAssumption DEF TypeOK, Counter
  <2> HIDE DEF x
  <2>2. SlotOf(x) \in 0..(Capacity - 1)
    BY <2>1, SlotPeriod
  <2> QED BY <2>2 DEF x, TypeOK
<1> QED BY <1>1, <1>2 DEF Queue

\* Storing into the claimed slot is invisible until publish.
LEMMA StoreInvisible ==
    ASSUME IInv, NEW w \in Word, StoreWord(w)
    PROVE  Queue' = Queue
<1>1. writeIdx = tail /\ Distance(tail, head) < Capacity
  BY DEF StoreWord, IInv, ProducerInv
<1>2. ASSUME NEW k \in 1..Distance(tail, head)
      PROVE  slots'[SlotOf(head + k - 1)] = slots[SlotOf(head + k - 1)]
  BY <1>1, ClaimedSlotIsFree DEF IInv, StoreWord, TypeOK
<1>3. head' = head /\ tail' = tail
  BY DEF StoreWord
<1> QED BY <1>2, <1>3 DEF Queue, Distance, SlotOf

\* publish() appends the whole element.
LEMMA PublishAppends ==
    ASSUME IInv, Publish
    PROVE  Queue' = Append(Queue, item) /\ Len(Queue) < Capacity /\ item \in Element
<1> DEFINE d == Distance(tail, head)
<1>1. TypeOK /\ d \in Nat /\ d < Capacity /\ Distance(tail', head') = d + 1
  BY DistanceGrows, RingAssumption DEF IInv, ProducerInv, Publish, TypeOK
<1>2. slots[SlotOf(head + d)] = item
  <2>1. SlotOf(tail) = SlotOf(head + d)
    BY <1>1, SlotOfTail DEF TypeOK
  <2>2. SlotOf(tail) \in 0..(Capacity - 1)
    <3>1. tail \in Int
      BY RingAssumption DEF IInv, TypeOK, Counter
    <3> QED BY <3>1, SlotPeriod
  <2>3. slots[SlotOf(tail)] = item
    BY <2>2 DEF IInv, ProducerInv, Publish, TypeOK, Element
  <2> QED BY <2>1, <2>3
<1>3. Queue' = [k \in 1..(d + 1) |-> slots[SlotOf(head + k - 1)]]
  BY <1>1 DEF Publish, Queue, SlotOf
<1>4. Queue \in Seq(Element) /\ Len(Queue) = d
  BY <1>1, QueueType
<1>5. ASSUME NEW k \in 1..d PROVE Queue[k] = slots[SlotOf(head + k - 1)]
  BY DEF Queue
<1>6. head + (d + 1) - 1 = head + d
  BY <1>1, RingAssumption DEF TypeOK, Counter
<1>7. Queue'[d + 1] = item
  <2>1. Queue'[d + 1] = slots[SlotOf(head + (d + 1) - 1)]
    BY <1>1, <1>3
  <2> QED BY <2>1, <1>2, <1>6
<1>8. ASSUME NEW k \in 1..d PROVE Queue'[k] = Queue[k]
  BY <1>1, <1>3, <1>5
<1> HIDE DEF d
<1>9. item \in Element
  BY <1>1 DEF TypeOK
<1>10. Queue' = Append(Queue, item)
  <2> DEFINE a == Append(Queue, item)
             n == Queue'
  <2>1. a \in Seq(Element) /\ Len(a) = d + 1 /\ a[d + 1] = item
    BY <1>4, <1>9, AppendProperties
  <2>2. \A k \in 1..d : a[k] = Queue[k]
    BY <1>4, <1>9, AppendProperties
  <2>3. \A k \in 1..(d + 1) : n[k] = a[k]
    BY <1>1, <1>7, <1>8, <2>1, <2>2
  <2>4. \A k \in 1..(d + 1) : a[k] \in Element
    BY <2>1, ElementOfSeq
  <2>5. n = [k \in 1..(d + 1) |-> n[k]]
    BY <1>3
  <2> HIDE DEF a, n
  <2>6. n \in Seq(Element) /\ Len(n) = d + 1
    BY <1>1, <2>3, <2>4, <2>5
  <2>7. n = a
    BY <2>1, <2>3, <2>6, SeqEqual
  <2> QED BY <2>7 DEF a, n
<1> QED BY <1>1, <1>4, <1>9, <1>10

\* The release store of head removes the oldest element, which is what the
\* caller of try_pop was given.
LEMMA ReleaseRemoves ==
    ASSUME IInv, Release
    PROVE  Queue # <<>> /\ Queue' = Tail(Queue) /\ out = Head(Queue)
<1> DEFINE d == Distance(tail, head)
<1>1. /\ TypeOK /\ tail # head /\ readIdx = head
      /\ head \in Counter /\ tail \in Counter
  BY DEF IInv, ConsumerInv, Release, TypeOK
<1>2. d \in Nat \ {0}
  BY <1>1, DistanceRange, RingAssumption DEF Counter
<1>3. Distance(tail', head') = d - 1
  BY <1>1, DistanceShrinks DEF Release
<1>4. Queue \in Seq(Element) /\ Len(Queue) = d
  BY <1>1, QueueType
<1>5. out = slots[SlotOf(head)]
  <2>1. SlotOf(head) \in 0..(Capacity - 1)
    <3>1. head \in Int
      BY <1>1, RingAssumption DEF Counter
    <3> QED BY <3>1, SlotPeriod
  <2> QED BY <2>1 DEF IInv, ConsumerInv, Release, TypeOK, Element
<1>6. Queue[1] = out
  <2>1. head + 1 - 1 = head
    BY <1>1, RingAssumption DEF Counter
  <2>2. Queue[1] = slots[SlotOf(head + 1 - 1)]
    BY <1>2 DEF Queue
  <2> QED BY <2>1, <2>2, <1>5
<1>7. ASSUME NEW k \in 1..(d - 1)
      PROVE  slots[SlotOf(head' + k - 1)] = Queue[k + 1]
  <2>1. k - 1 \in Nat /\ k + 1 \in 1..d
    BY <1>2
  <2>2. SlotOf(((head + 1) % CounterMod) + (k - 1)) = SlotOf(head + 1 + (k - 1))
    BY <1>1, <2>1, SlotAfterIncrement
  <2>3. head' + k - 1 = ((head + 1) % CounterMod) + (k - 1)
    BY <1>1, <2>1, IncrementValue, RingAssumption DEF Release, Counter
  <2>4. head + 1 + (k - 1) = head + (k + 1) - 1
    BY <1>1, RingAssumption DEF Counter
  <2>5. Queue[k + 1] = slots[SlotOf(head + (k + 1) - 1)]
    BY <2>1 DEF Queue
  <2> QED BY <2>2, <2>3, <2>4, <2>5
<1>8. Queue' = [k \in 1..(d - 1) |-> slots[SlotOf(head' + k - 1)]]
  BY <1>3 DEF Release, Queue, SlotOf
<1> HIDE DEF d
<1>9. Queue # <<>>
  BY <1>2, <1>4
<1>10. Queue' = Tail(Queue)
  <2> DEFINE t == Tail(Queue)
             n == Queue'
  <2>1. t \in Seq(Element) /\ Len(t) = d - 1
    BY <1>4, <1>9, HeadTailProperties
  <2>2. \A k \in 1..(d - 1) : t[k] = Queue[k + 1]
    BY <2>1, <1>4, <1>9, HeadTailProperties
  <2>3. \A k \in 1..(d - 1) : n[k] = t[k]
    BY <1>7, <1>8, <2>2
  <2>4. \A k \in 1..(d - 1) : t[k] \in Element
    BY <2>1, ElementOfSeq
  <2>5. n = [k \in 1..(d - 1) |-> n[k]] /\ d - 1 \in Nat
    BY <1>2, <1>8
  <2> HIDE DEF t, n
  <2>6. n \in Seq(Element) /\ Len(n) = d - 1
    BY <2>3, <2>4, <2>5
  <2>7. n = t
    BY <2>1, <2>3, <2>6, SeqEqual
  <2> QED BY <2>7 DEF t, n
<1>11. Head(Queue) = Queue[1]
  BY <1>4, <1>9
<1> QED BY <1>6, <1>9, <1>10, <1>11

\* A step of the ring is a step of the FIFO, or changes nothing it shows.
LEMMA StepRefines ==
    ASSUME IInv, [Next]_vars
    PROVE  [Fifo!FifoNext]_(Fifo!fifoVars)
<1> USE DEF Fifo!fifoVars
<1>0. TypeOK /\ Queue \in Seq(Element) /\ Len(Queue) = Distance(tail, head)
  BY QueueType DEF IInv
<1>1. CASE ClaimLoadTail \/ Abandon
  BY <1>1 DEF ClaimLoadTail, Abandon, consVars, Queue, Distance, SlotOf
<1>9. ASSUME NEW e \in Element, ClaimSlot(e) PROVE Fifo!FifoNext
  BY <1>9 DEF ClaimSlot, consVars, Queue, Distance, SlotOf, Fifo!Offer, Fifo!FifoNext
<1>2. CASE ClaimFull
  <2>1. Len(Queue) = Capacity
    BY <1>0, <1>2 DEF ClaimFull, IsFull, IInv, ProducerInv
  <2>2. Queue' = Queue
    BY <1>2 DEF ClaimFull, Queue, Distance, SlotOf
  <2>3. Fifo!PushFull
    BY <1>2, <2>1, <2>2 DEF ClaimFull, consVars, Fifo!PushFull
  <2> QED BY <2>3 DEF Fifo!FifoNext
<1>3. ASSUME NEW w \in Word, StoreWord(w) PROVE UNCHANGED Fifo!fifoVars
  BY <1>3, StoreInvisible DEF StoreWord, consVars
<1>4. CASE Publish
  <2>1. Queue' = Append(Queue, item) /\ Len(Queue) < Capacity /\ item \in Element
    BY <1>4, PublishAppends
  <2>2. Fifo!Push
    BY <1>4, <2>1 DEF Publish, consVars, Fifo!Push
  <2> QED BY <2>1, <2>2 DEF Fifo!FifoNext
<1>5. CASE PopLoadHead \/ PopFound \/ ConsumerCrash \/ \E w \in Word : CopyWord(w)
  BY <1>5 DEF PopLoadHead, PopFound, ConsumerCrash, CopyWord, prodVars, Queue, Distance, SlotOf
<1>6. CASE PopEmpty
  <2>1. Queue = <<>>
    <3>1. tail = head /\ tail \in Counter /\ head \in Counter
      BY <1>6 DEF PopEmpty, IInv, ConsumerInv, TypeOK
    <3>2. Len(Queue) = 0
      BY <1>0, <3>1, DistanceRange
    <3> QED BY <1>0, <3>2
  <2>2. Queue' = Queue
    BY <1>6 DEF PopEmpty, Queue, Distance, SlotOf
  <2>3. Fifo!PopEmpty
    BY <1>6, <2>1, <2>2 DEF PopEmpty, prodVars, Fifo!PopEmpty
  <2> QED BY <2>3 DEF Fifo!FifoNext
<1>7. CASE Release
  <2>1. Queue # <<>> /\ Queue' = Tail(Queue) /\ out = Head(Queue)
    BY <1>7, ReleaseRemoves
  <2>2. Fifo!Pop
    BY <1>7, <2>1 DEF Release, prodVars, Fifo!Pop
  <2> QED BY <2>2 DEF Fifo!FifoNext
<1>8. CASE UNCHANGED vars
  BY <1>8 DEF vars, prodVars, consVars, Queue, Distance, SlotOf
<1> QED BY <1>1, <1>2, <1>3, <1>4, <1>5, <1>6, <1>7, <1>8, <1>9 DEF Next, Producer, Consumer

\* The ring implements the bounded FIFO, for every capacity, counter width and
\* element: each call of try_claim/publish and try_pop takes effect at one
\* atomic access, elements arrive whole, once and in order, and a crash of
\* either side between two accesses neither loses nor duplicates one.
THEOREM Refinement == Spec => RefinesFifo
<1>1. Init => Fifo!FifoInit
  <2> SUFFICES ASSUME Init PROVE Fifo!FifoInit
    OBVIOUS
  <2>1. Blank \in Element
    BY RingAssumption DEF Blank, Element
  <2>2. 0 \in Counter /\ Distance(0, 0) = 0
    BY RingAssumption, DistanceRange DEF Counter
  <2>3. Queue = <<>>
    BY <2>2 DEF Init, Queue
  <2> QED BY <2>1, <2>3 DEF Init, Fifo!FifoInit
<1> QED BY <1>1, Invariance, StepRefines, PTL DEF Spec, RefinesFifo, Fifo!FifoSpec

-----------------------------------------------------------------------------
(* size(), by a thread that owns neither end.                              *)

\* The head an observer has loaded is behind the current one by the elements
\* consumed since.
ObserverInv ==
    /\ LagAssumption
    /\ lag \in 0..MaxLag
    /\ opc \in {"idle", "sample"}
    /\ opc = "sample" => h \in Counter /\ Distance(head, h) = lag
    /\ SizeOverReports

\* Distances add up as long as they stay within the counters.
LEMMA DistanceAdds ==
    ASSUME NEW a \in Counter, NEW b \in Counter, NEW c \in Counter,
           Distance(a, b) + Distance(b, c) < CounterMod
    PROVE  Distance(a, c) = Distance(a, b) + Distance(b, c)
BY DistanceValue, RingAssumption DEF Counter

\* An increment moves a counter one further away, until it comes round.
LEMMA DistanceIncrements ==
    ASSUME NEW a \in Counter, NEW b \in Counter, Distance(a, b) + 1 < CounterMod
    PROVE  Distance((a + 1) % CounterMod, b) = Distance(a, b) + 1
BY DistanceValue, IncrementValue, RingAssumption DEF Counter

\* Only the consumer's release store moves head, by one.
LEMMA HeadMoves ==
    ASSUME IInv, Next
    PROVE  head' = head \/ head' = (head + 1) % CounterMod
<1>1. CASE Release
  BY <1>1 DEF Release, IInv, ConsumerInv
<1>2. CASE ~Release
  BY <1>2 DEF Next, Producer, Consumer, ClaimLoadTail, ClaimFull, ClaimSlot, StoreWord,
              Publish, Abandon, PopLoadHead, PopEmpty, PopFound, CopyWord, ConsumerCrash
<1> QED BY <1>1, <1>2

LEMMA SizeStep ==
    ASSUME IInv, ObserverInv, Size
    PROVE  IInv' /\ ObserverInv'
<1> USE DEF ObserverInv
<1>1. UNCHANGED vars
  BY DEF Size, SizeLoadHead, SizeLoadTail
<1>2. IInv'
  BY <1>1 DEF vars, prodVars, consVars, IInv, TypeOK, ProducerInv, ConsumerInv, Distance
<1>3. head \in Counter /\ tail \in Counter /\ Distance(tail, head) \in 0..Capacity
  BY DEF IInv, TypeOK
<1>4. CASE SizeLoadHead
  <2>1. Distance(head, head) = 0
    BY <1>3, DistanceRange
  <2>2. head' = head
    BY <1>1 DEF vars
  <2>3. Distance(head', h') = 0 /\ h' \in Counter
    BY <1>3, <1>4, <2>1, <2>2 DEF SizeLoadHead
  <2> QED BY <1>2, <1>4, <2>3 DEF SizeLoadHead, SizeOverReports, LagAssumption, Distance
<1>5. CASE SizeLoadTail
  <2>1. h \in Counter /\ Distance(head, h) = lag
    BY <1>5 DEF SizeLoadTail
  <2>2. Distance(tail, head) + Distance(head, h) < CounterMod
    BY <1>3, <2>1, RingAssumption DEF LagAssumption
  <2>3. Distance(tail, h) = Distance(tail, head) + lag
    BY <1>3, <2>1, <2>2, DistanceAdds
  <2>4. sampled' = actual' + lag' /\ lag' = lag /\ opc' = "idle"
    BY <1>5, <2>3 DEF SizeLoadTail
  <2> QED BY <1>2, <2>4 DEF SizeOverReports, LagAssumption
<1> QED BY <1>4, <1>5 DEF Size

LEMMA RingStepStep ==
    ASSUME IInv, ObserverInv, RingStep
    PROVE  IInv' /\ ObserverInv'
<1> USE DEF ObserverInv
<1>1. IInv'
  BY ProducerStep, ConsumerStep DEF RingStep, Next
<1>2. UNCHANGED <<opc, h, sampled, actual>>
  BY DEF RingStep
<1>3. head \in Counter /\ (head' = head \/ head' = (head + 1) % CounterMod)
  BY HeadMoves DEF RingStep, IInv, TypeOK
<1>4. CASE opc = "sample" /\ head' # head
  <2>1. lag < MaxLag /\ lag' = lag + 1
    BY <1>4 DEF RingStep
  <2>2. h \in Counter /\ Distance(head, h) = lag /\ head' = (head + 1) % CounterMod
    BY <1>3, <1>4
  <2>i. lag + 1 < CounterMod
    BY <2>1, RingAssumption DEF LagAssumption
  <2>3. Distance((head + 1) % CounterMod, h) = lag + 1
    BY <1>3, <2>i, <2>2, DistanceIncrements
  <2>4. Distance(head, h)' = lag'
    BY <1>2, <2>1, <2>2, <2>3 DEF Distance
  <2>5. lag' \in 0..MaxLag
    BY <2>1 DEF LagAssumption
  <2> QED BY <1>1, <1>2, <1>4, <2>2, <2>4, <2>5 DEF SizeOverReports, LagAssumption
<1>5. CASE ~(opc = "sample" /\ head' # head)
  <2>1. lag' = lag
    BY <1>5 DEF RingStep
  <2> QED BY <1>1, <1>2, <1>5, <2>1 DEF SizeOverReports, LagAssumption, Distance
<1> QED BY <1>4, <1>5

\* size() never wraps and never under-reports, for every capacity and counter
\* width: it exceeds the occupancy by what was consumed between its two loads
\* (SpscRing::size, called by the dashboard and core's snapshotter).
THEOREM SizeSound == LagAssumption /\ ObsSpec => []SizeOverReports
<1>1. LagAssumption /\ ObsInit => IInv /\ ObserverInv
  BY InitIInv DEF ObsInit, ObserverInv, SizeOverReports, LagAssumption
<1>2. IInv /\ ObserverInv /\ [ObsNext]_<<vars, obsVars>> => (IInv /\ ObserverInv)'
  <2> SUFFICES ASSUME IInv, ObserverInv, [ObsNext]_<<vars, obsVars>>
               PROVE  IInv' /\ ObserverInv'
    OBVIOUS
  <2>1. CASE ObsNext
    BY <2>1, SizeStep, RingStepStep DEF ObsNext
  <2>2. CASE UNCHANGED <<vars, obsVars>>
    BY <2>2 DEF vars, obsVars, prodVars, consVars, IInv, TypeOK, ProducerInv, ConsumerInv,
                Distance, ObserverInv, SizeOverReports, LagAssumption
  <2> QED BY <2>1, <2>2
<1>3. ObserverInv => SizeOverReports
  BY DEF ObserverInv
<1> QED BY <1>1, <1>2, <1>3, PTL DEF ObsSpec
=============================================================================

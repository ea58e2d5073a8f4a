------------------------------ MODULE SpscRing ------------------------------
(***************************************************************************)
(* common::SpscRing<T, capacity> (common/spsc_ring.hpp): the single        *)
(* producer, single consumer ring every pair of pipeline processes shares  *)
(* through shared memory.  One action is one atomic access of the code, or *)
(* the copy of one word of a slot: an element is several machine words and *)
(* neither side copies it atomically.  head and tail keep their width: they*)
(* are counters modulo CounterMod (2^32 in the code) that wrap.            *)
(*                                                                         *)
(* Release stores paired with acquire loads order the slot accesses, so an *)
(* interleaving of the atomic accesses and of the word copies is what the  *)
(* two threads can observe.  Either process may die in the middle of a     *)
(* call; the ring outlives it, and its successor starts a call afresh.     *)
(***************************************************************************)
EXTENDS Integers, Sequences

CONSTANTS
    Capacity,    \* slots in the ring (a power of two in the code)
    CounterMod,  \* 2^w for counters of w bits
    Word,        \* the words an element is made of
    Item,        \* what a word can hold
    MaxCrashes   \* bound: consumer deaths in one behaviour

\* capacity divides 2^32 and is smaller (static_assert of spsc_ring.hpp).
ASSUME RingAssumption ==
    /\ Capacity \in Nat \ {0}
    /\ CounterMod \in Nat \ {0}
    /\ CounterMod > Capacity
    /\ CounterMod % Capacity = 0
    /\ Item # {}
    /\ MaxCrashes \in Nat

VARIABLES
    head, tail,  \* the shared counters
    slots,       \* the shared array, word by word
    ppc,         \* producer: "idle", "claim" (tail loaded) or "fill" (slot claimed)
    writeIdx,    \* producer: write_idx of try_claim
    item,        \* producer: the element it is storing
    filled,      \* producer: words of the slot already stored
    pushed,      \* outcome of the producer's last completed call
    cpc,         \* consumer: "idle", "check" (head loaded) or "copy"
    readIdx,     \* consumer: read_idx of try_pop
    out,         \* consumer: the caller's element, overwritten word by word
    copied,      \* consumer: words already copied to out
    popped,      \* outcome of the consumer's last completed call
    got,         \* the element the last successful try_pop returned
    crashes      \* consumer deaths so far

prodVars == <<ppc, writeIdx, item, filled, pushed>>
consVars == <<cpc, readIdx, out, copied, popped, got, crashes>>
vars == <<head, tail, slots, prodVars, consVars>>

Element == [Word -> Item]

\* An element of freshly mapped, zero-filled memory.
Blank == [w \in Word |-> CHOOSE x \in Item : TRUE]

\* x & MASK: the slot a counter value designates.
SlotOf(x) == x % Capacity

\* a - b in the counters' unsigned type.
Distance(a, b) == (a - b) % CounterMod

Init ==
    /\ head = 0 /\ tail = 0
    /\ slots = [i \in 0..(Capacity - 1) |-> Blank]
    /\ ppc = "idle" /\ writeIdx = 0 /\ item = Blank /\ filled = {}
    /\ pushed = "none"
    /\ cpc = "idle" /\ readIdx = 0 /\ out = Blank /\ copied = {}
    /\ popped = "none" /\ got = Blank
    /\ crashes = 0

-----------------------------------------------------------------------------
(* The producer: try_claim, the stores into the slot, publish.             *)

\* try_claim: write_idx = tail.load(relaxed).
ClaimLoadTail ==
    /\ ppc = "idle"
    /\ writeIdx' = tail
    /\ ppc' = "claim"
    /\ UNCHANGED <<head, tail, slots, item, filled, pushed, consVars>>

\* Mutant: the full test allows one element too many.
FullLate == Distance(writeIdx, head) = Capacity + 1

\* The full test of try_claim, on the head it loads.
IsFull == Distance(writeIdx, head) = Capacity

\* try_claim: read_idx = head.load(acquire), full: return nullptr.
ClaimFull ==
    /\ ppc = "claim"
    /\ IsFull
    /\ ppc' = "idle"
    /\ pushed' = "full"
    /\ UNCHANGED <<head, tail, slots, writeIdx, item, filled, consVars>>

\* try_claim: there is room, the caller gets &slots[write_idx & MASK] and
\* will store e there.
ClaimSlot(e) ==
    /\ ppc = "claim"
    /\ ~IsFull
    /\ ppc' = "fill"
    /\ item' = e
    /\ filled' = {}
    /\ UNCHANGED <<head, tail, slots, writeIdx, pushed, consVars>>

\* *slot = item, one word of it; the words may be stored in any order.
StoreWord(w) ==
    /\ ppc = "fill"
    /\ w \notin filled
    /\ slots' = [slots EXCEPT ![SlotOf(writeIdx)][w] = item[w]]
    /\ filled' = filled \cup {w}
    /\ UNCHANGED <<head, tail, ppc, writeIdx, item, pushed, consVars>>

\* Mutant: publish before the slot is filled.
PublishEarly ==
    /\ ppc = "fill"
    /\ tail' = (tail + 1) % CounterMod
    /\ ppc' = "idle"
    /\ pushed' = "ok"
    /\ UNCHANGED <<head, slots, writeIdx, item, filled, consVars>>

\* Mutant: the counter does not wrap.
PublishNoWrap ==
    /\ ppc = "fill"
    /\ filled = Word
    /\ tail' = tail + 1
    /\ ppc' = "idle"
    /\ pushed' = "ok"
    /\ UNCHANGED <<head, slots, writeIdx, item, filled, consVars>>

\* publish: tail.store(tail.load(relaxed) + 1, release).
Publish ==
    /\ ppc = "fill"
    /\ filled = Word
    /\ tail' = (tail + 1) % CounterMod
    /\ ppc' = "idle"
    /\ pushed' = "ok"
    /\ UNCHANGED <<head, slots, writeIdx, item, filled, consVars>>

\* A claim is given up without a publish: the parser skips a message type it
\* does not handle, or the producer dies.  The slot keeps what was stored.
Abandon ==
    /\ ppc # "idle"
    /\ ppc' = "idle"
    /\ UNCHANGED <<head, tail, slots, writeIdx, item, filled, pushed, consVars>>

-----------------------------------------------------------------------------
(* The consumer: try_pop.                                                  *)

\* read_idx = head.load(relaxed).
PopLoadHead ==
    /\ cpc = "idle"
    /\ readIdx' = head
    /\ cpc' = "check"
    /\ UNCHANGED <<head, tail, slots, prodVars, out, copied, popped, got, crashes>>

\* write_idx = tail.load(acquire), empty: return false.
PopEmpty ==
    /\ cpc = "check"
    /\ tail = readIdx
    /\ cpc' = "idle"
    /\ popped' = "empty"
    /\ UNCHANGED <<head, tail, slots, prodVars, readIdx, out, copied, got, crashes>>

\* Mutant: an off-by-one in the empty test, the last element is never taken.
PopFoundTwo ==
    /\ cpc = "check"
    /\ Distance(tail, readIdx) > 1
    /\ cpc' = "copy"
    /\ copied' = {}
    /\ UNCHANGED <<head, tail, slots, prodVars, readIdx, out, popped, got, crashes>>

\* write_idx = tail.load(acquire), an element is there.
PopFound ==
    /\ cpc = "check"
    /\ tail # readIdx
    /\ cpc' = "copy"
    /\ copied' = {}
    /\ UNCHANGED <<head, tail, slots, prodVars, readIdx, out, popped, got, crashes>>

\* out = slots[read_idx & MASK], one word of it.
CopyWord(w) ==
    /\ cpc = "copy"
    /\ w \notin copied
    /\ out' = [out EXCEPT ![w] = slots[SlotOf(readIdx)][w]]
    /\ copied' = copied \cup {w}
    /\ UNCHANGED <<head, tail, slots, prodVars, cpc, readIdx, popped, got, crashes>>

\* head.store(read_idx + 1, release); return true.
Release ==
    /\ cpc = "copy"
    /\ copied = Word
    /\ head' = (readIdx + 1) % CounterMod
    /\ cpc' = "idle"
    /\ popped' = "ok"
    /\ got' = out
    /\ UNCHANGED <<tail, slots, prodVars, readIdx, out, copied, crashes>>

\* The consumer process dies inside try_pop and is spawned again.
ConsumerCrash ==
    /\ cpc # "idle"
    /\ crashes < MaxCrashes
    /\ crashes' = crashes + 1
    /\ cpc' = "idle"
    /\ UNCHANGED <<head, tail, slots, prodVars, readIdx, out, copied, popped, got>>

-----------------------------------------------------------------------------
Producer ==
    \/ ClaimLoadTail
    \/ ClaimFull
    \/ \E e \in Element : ClaimSlot(e)
    \/ \E w \in Word : StoreWord(w)
    \/ Publish
    \/ Abandon

\* What the polling loops of core, exec and the dashboard repeat for ever.
Consumer ==
    \/ PopLoadHead
    \/ PopEmpty
    \/ PopFound
    \/ \E w \in Word : CopyWord(w)
    \/ Release

Next == Producer \/ Consumer \/ ConsumerCrash

Spec == Init /\ [][Next]_vars

\* The consumer polls in a loop that never blocks; nothing is assumed of the
\* producer, which may stop for ever.
FairSpec == Spec /\ WF_vars(Consumer)

-----------------------------------------------------------------------------
(* Properties.                                                             *)

Counter == 0..(CounterMod - 1)

\* Every variable has its type; head and tail stay in the counters' width and
\* the occupancy they encode never exceeds the capacity, across the wrap.
TypeOK ==
    /\ head \in Counter /\ tail \in Counter
    /\ Distance(tail, head) \in 0..Capacity
    /\ slots \in [0..(Capacity - 1) -> Element]
    /\ ppc \in {"idle", "claim", "fill"}
    /\ writeIdx \in Counter
    /\ item \in Element
    /\ filled \subseteq Word
    /\ pushed \in {"none", "ok", "full"}
    /\ cpc \in {"idle", "check", "copy"}
    /\ readIdx \in Counter
    /\ out \in Element
    /\ copied \subseteq Word
    /\ popped \in {"none", "ok", "empty"}
    /\ got \in Element
    /\ crashes \in 0..MaxCrashes

\* The plain (non-atomic) accesses to a slot never race: while the consumer
\* copies a slot the producer holds no claim on that same slot, whatever the
\* two last loaded of each other's counter.
NoSlotRace ==
    (ppc = "fill" /\ cpc = "copy") => SlotOf(writeIdx) # SlotOf(readIdx)

\* The elements between head and tail, oldest first: the queue the ring stands for.
Queue == [k \in 1..Distance(tail, head) |-> slots[SlotOf(head + k - 1)]]

Fifo == INSTANCE BoundedFifo WITH Value <- Element, arg <- item, q <- Queue

\* The ring implements a bounded FIFO: each call takes effect at one atomic
\* access (publish, the release store of head, or the load that finds the ring
\* full or empty), elements arrive whole, once and in order, and a crash of
\* either side between two accesses loses or duplicates nothing in the ring.
RefinesFifo == Fifo!FifoSpec

\* A published element is eventually delivered to a consumer that keeps
\* polling, whatever the producer does.
Delivers == Fifo!FifoDelivery
=============================================================================

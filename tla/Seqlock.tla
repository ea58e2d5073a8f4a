------------------------------- MODULE Seqlock -------------------------------
(***************************************************************************)
(* common::Seqlock<T> (common/seqlock.hpp): one writer publishes a frame   *)
(* of several words to readers that never block it.  The book snapshot,    *)
(* the latency histograms and every statistics block of the shared segment *)
(* travel this way.  memcpy moves one word at a time, in any order, and    *)
(* the readers' copies race with the writer's on purpose.                  *)
(*                                                                         *)
(* The writer may be a process that dies in the middle of a store (exec)   *)
(* and is spawned again over the same shared words: WriterCrash, which     *)
(* only CrashSpec allows.                                                  *)
(***************************************************************************)
EXTENDS Integers

CONSTANTS
    Word,      \* the words of a frame
    Item,      \* what a word can hold
    Zero,      \* the word of zero-filled memory
    Reader,    \* the reading threads
    MaxStores  \* bound: stores in one behaviour

ASSUME SeqlockAssumption == Zero \in Item /\ MaxStores \in Nat

Frame == [Word -> Item]

VARIABLES
    seq,      \* the shared sequence number
    data,     \* the shared frame
    wpc,      \* writer: "idle" or "copy"
    s,        \* writer: the sequence number it loaded
    in,       \* writer: the frame it is storing
    written,  \* writer: words already stored
    cell,     \* history: the frame of the last completed store
    stores,   \* stores begun so far
    rpc,      \* reader: "idle" or "copy"
    pre,      \* reader: the sequence number its try_load loaded first
    out,      \* reader: the caller's frame
    copied,   \* reader: words already copied
    result    \* reader: the frame its last successful try_load returned

writerVars == <<wpc, s, in, written, cell, stores>>
readerVars == <<rpc, pre, out, copied, result>>
vars == <<seq, data, writerVars, readerVars>>

\* A frame of freshly mapped, zero-filled memory.
Blank == [w \in Word |-> Zero]

Init ==
    /\ seq = 0 /\ data = Blank
    /\ wpc = "idle" /\ s = 0 /\ in = Blank /\ written = {}
    /\ cell = Blank /\ stores = 0
    /\ rpc = [r \in Reader |-> "idle"]
    /\ pre = [r \in Reader |-> 0]
    /\ out = [r \in Reader |-> Blank]
    /\ copied = [r \in Reader |-> {}]
    /\ result = [r \in Reader |-> Blank]

-----------------------------------------------------------------------------
(* store(in), by the owning thread.                                        *)

\* Mutant: the sequence number is not made odd while the frame is copied.
StoreSilently(f) ==
    /\ wpc = "idle"
    /\ stores < MaxStores
    /\ stores' = stores + 1
    /\ s' = seq
    /\ in' = f
    /\ written' = {}
    /\ wpc' = "copy"
    /\ UNCHANGED <<seq, data, cell, readerVars>>

\* s = seq.load(relaxed); seq.store(s + 1, relaxed); the release fence keeps
\* it before the copies.
StoreBegin(f) ==
    /\ wpc = "idle"
    /\ stores < MaxStores
    /\ stores' = stores + 1
    /\ s' = seq
    /\ seq' = seq + 1
    /\ in' = f
    /\ written' = {}
    /\ wpc' = "copy"
    /\ UNCHANGED <<data, cell, readerVars>>

\* memcpy(&data, &in, sizeof(T)), one word of it.
StoreWord(w) ==
    /\ wpc = "copy"
    /\ w \notin written
    /\ data' = [data EXCEPT ![w] = in[w]]
    /\ written' = written \cup {w}
    /\ UNCHANGED <<seq, wpc, s, in, cell, stores, readerVars>>

\* Mutant: the sequence number is left odd.
StoreEndOdd ==
    /\ wpc = "copy"
    /\ written = Word
    /\ wpc' = "idle"
    /\ cell' = in
    /\ UNCHANGED <<seq, data, s, in, written, stores, readerVars>>

\* Mutant: the final store may overtake the copies (no release ordering).
StoreEndEarly ==
    /\ wpc = "copy"
    /\ seq' = s + 2
    /\ wpc' = "idle"
    /\ cell' = in
    /\ UNCHANGED <<data, s, in, written, stores, readerVars>>

\* seq.store(s + 2, release).
StoreEnd ==
    /\ wpc = "copy"
    /\ written = Word
    /\ seq' = s + 2
    /\ wpc' = "idle"
    /\ cell' = in
    /\ UNCHANGED <<data, s, in, written, stores, readerVars>>

\* The writing process dies inside store() and its successor starts afresh;
\* nothing repairs seq or data.
WriterCrash ==
    /\ wpc = "copy"
    /\ wpc' = "idle"
    /\ UNCHANGED <<seq, data, s, in, written, cell, stores, readerVars>>

-----------------------------------------------------------------------------
(* try_load(out), by reader r.                                             *)

\* pre = seq.load(acquire); an odd number is refused at once.
LoadBegin(r) ==
    /\ rpc[r] = "idle"
    /\ seq % 2 = 0
    /\ pre' = [pre EXCEPT ![r] = seq]
    /\ copied' = [copied EXCEPT ![r] = {}]
    /\ rpc' = [rpc EXCEPT ![r] = "copy"]
    /\ UNCHANGED <<seq, data, writerVars, out, result>>

\* memcpy(&out, &data, sizeof(T)), one word of it.
LoadWord(r, w) ==
    /\ rpc[r] = "copy"
    /\ w \notin copied[r]
    /\ out' = [out EXCEPT ![r][w] = data[w]]
    /\ copied' = [copied EXCEPT ![r] = @ \cup {w}]
    /\ UNCHANGED <<seq, data, writerVars, rpc, pre, result>>

\* Mutant: the second load of seq only tests for a store in progress.
LoadEndParity(r) ==
    /\ rpc[r] = "copy"
    /\ copied[r] = Word
    /\ rpc' = [rpc EXCEPT ![r] = "idle"]
    /\ result' = IF seq % 2 = 0 THEN [result EXCEPT ![r] = out[r]] ELSE result
    /\ UNCHANGED <<seq, data, writerVars, pre, out, copied>>

\* return pre == seq.load(relaxed), after the acquire fence.
LoadEnd(r) ==
    /\ rpc[r] = "copy"
    /\ copied[r] = Word
    /\ rpc' = [rpc EXCEPT ![r] = "idle"]
    /\ result' = IF pre[r] = seq THEN [result EXCEPT ![r] = out[r]] ELSE result
    /\ UNCHANGED <<seq, data, writerVars, pre, out, copied>>

-----------------------------------------------------------------------------
StoreStep == (\E w \in Word : StoreWord(w)) \/ StoreEnd

Load(r) == LoadBegin(r) \/ (\E w \in Word : LoadWord(r, w)) \/ LoadEnd(r)

Next ==
    \/ \E f \in Frame : StoreBegin(f)
    \/ StoreStep
    \/ \E r \in Reader : Load(r)

Spec == Init /\ [][Next]_vars

\* A store that has begun is finished (it cannot block), and the readers poll
\* on a timer for ever; nothing obliges the writer to store again.
Fairness == WF_vars(StoreStep) /\ \A r \in Reader : WF_vars(Load(r))

FairSpec == Spec /\ Fairness

CrashSpec == Init /\ [][Next \/ WriterCrash]_vars

-----------------------------------------------------------------------------
(* Properties.                                                             *)

\* Every variable has its type, and seq is odd exactly while a store is in
\* progress, which is all a reader can go by.
TypeOK ==
    /\ seq \in Nat
    /\ seq % 2 = IF wpc = "copy" THEN 1 ELSE 0
    /\ data \in Frame
    /\ wpc \in {"idle", "copy"}
    /\ s \in Nat
    /\ in \in Frame
    /\ written \subseteq Word
    /\ cell \in Frame
    /\ stores \in 0..MaxStores
    /\ rpc \in [Reader -> {"idle", "copy"}]
    /\ pre \in [Reader -> Nat]
    /\ out \in [Reader -> Frame]
    /\ copied \in [Reader -> SUBSET Word]
    /\ result \in [Reader -> Frame]

Cell == INSTANCE AtomicCell WITH Value <- Frame

\* The seqlock implements an atomic cell: a store takes effect when seq turns
\* even again, and an accepted load returns, whole, the frame of the last
\* completed store, never a mixture of two and never one already replaced.
RefinesCell == Cell!CellSpec

\* Once the writer stops storing, every polling reader ends up holding the
\* last frame stored: seq is never left in a state that refuses readers.
EventuallyVisible ==
    \A f \in Frame : \A r \in Reader :
        <>[](cell = f) => <>[](result[r] = f)
=============================================================================

---------------------------- MODULE BoundedFifo ----------------------------
(***************************************************************************)
(* What common::SpscRing promises to its two callers: a FIFO queue of at   *)
(* most Capacity values in which each call takes effect at one instant.    *)
(* A push is refused only at an instant when the queue is full, a pop only *)
(* at an instant when it is empty, and what a pop returns is the oldest    *)
(* value, whole.                                                           *)
(***************************************************************************)
EXTENDS Naturals, Sequences

CONSTANTS Value, Capacity

VARIABLES arg,     \* the value the producer's current call is to push
          q,       \* the published, unconsumed values, oldest first
          pushed,  \* outcome of the producer's last completed call
          popped,  \* outcome of the consumer's last completed call
          got      \* value the last successful pop returned

fifoVars == <<arg, q, pushed, popped, got>>

FifoInit ==
    /\ arg \in Value
    /\ q = <<>>
    /\ pushed = "none"
    /\ popped = "none"
    /\ got \in Value

\* The producer takes up a value; nothing of it is visible yet.
Offer ==
    /\ arg' \in Value
    /\ UNCHANGED <<q, pushed, popped, got>>

\* That very value, whole, becomes the youngest of the queue.
Push ==
    /\ Len(q) < Capacity
    /\ q' = Append(q, arg)
    /\ pushed' = "ok"
    /\ UNCHANGED <<arg, popped, got>>

PushFull ==
    /\ Len(q) = Capacity
    /\ pushed' = "full"
    /\ UNCHANGED <<arg, q, popped, got>>

Pop ==
    /\ q # <<>>
    /\ got' = Head(q)
    /\ q' = Tail(q)
    /\ popped' = "ok"
    /\ UNCHANGED <<arg, pushed>>

PopEmpty ==
    /\ q = <<>>
    /\ popped' = "empty"
    /\ UNCHANGED <<arg, q, pushed, got>>

FifoNext == Offer \/ Push \/ PushFull \/ Pop \/ PopEmpty

FifoSpec == FifoInit /\ [][FifoNext]_fifoVars

\* A consumer that keeps polling is served: what is queued is delivered.
FifoDelivery == WF_fifoVars(Pop)
=============================================================================

-------------------------- MODULE SpscRingObserver --------------------------
(***************************************************************************)
(* SpscRing::size() called by a thread that owns neither end: the          *)
(* dashboard samples every ring, core's snapshotter the exchange ring.     *)
(* head and tail are loaded at two instants, and both ends move meanwhile. *)
(***************************************************************************)
EXTENDS SpscRing

CONSTANT MaxLag  \* bound: elements consumed between the two loads of one size()

\* The two loads are a few instructions apart: the counters do not go round.
LagAssumption == MaxLag \in Nat /\ MaxLag + Capacity < CounterMod

VARIABLES
    opc,     \* observer: "idle" or "sample" (head loaded)
    h,       \* observer: the head it loaded
    sampled, \* what the last size() returned
    lag,     \* history: elements consumed since h was loaded
    actual   \* history: the occupancy at the instant size() returned

obsVars == <<opc, h, sampled, lag, actual>>

ObsInit ==
    /\ Init
    /\ opc = "idle" /\ h = 0 /\ sampled = 0 /\ lag = 0 /\ actual = 0

\* h = head.load(acquire).
SizeLoadHead ==
    /\ opc = "idle"
    /\ opc' = "sample"
    /\ h' = head
    /\ lag' = 0
    /\ UNCHANGED <<vars, sampled, actual>>

\* t = tail.load(acquire); return t - h.
SizeLoadTail ==
    /\ opc = "sample"
    /\ opc' = "idle"
    /\ sampled' = Distance(tail, h)
    /\ actual' = Distance(tail, head)
    /\ UNCHANGED <<vars, h, lag>>

\* Mutant: size() samples tail first and head second.
SizeTailFirst ==
    \/ /\ opc = "idle" /\ opc' = "sample"
       /\ h' = tail
       /\ lag' = 0
       /\ UNCHANGED <<vars, sampled, actual>>
    \/ /\ opc = "sample" /\ opc' = "idle"
       /\ sampled' = Distance(h, head)
       /\ actual' = Distance(tail, head)
       /\ UNCHANGED <<vars, h, lag>>

\* size() as a whole.
Size == SizeLoadHead \/ SizeLoadTail

\* A step of the ring's two ends; the history variable counts the pops.
RingStep ==
    /\ Next
    /\ (opc = "sample" /\ head' # head) => lag < MaxLag
    /\ lag' = IF opc = "sample" /\ head' # head THEN lag + 1 ELSE lag
    /\ UNCHANGED <<opc, h, sampled, actual>>

ObsNext == Size \/ RingStep

ObsSpec == ObsInit /\ [][ObsNext]_<<vars, obsVars>>

\* size() never underflows to a huge value and never under-reports: it exceeds
\* the occupancy at the instant it returns by exactly the elements consumed
\* between its two loads, so it can exceed the capacity (core's publisher clamps it)
\* but never wraps.
SizeOverReports == opc = "idle" => sampled = actual + lag
=============================================================================

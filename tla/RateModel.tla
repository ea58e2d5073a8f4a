----------------------------- MODULE RateModel -----------------------------
(***************************************************************************)
(* exec::RateModel (exec/rate_model.hpp) for one instrument, driven by the *)
(* requests of StrategyContext::submit, replace and cancel: a counter that *)
(* every request adds to, that decays with the exec clock, and that is     *)
(* brought up to date only when it is read.  Beside it runs the venue's    *)
(* own counter, which the model stands in for: it decays all the time,     *)
(* charges a request when it arrives and dates an order from the moment it *)
(* acknowledged it.                                                        *)
(*                                                                         *)
(* A behaviour is live or a replay.  Live, the clock only advances and     *)
(* requests and acks take up to MaxTransit.  In a replay the clock is the  *)
(* event time of the last frame, which may step back, and NullRouter       *)
(* answers before the next frame.  One unit of time is a second.           *)
(***************************************************************************)
EXTENDS Integers, Sequences

CONSTANTS
    RateOrder,    \* order ids
    RateMax, RateMargin, Decay,  \* KrakenRateParams: max, margin, decay_per_s
    MaxTransit,   \* seconds a request or an ack is under way, at most
    ClockSteps,   \* steps of the clock, forward
    MaxRequests,  \* bound: requests of one behaviour
    MaxTicks      \* bound: steps of the clock

ASSUME RateAssumption ==
    /\ RateMax \in Nat /\ RateMargin \in 0..RateMax /\ Decay \in Nat
    /\ MaxTransit \in Nat /\ ClockSteps \subseteq Nat \ {0}
    /\ MaxRequests \in Nat /\ MaxTicks \in Nat

RateOp == {"Add", "Amend", "Cancel"}

VARIABLES
    replay,       \* event clock and NullRouter, or wall clock and a venue
    now,          \* ExecContext::now_ns()
    count, last,  \* Counter::count, Counter::last_ns
    tack,         \* OrderRow::t_ack_ns; 0 until acked
    live,         \* orders in the order table, cancel not yet requested
    wire,         \* requests under way, oldest first
    acks,         \* orders whose ack is under way
    venue,        \* the venue's counter, decayed up to now
    vack,         \* when the venue acknowledged an order; 0 until then
    refused,      \* the venue has refused an add or an amend
    used, ticks   \* requests and clock steps so far

rateVars == <<replay, now, count, last, tack, live, wire, acks, venue, vack,
              refused, used, ticks>>

RateInit ==
    /\ replay \in BOOLEAN
    /\ now = 1 /\ count = 0 /\ last = 0
    /\ tack = [o \in RateOrder |-> 0] /\ live = {}
    /\ wire = <<>> /\ acks = {}
    /\ venue = 0 /\ vack = [o \in RateOrder |-> 0]
    /\ refused = FALSE /\ used = 0 /\ ticks = 0

-----------------------------------------------------------------------------
\* kraken_rate_cost, by the age of the order in seconds.
KrakenRateCost(op, age) ==
    CASE op = "Add" -> 1
      [] op = "Amend" -> 1 + (IF age < 5 THEN 3 ELSE IF age < 10 THEN 2
                              ELSE IF age < 15 THEN 1 ELSE 0)
      [] op = "Cancel" -> IF age < 5 THEN 8 ELSE IF age < 10 THEN 6
                          ELSE IF age < 15 THEN 5 ELSE IF age < 45 THEN 4
                          ELSE IF age < 90 THEN 2 ELSE IF age < 300 THEN 1 ELSE 0

Floor0(x) == IF x > 0 THEN x ELSE 0

\* The age the cost is taken at: an add, or an order not acked, is of age 0.
Age(op, t) == IF op = "Add" \/ t = 0 THEN 0 ELSE now - t

\* count(now): nothing has decayed if the clock is not past the last charge.
Count == IF now <= last THEN count ELSE Floor0(count - Decay * (now - last))

\* Mutant: the margin below the venue's maximum is not kept.
WouldAllowToTheMax(op, age) == Count + KrakenRateCost(op, age) <= RateMax

\* would_allow, as RiskGate::check and check_replace ask it.
WouldAllow(op, age) == Count + KrakenRateCost(op, age) <= RateMax - RateMargin

\* Mutant: the charge is not dated, and what has decayed decays again.
ChargeUndated(op, age) ==
    /\ count' = Count + KrakenRateCost(op, age)
    /\ UNCHANGED last

\* charge: a clock that is behind does not move last_ns back.
Charge(op, age) ==
    /\ count' = Count + KrakenRateCost(op, age)
    /\ last' = IF now > last THEN now ELSE last

\* next_id: an identifier is used once (one whose add was refused and that is
\* no longer under way stands for a new one).
NewId(o) ==
    vack[o] = 0 /\ o \notin live /\ \A i \in 1..Len(wire) : wire[i].order # o

\* submit, replace or cancel of one order: an add and an amend are refused
\* past the margin, a cancel never is; all are charged once they are sent.
Request(op, o) ==
    LET age == Age(op, tack[o])
    IN  /\ used < MaxRequests /\ used' = used + 1
        /\ IF op = "Add" THEN NewId(o) ELSE o \in live
        /\ op # "Cancel" => WouldAllow(op, age)
        /\ Charge(op, age)
        /\ live' = IF op = "Add" THEN live \union {o}
                   ELSE IF op = "Cancel" THEN live \ {o} ELSE live
        /\ wire' = Append(wire, [op |-> op, order |-> o, sent |-> now])
        /\ UNCHANGED <<replay, now, tack, acks, venue, vack, refused, ticks>>

\* apply_report of an Ack.
Ack(o) ==
    /\ o \in acks
    /\ acks' = acks \ {o}
    /\ tack' = [tack EXCEPT ![o] = now]
    /\ UNCHANGED <<replay, now, count, last, live, wire, venue, vack, refused, used, ticks>>

-----------------------------------------------------------------------------
(* The venue and the clock.                                                *)

\* The oldest request arrives: the venue refuses an add or an amend that takes
\* its counter past the maximum, and charges any other.
Arrive ==
    /\ wire # <<>>
    /\ LET r == Head(wire)
           c == KrakenRateCost(r.op, Age(r.op, vack[r.order]))
       IN  IF r.op # "Cancel" /\ venue + c > RateMax
           THEN refused' = TRUE /\ UNCHANGED <<venue, vack, acks>>
           ELSE /\ venue' = venue + c
                /\ vack' = IF r.op = "Add" THEN [vack EXCEPT ![r.order] = now] ELSE vack
                /\ acks' = IF r.op = "Add" THEN acks \union {r.order} ELSE acks
                /\ UNCHANGED refused
    /\ wire' = Tail(wire)
    /\ UNCHANGED <<replay, now, count, last, tack, live, used, ticks>>

\* The clock advances by d: in a replay after everything has been answered,
\* live before anything is under way for too long.
Advance(d) ==
    /\ ticks < MaxTicks /\ ticks' = ticks + 1
    /\ IF replay THEN wire = <<>> /\ acks = {}
       ELSE /\ \A i \in 1..Len(wire) : now + d - wire[i].sent <= MaxTransit
            /\ \A o \in acks : now + d - vack[o] <= MaxTransit
    /\ now' = now + d
    /\ venue' = Floor0(venue - Decay * d)
    /\ UNCHANGED <<replay, count, last, tack, live, wire, acks, vack, refused, used>>

\* The event clock steps back; no time has passed for the venue.
StepBack(d) ==
    /\ replay /\ wire = <<>> /\ acks = {}
    /\ ticks < MaxTicks /\ ticks' = ticks + 1
    /\ now > d /\ now' = now - d
    /\ UNCHANGED <<replay, count, last, tack, live, wire, acks, venue, vack, refused, used>>

RateNext ==
    \/ \E op \in RateOp, o \in RateOrder : Request(op, o)
    \/ \E o \in RateOrder : Ack(o)
    \/ Arrive
    \/ \E d \in ClockSteps : Advance(d) \/ StepBack(d)

RateSpec == RateInit /\ [][RateNext]_rateVars

-----------------------------------------------------------------------------
(* Properties.                                                             *)

\* The lazy counter is never behind the venue's by more than what decays while
\* a request is under way, whatever the clock does: it steps back, nothing is
\* read for a long time, charges fall before the last one, acks come late.
NeverUndercounts == venue <= Count + IF replay THEN 0 ELSE Decay * MaxTransit

\* What the risk gate lets through the venue takes: if the margin covers what
\* decays in transit, no add or amend is refused for its rate, even after
\* cancels, which are never held back, took the counter past the maximum.
MarginCoversTransit == RateMargin >= Decay * MaxTransit => ~refused

\* The rate model keeps the exec within the venue's limit: it never counts less
\* than the venue but for what is under way, and its margin covers that.
RateHeadroom == NeverUndercounts /\ MarginCoversTransit
=============================================================================
